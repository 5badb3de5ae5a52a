-------------------------- MODULE StatementsProof --------------------------
(***************************************************************************)
(* Proofs about Statements: the two engines hold the same tables, an       *)
(* INSERT stores its row and loses none, what a grouped SELECT shows is    *)
(* the same in all rows of a group, a well typed SELECT runs to its end,   *)
(* and both engines answer a SELECT alike.  For every list of statements,  *)
(* every nesting of expressions, and every IntMax, ExactBelow and MaxRows. *)
(***************************************************************************)
EXTENDS Statements, LeastElement, SequenceTheorems

-----------------------------------------------------------------------------
(* Induction over expressions, by the layers they stand in.                *)

LEMMA LayersAre ==
    /\ Len(Layers) \in Nat /\ DOMAIN Layers = 1 .. Len(Layers)
    /\ \A e : e \in Expressions <=> \E h \in DOMAIN Layers : e \in Layers[h]
    /\ \A h \in DOMAIN Layers : \A e \in Layers[h] :
         /\ IsExpression(e)
         /\ \A o \in Operands(e) :
              \E below \in DOMAIN Layers : below < h /\ o \in Layers[below]
  <1>1. Layers \in Seq(Range(Layers))
    BY ExpressionsAssumption DEF IsSequence
  <1>2. Len(Layers) \in Nat /\ DOMAIN Layers = 1 .. Len(Layers)
    BY <1>1
  <1>3. \A e : e \in Expressions <=> \E h \in DOMAIN Layers : e \in Layers[h]
    BY DEF Expressions, Range
  <1>4. ASSUME NEW h \in DOMAIN Layers, NEW e \in Layers[h]
        PROVE  /\ IsExpression(e)
               /\ \A o \in Operands(e) :
                    \E below \in DOMAIN Layers : below < h /\ o \in Layers[below]
    <2>1. IsExpression(e)
      BY ExpressionsAssumption
    <2>2. ASSUME NEW o \in Operands(e)
          PROVE  \E below \in DOMAIN Layers : below < h /\ o \in Layers[below]
      <3>1. PICK below \in 1 .. h - 1 : o \in Layers[below]
        BY ExpressionsAssumption
      <3>2. below \in DOMAIN Layers /\ below < h
        BY <1>2
      <3>3. QED BY <3>1, <3>2
    <2>3. QED BY <2>1, <2>2
  <1>5. QED BY <1>2, <1>3, <1>4

LEMMA ExpressionIs ==
    ASSUME NEW e \in Expressions
    PROVE  IsExpression(e) /\ Operands(e) \subseteq Expressions
  <1>1. PICK h \in DOMAIN Layers : e \in Layers[h]
    BY LayersAre
  <1>2. IsExpression(e)
    BY <1>1, LayersAre
  <1>3. ASSUME NEW o \in Operands(e) PROVE o \in Expressions
    <2>1. PICK below \in DOMAIN Layers : o \in Layers[below]
      BY <1>1, LayersAre
    <2>2. QED BY <2>1, LayersAre
  <1>4. QED BY <1>2, <1>3

(* Among expressions, one none of whose operands is among them.            *)
LEMMA LowestExpression ==
    ASSUME NEW Bad, Bad \subseteq Expressions, Bad # {}
    PROVE  \E e \in Bad : Operands(e) \subseteq Expressions \ Bad
  <1>1. PICK heights : heights = {h \in DOMAIN Layers : \E e \in Bad : e \in Layers[h]}
    OBVIOUS
  <1>2. heights \subseteq Nat
    <2>1. DOMAIN Layers \subseteq Nat
      BY LayersAre
    <2>2. QED BY <1>1, <2>1
  <1>3. heights # {}
    <2>1. PICK e \in Bad : TRUE
      OBVIOUS
    <2>2. PICK h \in DOMAIN Layers : e \in Layers[h]
      BY <2>1, LayersAre
    <2>3. QED BY <1>1, <2>1, <2>2
  <1>4. PICK h \in heights : \A k \in heights : h <= k
    BY <1>2, <1>3, LeastNatural
  <1>5. PICK e \in Bad : e \in Layers[h] /\ h \in DOMAIN Layers
    BY <1>1, <1>4
  <1>6. ASSUME NEW o \in Operands(e) PROVE o \in Expressions \ Bad
    <2>1. PICK below \in DOMAIN Layers : below < h /\ o \in Layers[below]
      BY <1>5, LayersAre
    <2>2. o \in Expressions
      BY <2>1, LayersAre
    <2>3. ASSUME o \in Bad PROVE FALSE
      <3>1. below \in heights
        BY <1>1, <2>1, <2>3
      <3>2. h <= below /\ h \in Nat /\ below \in Nat
        BY <1>2, <1>4, <3>1
      <3>3. QED BY <2>1, <3>2
    <2>4. QED BY <2>2, <2>3
  <1>7. QED BY <1>5, <1>6

(* The expressions of the first n layers.                                  *)
FirstLayers(n) == {e \in Expressions : \E h \in DOMAIN Layers : h <= n /\ e \in Layers[h]}

LEMMA FirstLayersAre ==
    /\ FirstLayers(0) = {}
    /\ FirstLayers(Len(Layers)) = Expressions
    /\ \A n \in Nat : n # 0 =>
         /\ FirstLayers(n - 1) \subseteq FirstLayers(n)
         /\ \A e \in FirstLayers(n) : Operands(e) \subseteq FirstLayers(n - 1)
  <1>1. FirstLayers(0) = {}
    <2>1. \A h \in DOMAIN Layers : ~(h <= 0)
      BY LayersAre
    <2>2. QED BY <2>1 DEF FirstLayers
  <1>2. FirstLayers(Len(Layers)) = Expressions
    <2>1. \A h \in DOMAIN Layers : h <= Len(Layers)
      BY LayersAre
    <2>2. QED BY <2>1, LayersAre DEF FirstLayers
  <1>3. ASSUME NEW n \in Nat, n # 0
        PROVE  FirstLayers(n - 1) \subseteq FirstLayers(n)
    <2>1. \A h \in DOMAIN Layers : h <= n - 1 => h <= n
      BY LayersAre
    <2>2. QED BY <2>1 DEF FirstLayers
  <1>4. ASSUME NEW n \in Nat, n # 0, NEW e \in FirstLayers(n), NEW o \in Operands(e)
        PROVE  o \in FirstLayers(n - 1)
    <2>1. PICK h \in DOMAIN Layers : h <= n /\ e \in Layers[h]
      BY DEF FirstLayers
    <2>2. PICK below \in DOMAIN Layers : below < h /\ o \in Layers[below]
      BY <2>1, LayersAre
    <2>3. h \in Nat /\ below \in Nat
      BY LayersAre
    <2>4. below <= n - 1
      BY <2>1, <2>2, <2>3
    <2>5. o \in Expressions
      BY <2>2, LayersAre
    <2>6. QED BY <2>2, <2>4, <2>5 DEF FirstLayers
  <1>5. QED BY <1>1, <1>2, <1>3, <1>4

LEMMA OperandsAre ==
    ASSUME NEW e \in Expressions
    PROVE  /\ e.kind \in {"column", "NULL", "int", "double", "string"} => Operands(e) = {}
           /\ e.kind \in {"NOT", "IS NULL"} => Operands(e) = {e.arg}
           /\ e.kind \in {"AND", "OR"} \cup Comparisons => Operands(e) = {e.left, e.right}
  BY DEF Operands, Comparisons

LEMMA KindsAre ==
    ASSUME NEW e \in Expressions
    PROVE  e.kind \in {"column", "NULL", "int", "double", "string", "NOT", "IS NULL",
                       "AND", "OR"} \cup Comparisons
  BY ExpressionIs DEF IsExpression

PartsStep(f, e) == {e} \cup UNION {f[o] : o \in Operands(e)}

LEMMA PartsLocal ==
    ASSUME NEW e \in Expressions, NEW f, NEW g,
           \A o \in Operands(e) : f[o] = g[o]
    PROVE  PartsStep(g, e) = PartsStep(f, e)
  <1>1. {g[o] : o \in Operands(e)} = {f[o] : o \in Operands(e)}
    OBVIOUS
  <1>2. QED BY <1>1 DEF PartsStep

(* There is the function that Parts describes.                            *)
LEMMA PartsExists ==
    \E f : f = [e \in Expressions |-> PartsStep(f, e)]
  <1> DEFINE Good(n, g) == g = [e \in FirstLayers(n) |-> PartsStep(g, e)]
  <1>1. PICK Bad : Bad = {n \in Nat : ~ \E g : Good(n, g)}
    OBVIOUS
  <1>2. Bad = {}
    <2>1. SUFFICES ASSUME Bad # {} PROVE FALSE
      OBVIOUS
    <2>2. PICK n \in Bad : \A m \in Bad : n <= m
      BY <1>1, <2>1, LeastNatural
    <2>3. n \in Nat
      BY <1>1
    <2>4. n # 0
      <3>1. ASSUME NEW g, g = [e \in FirstLayers(0) |-> PartsStep(g, e)]
            PROVE  Good(0, g)
        BY <3>1
      <3>2. PICK g : g = [e \in {} |-> 0]
        OBVIOUS
      <3>3. g = [e \in {} |-> PartsStep(g, e)]
        BY <3>2
      <3>4. Good(0, g)
        BY <3>3, FirstLayersAre
      <3>5. QED BY <1>1, <3>4
    <2>5. n - 1 \in Nat /\ n - 1 \notin Bad
      <3>1. n - 1 \in Nat /\ ~(n <= n - 1)
        BY <2>3, <2>4
      <3>2. QED BY <2>2, <3>1
    <2>6. PICK g : Good(n - 1, g)
      BY <1>1, <2>5
    <2>7. PICK now, before : now = FirstLayers(n) /\ before = FirstLayers(n - 1)
      OBVIOUS
    <2>8. /\ before \subseteq now /\ now \subseteq Expressions
          /\ \A e \in now : Operands(e) \subseteq before
      <3>1. now \subseteq Expressions
        BY <2>7 DEF FirstLayers
      <3>2. QED BY <2>3, <2>4, <2>7, <3>1, FirstLayersAre
    <2>9. g = [e \in before |-> PartsStep(g, e)]
      BY <2>6, <2>7
    <2>10. PICK h : h = [e \in now |-> PartsStep(g, e)]
      OBVIOUS
    <2>11. \A e \in before : h[e] = g[e]
      <3>1. \A e \in before : g[e] = PartsStep(g, e)
        BY <2>9
      <3>2. QED BY <2>8, <2>10, <3>1
    <2>12. ASSUME NEW e \in now PROVE h[e] = PartsStep(h, e)
      <3>1. h[e] = PartsStep(g, e)
        BY <2>10
      <3>2. \A o \in Operands(e) : h[o] = g[o]
        BY <2>8, <2>11
      <3>3. e \in Expressions
        BY <2>8
      <3>4. PartsStep(g, e) = PartsStep(h, e)
        BY <3>2, <3>3, PartsLocal
      <3>5. QED BY <3>1, <3>4
    <2>13. h = [e \in now |-> h[e]]
      BY <2>10
    <2>14. h = [e \in now |-> PartsStep(h, e)]
      BY <2>12, <2>13
    <2>15. Good(n, h)
      BY <2>7, <2>14
    <2>16. QED BY <1>1, <2>15
  <1>3. PICK n : n = Len(Layers)
    OBVIOUS
  <1>4. n \in Nat
    BY <1>3, LayersAre
  <1>5. PICK g : Good(n, g)
    BY <1>1, <1>2, <1>4
  <1>6. FirstLayers(n) = Expressions
    BY <1>3, FirstLayersAre
  <1>7. QED BY <1>5, <1>6

LEMMA PartsAre ==
    /\ DOMAIN Parts = Expressions
    /\ \A e \in Expressions : Parts[e] = {e} \cup UNION {Parts[o] : o \in Operands(e)}
  <1>1. Parts = CHOOSE f : f = [e \in Expressions |-> PartsStep(f, e)]
    BY DEF Parts, PartsStep
  <1>2. Parts = [e \in Expressions |-> PartsStep(Parts, e)]
    BY <1>1, PartsExists
  <1>3. PICK f : f = Parts
    OBVIOUS
  <1>4. f = [e \in Expressions |-> PartsStep(f, e)]
    BY <1>2, <1>3
  <1>5. DOMAIN f = Expressions /\ \A e \in Expressions : f[e] = PartsStep(f, e)
    BY <1>4
  <1>6. QED BY <1>3, <1>5 DEF PartsStep

ConjunctsStep(f, e) == IF e.kind = "AND" THEN f[e.left] \o f[e.right] ELSE <<e>>

LEMMA ConjunctsLocal ==
    ASSUME NEW e \in Expressions, NEW f, NEW g,
           \A o \in Operands(e) : f[o] = g[o]
    PROVE  ConjunctsStep(g, e) = ConjunctsStep(f, e)
  <1>1. CASE e.kind = "AND"
    <2>1. e.left \in Operands(e) /\ e.right \in Operands(e)
      BY <1>1, OperandsAre
    <2>2. f[e.left] = g[e.left] /\ f[e.right] = g[e.right]
      BY <2>1
    <2>3. QED BY <1>1, <2>2 DEF ConjunctsStep
  <1>2. CASE e.kind # "AND"
    BY <1>2 DEF ConjunctsStep
  <1>3. QED BY <1>1, <1>2

(* There is the function that Conjuncts describes.                        *)
LEMMA ConjunctsExists ==
    \E f : f = [e \in Expressions |-> ConjunctsStep(f, e)]
  <1> DEFINE Good(n, g) == g = [e \in FirstLayers(n) |-> ConjunctsStep(g, e)]
  <1>1. PICK Bad : Bad = {n \in Nat : ~ \E g : Good(n, g)}
    OBVIOUS
  <1>2. Bad = {}
    <2>1. SUFFICES ASSUME Bad # {} PROVE FALSE
      OBVIOUS
    <2>2. PICK n \in Bad : \A m \in Bad : n <= m
      BY <1>1, <2>1, LeastNatural
    <2>3. n \in Nat
      BY <1>1
    <2>4. n # 0
      <3>1. ASSUME NEW g, g = [e \in FirstLayers(0) |-> ConjunctsStep(g, e)]
            PROVE  Good(0, g)
        BY <3>1
      <3>2. PICK g : g = [e \in {} |-> 0]
        OBVIOUS
      <3>3. g = [e \in {} |-> ConjunctsStep(g, e)]
        BY <3>2
      <3>4. Good(0, g)
        BY <3>3, FirstLayersAre
      <3>5. QED BY <1>1, <3>4
    <2>5. n - 1 \in Nat /\ n - 1 \notin Bad
      <3>1. n - 1 \in Nat /\ ~(n <= n - 1)
        BY <2>3, <2>4
      <3>2. QED BY <2>2, <3>1
    <2>6. PICK g : Good(n - 1, g)
      BY <1>1, <2>5
    <2>7. PICK now, before : now = FirstLayers(n) /\ before = FirstLayers(n - 1)
      OBVIOUS
    <2>8. /\ before \subseteq now /\ now \subseteq Expressions
          /\ \A e \in now : Operands(e) \subseteq before
      <3>1. now \subseteq Expressions
        BY <2>7 DEF FirstLayers
      <3>2. QED BY <2>3, <2>4, <2>7, <3>1, FirstLayersAre
    <2>9. g = [e \in before |-> ConjunctsStep(g, e)]
      BY <2>6, <2>7
    <2>10. PICK h : h = [e \in now |-> ConjunctsStep(g, e)]
      OBVIOUS
    <2>11. \A e \in before : h[e] = g[e]
      <3>1. \A e \in before : g[e] = ConjunctsStep(g, e)
        BY <2>9
      <3>2. QED BY <2>8, <2>10, <3>1
    <2>12. ASSUME NEW e \in now PROVE h[e] = ConjunctsStep(h, e)
      <3>1. h[e] = ConjunctsStep(g, e)
        BY <2>10
      <3>2. \A o \in Operands(e) : h[o] = g[o]
        BY <2>8, <2>11
      <3>3. e \in Expressions
        BY <2>8
      <3>4. ConjunctsStep(g, e) = ConjunctsStep(h, e)
        BY <3>2, <3>3, ConjunctsLocal
      <3>5. QED BY <3>1, <3>4
    <2>13. h = [e \in now |-> h[e]]
      BY <2>10
    <2>14. h = [e \in now |-> ConjunctsStep(h, e)]
      BY <2>12, <2>13
    <2>15. Good(n, h)
      BY <2>7, <2>14
    <2>16. QED BY <1>1, <2>15
  <1>3. PICK n : n = Len(Layers)
    OBVIOUS
  <1>4. n \in Nat
    BY <1>3, LayersAre
  <1>5. PICK g : Good(n, g)
    BY <1>1, <1>2, <1>4
  <1>6. FirstLayers(n) = Expressions
    BY <1>3, FirstLayersAre
  <1>7. QED BY <1>5, <1>6

LEMMA ConjunctsAre ==
    ASSUME NEW e \in Expressions
    PROVE  Conjuncts[e] = IF e.kind = "AND" THEN Conjuncts[e.left] \o Conjuncts[e.right]
                          ELSE <<e>>
  <1>1. Conjuncts = CHOOSE f : f = [x \in Expressions |-> ConjunctsStep(f, x)]
    BY DEF Conjuncts, ConjunctsStep
  <1>2. Conjuncts = [x \in Expressions |-> ConjunctsStep(Conjuncts, x)]
    BY <1>1, ConjunctsExists
  <1>3. PICK f : f = Conjuncts
    OBVIOUS
  <1>4. f = [x \in Expressions |-> ConjunctsStep(f, x)]
    BY <1>2, <1>3
  <1>5. f[e] = ConjunctsStep(f, e)
    BY <1>4
  <1>6. QED BY <1>3, <1>5 DEF ConjunctsStep

LEMMA EvaluateLocal ==
    ASSUME NEW schema, NEW row, NEW e \in Expressions, NEW f, NEW g,
           \A o \in Operands(e) : f[o] = g[o]
    PROVE  EvaluateWith(g, e, schema, row) = EvaluateWith(f, e, schema, row)
  <1>1. CASE e.kind = "column"
    BY <1>1 DEF EvaluateWith, Literals, Comparisons
  <1>2. CASE e.kind \in Literals
    BY <1>2 DEF EvaluateWith, Literals, Comparisons
  <1>3. CASE e.kind \in {"NOT", "IS NULL"}
    <2>1. f[e.arg] = g[e.arg]
      BY <1>3, OperandsAre
    <2>2. CASE e.kind = "NOT"
      BY <2>1, <2>2 DEF EvaluateWith, Literals, Comparisons
    <2>3. CASE e.kind = "IS NULL"
      BY <2>1, <2>3 DEF EvaluateWith, Literals, Comparisons
    <2>4. QED BY <1>3, <2>2, <2>3
  <1>4. CASE e.kind \in {"AND", "OR"} \cup Comparisons
    <2>1. f[e.left] = g[e.left] /\ f[e.right] = g[e.right]
      BY <1>4, OperandsAre
    <2>2. CASE e.kind = "AND"
      BY <2>1, <2>2 DEF EvaluateWith, Literals, Comparisons
    <2>3. CASE e.kind = "OR"
      BY <2>1, <2>3 DEF EvaluateWith, Literals, Comparisons
    <2>4. CASE e.kind \in Comparisons
      BY <2>1, <2>4 DEF EvaluateWith, Literals, Comparisons
    <2>5. QED BY <1>4, <2>2, <2>3, <2>4
  <1>5. e.kind \in {"column", "NOT", "IS NULL", "AND", "OR"} \cup Literals \cup Comparisons
    BY KindsAre DEF Literals
  <1>6. QED BY <1>1, <1>2, <1>3, <1>4, <1>5

(* There is the function that Evaluate describes.                          *)
LEMMA EvaluateExists ==
    ASSUME NEW schema, NEW row
    PROVE  \E f : f = [e \in Expressions |-> EvaluateWith(f, e, schema, row)]
  <1> DEFINE Good(n, g) == g = [e \in FirstLayers(n) |-> EvaluateWith(g, e, schema, row)]
  <1>1. PICK Bad : Bad = {n \in Nat : ~ \E g : Good(n, g)}
    OBVIOUS
  <1>2. Bad = {}
    <2>1. SUFFICES ASSUME Bad # {} PROVE FALSE
      OBVIOUS
    <2>2. PICK n \in Bad : \A m \in Bad : n <= m
      BY <1>1, <2>1, LeastNatural
    <2>3. n \in Nat
      BY <1>1
    <2>4. n # 0
      <3>1. ASSUME NEW g, g = [e \in FirstLayers(0) |-> EvaluateWith(g, e, schema, row)]
            PROVE  Good(0, g)
        BY <3>1
      <3>2. PICK g : g = [e \in {} |-> 0]
        OBVIOUS
      <3>3. g = [e \in {} |-> EvaluateWith(g, e, schema, row)]
        BY <3>2
      <3>4. Good(0, g)
        BY <3>3, FirstLayersAre
      <3>5. QED BY <1>1, <3>4
    <2>5. n - 1 \in Nat /\ n - 1 \notin Bad
      <3>1. n - 1 \in Nat /\ ~(n <= n - 1)
        BY <2>3, <2>4
      <3>2. QED BY <2>2, <3>1
    <2>6. PICK g : Good(n - 1, g)
      BY <1>1, <2>5
    <2>7. PICK now, before : now = FirstLayers(n) /\ before = FirstLayers(n - 1)
      OBVIOUS
    <2>8. /\ before \subseteq now /\ now \subseteq Expressions
          /\ \A e \in now : Operands(e) \subseteq before
      <3>1. now \subseteq Expressions
        BY <2>7 DEF FirstLayers
      <3>2. QED BY <2>3, <2>4, <2>7, <3>1, FirstLayersAre
    <2>9. g = [e \in before |-> EvaluateWith(g, e, schema, row)]
      BY <2>6, <2>7
    <2>10. PICK h : h = [e \in now |-> EvaluateWith(g, e, schema, row)]
      OBVIOUS
    <2>11. \A e \in before : h[e] = g[e]
      <3>1. \A e \in before : g[e] = EvaluateWith(g, e, schema, row)
        BY <2>9
      <3>2. QED BY <2>8, <2>10, <3>1
    <2>12. ASSUME NEW e \in now PROVE h[e] = EvaluateWith(h, e, schema, row)
      <3>1. h[e] = EvaluateWith(g, e, schema, row)
        BY <2>10
      <3>2. \A o \in Operands(e) : h[o] = g[o]
        BY <2>8, <2>11
      <3>3. e \in Expressions
        BY <2>8
      <3>4. EvaluateWith(g, e, schema, row) = EvaluateWith(h, e, schema, row)
        BY <3>2, <3>3, EvaluateLocal
      <3>5. QED BY <3>1, <3>4
    <2>13. h = [e \in now |-> h[e]]
      BY <2>10
    <2>14. h = [e \in now |-> EvaluateWith(h, e, schema, row)]
      BY <2>12, <2>13
    <2>15. Good(n, h)
      BY <2>7, <2>14
    <2>16. QED BY <1>1, <2>15
  <1>3. PICK n : n = Len(Layers)
    OBVIOUS
  <1>4. n \in Nat
    BY <1>3, LayersAre
  <1>5. PICK g : Good(n, g)
    BY <1>1, <1>2, <1>4
  <1>6. FirstLayers(n) = Expressions
    BY <1>3, FirstLayersAre
  <1>7. QED BY <1>5, <1>6

LEMMA EvaluateIs ==
    ASSUME NEW schema, NEW row
    PROVE  \A e \in Expressions :
             Evaluate(schema, row)[e] = EvaluateWith(Evaluate(schema, row), e, schema, row)
  <1>1. Evaluate(schema, row) =
          CHOOSE f : f = [x \in Expressions |-> EvaluateWith(f, x, schema, row)]
    BY DEF Evaluate
  <1>2. PICK f : f = Evaluate(schema, row)
    OBVIOUS
  <1>3. f = [x \in Expressions |-> EvaluateWith(f, x, schema, row)]
    BY <1>1, <1>2, EvaluateExists
  <1>4. \A e \in Expressions : f[e] = EvaluateWith(f, e, schema, row)
    BY <1>3
  <1>5. QED BY <1>2, <1>4
-----------------------------------------------------------------------------
(* Cells, rows and schemas.                                                *)

LEMMA CellIs ==
    ASSUME NEW type, NEW n
    PROVE  /\ Cell(type, n) # Null
           /\ ValueOf(Cell(type, n)) = [type |-> type, value |-> n]
           /\ \A v \in Cell(type, n) : v = [type |-> type, value |-> n]
           /\ \A other, m : Cell(type, n) = Cell(other, m) => type = other /\ n = m
  <1>1. PICK v : v = [type |-> type, value |-> n]
    OBVIOUS
  <1>2. Cell(type, n) = {v}
    BY <1>1 DEF Cell
  <1>3. ValueOf(Cell(type, n)) = v
    BY <1>2 DEF ValueOf
  <1>4. ASSUME NEW other, NEW m, Cell(type, n) = Cell(other, m)
        PROVE  type = other /\ n = m
    <2>1. v = [type |-> other, value |-> m]
      BY <1>2, <1>4 DEF Cell
    <2>2. v.type = other /\ v.value = m /\ v.type = type /\ v.value = n
      BY <1>1, <2>1
    <2>3. QED BY <2>2
  <1>5. QED BY <1>1, <1>2, <1>3, <1>4 DEF Null

ColumnTypes == {"INT64", "DOUBLE", "STRING"}

IsSchema(schema) == AreColumns(schema) /\ BuildsSchema(schema)

LEMMA SchemaIs ==
    ASSUME NEW schema, IsSchema(schema)
    PROVE  /\ Len(schema) \in Nat /\ DOMAIN schema = 1 .. Len(schema)
           /\ 1 \in DOMAIN schema
           /\ schema[1].type = "INT64" /\ schema[1].nullable = FALSE
           /\ \A i \in DOMAIN schema :
                /\ schema[i].type \in ColumnTypes
                /\ Column(schema[i].name) \in Expressions
           /\ \A i, j \in DOMAIN schema : schema[i].name = schema[j].name => i = j
  <1>1. Len(schema) \in Nat /\ DOMAIN schema = 1 .. Len(schema)
    BY DEF IsSchema, AreColumns, IsSequence
  <1>2. ASSUME NEW i \in DOMAIN schema
        PROVE  /\ schema[i].type \in ColumnTypes
               /\ schema[i].nullable \in BOOLEAN
               /\ Column(schema[i].name) \in Expressions
    <2>1. schema[i] \in Range(schema)
      BY DEF Range
    <2>2. QED BY <2>1 DEF IsSchema, AreColumns, ColumnTypes
  <1>3. \A i, j \in DOMAIN schema : schema[i].name = schema[j].name => i = j
    BY DEF IsSchema, BuildsSchema
  <1>4. schema # <<>> /\ schema[1].is_key
    BY DEF IsSchema, BuildsSchema
  <1>5. Len(schema) \in Nat /\ 1 \in DOMAIN schema
    BY <1>1, <1>4
  <1>6. schema[1].type = "INT64" /\ ~schema[1].nullable
    BY <1>4, <1>5 DEF IsSchema, BuildsSchema
  <1>7. schema[1].nullable = FALSE
    BY <1>2, <1>5, <1>6
  <1>8. QED BY <1>1, <1>2, <1>3, <1>5, <1>6, <1>7

LEMMA IndexIs ==
    ASSUME NEW schema, IsSchema(schema), NEW i \in DOMAIN schema
    PROVE  /\ ColumnIndex(schema, schema[i].name) = {i}
           /\ IndexOf(schema, schema[i].name) = i
  <1>1. ColumnIndex(schema, schema[i].name) = {i}
    BY SchemaIs DEF ColumnIndex
  <1>2. QED BY <1>1 DEF IndexOf

LEMMA IndexOfKnown ==
    ASSUME NEW schema, IsSchema(schema), NEW name, ColumnIndex(schema, name) # {}
    PROVE  /\ IndexOf(schema, name) \in DOMAIN schema
           /\ schema[IndexOf(schema, name)].name = name
           /\ ColumnIndex(schema, name) = {IndexOf(schema, name)}
  <1>1. PICK i \in DOMAIN schema : schema[i].name = name
    BY DEF ColumnIndex
  <1>2. ColumnIndex(schema, name) = {i} /\ IndexOf(schema, name) = i
    BY <1>1, IndexIs
  <1>3. QED BY <1>1, <1>2

(* A cell that is not NULL.                                                *)
LEMMA FilledCell ==
    ASSUME NEW type, NEW cell, IsCell(type, cell), cell # Null
    PROVE  \E n \in Int : /\ cell = Cell(type, n) /\ ValueOf(cell).value = n
                          /\ ValueOf(cell).type = type
                          /\ type = "INT64" => n \in IntMin .. IntMax
  <1>1. PICK n : n = ValueOf(cell).value
    OBVIOUS
  <1>2. /\ cell = Cell(type, n) /\ n \in Int
        /\ type = "INT64" => n \in IntMin .. IntMax
    BY <1>1 DEF IsCell
  <1>3. ValueOf(cell).type = type
    <2>1. ValueOf(cell) = [type |-> type, value |-> n]
      BY <1>2, CellIs
    <2>2. QED BY <2>1
  <1>4. QED BY <1>1, <1>2, <1>3

LEMMA CellOf ==
    ASSUME NEW type, NEW n \in Int, type = "INT64" => n \in IntMin .. IntMax
    PROVE  IsCell(type, Cell(type, n))
  <1>1. ValueOf(Cell(type, n)) = [type |-> type, value |-> n]
    BY CellIs
  <1>2. ValueOf(Cell(type, n)).value = n
    BY <1>1
  <1>3. QED BY <1>2 DEF IsCell

LEMMA LiteralIs ==
    ASSUME NEW e, e.kind \in Literals, IsExpression(e)
    PROVE  /\ LiteralCell(e) = Null \/ e.kind # "NULL"
           /\ e.kind = "NULL" => LiteralCell(e) = Null
           /\ e.kind # "NULL" => /\ LiteralType(e) \in ColumnTypes
                                 /\ e.value \in Int
                                 /\ LiteralCell(e) = Cell(LiteralType(e), e.value)
           /\ IsCell(LiteralType(e), LiteralCell(e))
           /\ LiteralType(e) = "INT64" => e.kind = "int"
  <1>1. e.kind \in {"string", "int", "double", "NULL"}
    BY DEF Literals
  <1>2. CASE e.kind = "NULL"
    <2>1. LiteralCell(e) = Null
      BY <1>2 DEF LiteralCell
    <2>2. LiteralType(e) = "NULL"
      BY <1>2 DEF LiteralType
    <2>3. QED BY <1>2, <2>1, <2>2 DEF IsCell
  <1>3. CASE e.kind # "NULL"
    <2>1. /\ e.kind = "int" => LiteralType(e) = "INT64"
          /\ e.kind = "double" => LiteralType(e) = "DOUBLE"
          /\ e.kind = "string" => LiteralType(e) = "STRING"
      BY DEF LiteralType
    <2>2. LiteralCell(e) = Cell(LiteralType(e), e.value)
      BY <1>3 DEF LiteralCell
    <2>3. e.value \in Int /\ (e.kind = "int" => e.value \in IntMin .. IntMax)
      <3>1. e.kind = "int" => e.value \in IntMin .. IntMax
        BY DEF IsExpression, Comparisons
      <3>2. e.kind \in {"double", "string"} => e.value \in Int
        BY DEF IsExpression, Comparisons
      <3>3. QED BY <1>1, <1>3, <3>1, <3>2
    <2>4. IsCell(LiteralType(e), LiteralCell(e))
      BY <1>1, <1>3, <2>1, <2>2, <2>3, CellOf
    <2>5. QED BY <1>1, <1>3, <2>1, <2>2, <2>3, <2>4 DEF ColumnTypes
  <1>4. QED BY <1>2, <1>3

(* The rows that fit a schema.                                             *)
AnyCell == {Null} \cup {Cell(type, n) : type \in ColumnTypes, n \in Int}
Fitting(schema) == {row \in [DOMAIN schema -> AnyCell] : RowFits(schema, row)}

LEMMA FittingIs ==
    ASSUME NEW schema, IsSchema(schema)
    PROVE  \A row : row \in Fitting(schema) <=> RowFits(schema, row)
  <1>1. ASSUME NEW row, RowFits(schema, row) PROVE row \in Fitting(schema)
    <2>2. ASSUME NEW i \in DOMAIN schema PROVE row[i] \in AnyCell
      <3>1. IsCell(schema[i].type, row[i]) /\ schema[i].type \in ColumnTypes
        BY <1>1, SchemaIs DEF RowFits
      <3>2. CASE row[i] = Null
        BY <3>2 DEF AnyCell
      <3>3. CASE row[i] # Null
        <4>1. PICK n \in Int : row[i] = Cell(schema[i].type, n)
          BY <3>1, <3>3, FilledCell
        <4>2. QED BY <3>1, <4>1 DEF AnyCell
      <3>4. QED BY <3>2, <3>3
    <2>3. row = [i \in DOMAIN schema |-> row[i]]
      BY <1>1 DEF RowFits
    <2>4. row \in [DOMAIN schema -> AnyCell]
      BY <2>2, <2>3
    <2>5. QED BY <1>1, <2>4 DEF Fitting
  <1>2. QED BY <1>1 DEF Fitting

LEMMA RowsFitIs ==
    ASSUME NEW schema, IsSchema(schema), NEW rows
    PROVE  RowsFit(schema, rows) <=> rows \in Seq(Fitting(schema))
  <1>1. ASSUME RowsFit(schema, rows) PROVE rows \in Seq(Fitting(schema))
    <2>1. rows \in Seq(Range(rows))
      BY <1>1 DEF RowsFit, IsSequence
    <2>2. Range(rows) \subseteq Fitting(schema)
      BY <1>1, FittingIs DEF RowsFit, IsSequence
    <2>3. QED BY <2>1, <2>2, SeqMonotonic
  <1>2. ASSUME rows \in Seq(Fitting(schema)) PROVE RowsFit(schema, rows)
    <2>1. rows \in Seq(Range(rows))
      BY <1>2, SeqOfRange
    <2>2. Range(rows) \in SUBSET Fitting(schema)
      BY <1>2, RangeOfSeq
    <2>3. QED BY <2>1, <2>2, FittingIs DEF RowsFit, IsSequence
  <1>3. QED BY <1>1, <1>2

(* The key of a row.                                                       *)
LEMMA KeyIs ==
    ASSUME NEW schema, IsSchema(schema), NEW row, RowFits(schema, row)
    PROVE  /\ row[1] # Null /\ row[1] = Cell("INT64", KeyOf(row))
           /\ KeyOf(row) \in Int /\ KeyOf(row) \in IntMin .. IntMax
  <1>1. 1 \in DOMAIN schema /\ schema[1].type = "INT64" /\ schema[1].nullable = FALSE
    BY SchemaIs
  <1>2. IsCell("INT64", row[1]) /\ row[1] # Null
    BY <1>1 DEF RowFits
  <1>3. PICK n \in Int : /\ row[1] = Cell("INT64", n) /\ ValueOf(row[1]).value = n
                         /\ n \in IntMin .. IntMax
    BY <1>2, FilledCell
  <1>4. QED BY <1>2, <1>3 DEF KeyOf
-----------------------------------------------------------------------------
(* The statements.                                                         *)

LEMMA RequestIs ==
    ASSUME NEW s \in Requests
    PROVE  /\ s.kind = "CREATE" => AreColumns(s.columns)
           /\ s.kind = "INSERT" => IsInsert(s)
           /\ s.kind = "SELECT" => IsSelect(s)
  BY RequestsAssumption

(* What BindInsert makes of the literals is a row of the table.            *)
LEMMA RowOfPlace ==
    ASSUME NEW schema, NEW s, IsInsert(s), InsertBinds(schema, s), NEW i \in DOMAIN schema
    PROVE  \/ /\ ~ \E p \in DOMAIN s.columns : s.columns[p] = schema[i].name
              /\ RowOf(schema, s)[i] = Null
           \/ \E p \in DOMAIN s.columns :
                /\ s.columns[p] = schema[i].name
                /\ s.values[p].kind \in Literals /\ IsExpression(s.values[p])
                /\ RowOf(schema, s)[i] = LiteralCell(s.values[p])
  <1>1. PICK places : places = {p \in DOMAIN s.columns : s.columns[p] = schema[i].name}
    OBVIOUS
  <1>2. RowOf(schema, s)[i] =
          IF places = {} THEN Null ELSE LiteralCell(s.values[CHOOSE p \in places : TRUE])
    BY <1>1 DEF RowOf
  <1>3. CASE places = {}
    BY <1>1, <1>2, <1>3
  <1>4. CASE places # {}
    <2>1. PICK p : p = CHOOSE q \in places : TRUE
      OBVIOUS
    <2>2. p \in DOMAIN s.columns /\ s.columns[p] = schema[i].name
      BY <1>1, <1>4, <2>1
    <2>3. DOMAIN s.columns = DOMAIN s.values
      BY DEF IsInsert, InsertBinds, IsSequence
    <2>4. s.values[p] \in Range(s.values)
      BY <2>2, <2>3 DEF Range
    <2>5. s.values[p].kind \in Literals /\ IsExpression(s.values[p])
      BY <2>4 DEF IsInsert
    <2>6. RowOf(schema, s)[i] = LiteralCell(s.values[p])
      BY <1>2, <1>4, <2>1
    <2>7. QED BY <2>2, <2>5, <2>6
  <1>5. QED BY <1>3, <1>4

LEMMA RowOfFits ==
    ASSUME NEW schema, IsSchema(schema), NEW s, IsInsert(s), InsertBinds(schema, s)
    PROVE  RowFits(schema, RowOf(schema, s))
  <1>1. PICK row : row = RowOf(schema, s)
    OBVIOUS
  <1>2. row = [i \in DOMAIN schema |-> row[i]]
    BY <1>1 DEF RowOf
  <1>3. ASSUME NEW i \in DOMAIN schema
        PROVE  IsCell(schema[i].type, row[i]) /\ (row[i] = Null => schema[i].nullable)
    <2>1. IsValidValue(schema[i], row[i])
      BY <1>1 DEF InsertBinds
    <2>2. CASE row[i] = Null
      BY <2>1, <2>2 DEF IsValidValue, IsCell
    <2>3. CASE row[i] # Null
      <3>1. PICK p \in DOMAIN s.columns : /\ s.values[p].kind \in Literals
                                          /\ IsExpression(s.values[p])
                                          /\ row[i] = LiteralCell(s.values[p])
        BY <1>1, <2>3, RowOfPlace
      <3>2. PICK literal : literal = s.values[p]
        OBVIOUS
      <3>3. literal.kind # "NULL"
        BY <2>3, <3>1, <3>2, LiteralIs
      <3>4. /\ row[i] = Cell(LiteralType(literal), literal.value)
            /\ IsCell(LiteralType(literal), row[i])
        BY <3>1, <3>2, <3>3, LiteralIs
      <3>5. PICK v \in row[i] : TRUE
        BY <2>3 DEF Null
      <3>6. v.type = LiteralType(literal)
        <4>1. v = [type |-> LiteralType(literal), value |-> literal.value]
          BY <3>4, <3>5, CellIs
        <4>2. QED BY <4>1
      <3>7. v.type = schema[i].type
        BY <2>1, <2>3, <3>5 DEF IsValidValue
      <3>8. QED BY <2>3, <3>4, <3>6, <3>7
    <2>4. QED BY <2>2, <2>3
  <1>4. QED BY <1>1, <1>2, <1>3 DEF RowFits

-----------------------------------------------------------------------------
(* The invariant of the session.                                           *)

LEMMA TreeIs ==
    ASSUME NEW tree, IsTree(tree)
    PROVE  /\ IsSchema(tree.schema)
           /\ tree.mem \in Seq(Fitting(tree.schema))
           /\ tree.row \in Seq(Fitting(tree.schema))
           /\ tree.column \in Seq(Fitting(tree.schema))
           /\ RowsOf(tree) \in Seq(Fitting(tree.schema))
           /\ Range(RowsOf(tree)) = Range(tree.mem) \cup Range(tree.row) \cup Range(tree.column)
  <1>1. IsSchema(tree.schema)
    BY DEF IsTree, IsSchema
  <1>2. PICK S, a, b, c : /\ S = Fitting(tree.schema)
                          /\ a = tree.mem /\ b = tree.row /\ c = tree.column
    OBVIOUS
  <1>3. a \in Seq(S) /\ b \in Seq(S) /\ c \in Seq(S)
    BY <1>1, <1>2, RowsFitIs DEF IsTree
  <1>4. PICK ab : ab = a \o b
    OBVIOUS
  <1>5. ab \in Seq(S)
    BY <1>3, <1>4, ConcatProperties
  <1>6. ab \o c \in Seq(S)
    BY <1>3, <1>5, ConcatProperties
  <1>7. Range(ab \o c) = Range(ab) \cup Range(c)
    BY <1>3, <1>5, RangeConcatenation
  <1>8. Range(ab) = Range(a) \cup Range(b)
    BY <1>3, <1>4, RangeConcatenation
  <1>9. RowsOf(tree) = ab \o c
    BY <1>2, <1>4 DEF RowsOf
  <1>10. QED BY <1>1, <1>2, <1>3, <1>6, <1>7, <1>8, <1>9

LEMMA TreeFrom ==
    ASSUME NEW schema, IsSchema(schema),
           NEW mem \in Seq(Fitting(schema)), NEW rows \in Seq(Fitting(schema)),
           NEW column \in Seq(Fitting(schema))
    PROVE  IsTree([schema |-> schema, mem |-> mem, row |-> rows, column |-> column])
  <1>1. PICK tree : tree = [schema |-> schema, mem |-> mem, row |-> rows, column |-> column]
    OBVIOUS
  <1>2. tree.schema = schema /\ tree.mem = mem /\ tree.row = rows /\ tree.column = column
    BY <1>1
  <1>3. RowsFit(schema, mem) /\ RowsFit(schema, rows) /\ RowsFit(schema, column)
    BY RowsFitIs
  <1>4. tree = [schema |-> tree.schema, mem |-> tree.mem, row |-> tree.row,
                column |-> tree.column]
    BY <1>1, <1>2
  <1>5. IsTree(tree)
    BY <1>2, <1>3, <1>4 DEF IsTree, IsSchema
  <1>6. QED BY <1>1, <1>5

LEMMA StmtInitHolds == StmtInit => StmtInv
  <1> SUFFICES ASSUME StmtInit PROVE StmtInv
    OBVIOUS
  <1>1. DOMAIN trees = {} /\ DOMAIN mocks = {}
    BY DEF StmtInit
  <1>2. TablesHold
    <2>1. trees = [t \in DOMAIN trees |-> trees[t]]
      BY DEF StmtInit
    <2>2. mocks = [t \in DOMAIN trees |-> mocks[t]]
      BY <1>1 DEF StmtInit
    <2>3. QED BY <1>1, <2>1, <2>2 DEF TablesHold
  <1>3. LastHolds
    <2>1. last = NothingRun
      BY DEF StmtInit
    <2>2. QED BY <2>1 DEF LastHolds, NothingRun, NoRequest, SelectRan
  <1>4. QED BY <1>2, <1>3 DEF StmtInv

(* Any result but that of a SELECT.                                        *)
LEMMA OtherResult ==
    ASSUME NEW s, NEW lsm, NEW mock, Returned(s, lsm, mock),
           s.kind # "SELECT" \/ lsm.kind = "rejected"
    PROVE  LastHolds'
  <1>1. last' = [request |-> s, lsm |-> lsm, mock |-> mock]
    BY DEF Returned
  <1>2. last'.request = s /\ last'.lsm = lsm /\ last'.mock = mock
    BY <1>1
  <1>3. ~SelectRan'
    BY <1>2 DEF SelectRan
  <1>4. QED BY <1>1, <1>2, <1>3 DEF LastHolds

LEMMA NothingHolds ==
    ASSUME last' = NothingRun
    PROVE  LastHolds'
  BY DEF LastHolds, NothingRun, NoRequest, SelectRan

LEMMA TablesKept ==
    ASSUME TablesHold, UNCHANGED <<trees, mocks>>
    PROVE  TablesHold'
  BY DEF TablesHold

LEMMA SelectStep ==
    ASSUME StmtInv, NEW s \in Requests, Select(s)
    PROVE  StmtInv'
  <1>1. TablesHold'
    BY TablesKept DEF Select, StmtInv
  <1>2. PICK lsm, mock : /\ lsm = SelectFromTree(trees[s.table], s)
                         /\ mock = SelectFromMock(mocks[s.table], s)
    OBVIOUS
  <1>3. last' = [request |-> s, lsm |-> lsm, mock |-> mock]
    BY <1>2 DEF Select, Returned
  <1>4. last'.request = s /\ last'.lsm = lsm /\ last'.mock = mock
    BY <1>3
  <1>5. trees' = trees /\ mocks' = mocks /\ BindsIn(trees, s)
    BY DEF Select
  <1>6. LastHolds'
    BY <1>2, <1>3, <1>4, <1>5 DEF LastHolds
  <1>7. QED BY <1>1, <1>6 DEF StmtInv

(* One table replaced or added.                                            *)
LEMMA OneTable ==
    ASSUME TablesHold, NEW t, NEW tree, NEW mock, IsTree(tree), IsMockOf(tree, mock),
           trees' = [x \in DOMAIN trees \cup {t} |-> IF x = t THEN tree ELSE trees[x]],
           mocks' = [x \in DOMAIN trees \cup {t} |-> IF x = t THEN mock ELSE mocks[x]]
    PROVE  TablesHold'
  <1>1. DOMAIN trees' = DOMAIN trees \cup {t}
    OBVIOUS
  <1>2. ASSUME NEW x \in DOMAIN trees'
        PROVE  IsTree(trees'[x]) /\ IsMockOf(trees'[x], mocks'[x])
    <2>1. CASE x = t
      <3>1. trees'[x] = tree /\ mocks'[x] = mock
        BY <2>1
      <3>2. QED BY <3>1
    <2>2. CASE x # t
      <3>1. x \in DOMAIN trees /\ trees'[x] = trees[x] /\ mocks'[x] = mocks[x]
        BY <1>1, <2>2
      <3>2. QED BY <3>1 DEF TablesHold
    <2>3. QED BY <2>1, <2>2
  <1>3. trees' = [x \in DOMAIN trees' |-> trees'[x]]
    BY <1>1
  <1>4. mocks' = [x \in DOMAIN trees' |-> mocks'[x]]
    BY <1>1
  <1>5. QED BY <1>2, <1>3, <1>4 DEF TablesHold

LEMMA CreateStep ==
    ASSUME StmtInv, NEW s \in Requests, CreateTable(s)
    PROVE  StmtInv'
  <1>1. LastHolds'
    BY OtherResult DEF CreateTable
  <1>2. CASE s.table \in DOMAIN trees
    <2>1. UNCHANGED <<trees, mocks>>
      BY <1>2 DEF CreateTable
    <2>2. QED BY <1>1, <2>1, TablesKept DEF StmtInv
  <1>3. CASE s.table \notin DOMAIN trees
    <2>1. PICK tree : tree = [schema |-> s.columns, mem |-> <<>>,
                              row |-> <<>>, column |-> <<>>]
      OBVIOUS
    <2>2. PICK mock : mock = [schema |-> s.columns, data |-> [k \in {} |-> <<>>]]
      OBVIOUS
    <2>3. trees' = Put(trees, s.table, tree) /\ mocks' = Put(mocks, s.table, mock)
      BY <1>3, <2>1, <2>2 DEF CreateTable
    <2>4. DOMAIN mocks = DOMAIN trees
      BY DEF StmtInv, TablesHold
    <2>5. trees' = [x \in DOMAIN trees \cup {s.table} |->
                      IF x = s.table THEN tree ELSE trees[x]]
      BY <2>3 DEF Put
    <2>6. mocks' = [x \in DOMAIN trees \cup {s.table} |->
                      IF x = s.table THEN mock ELSE mocks[x]]
      BY <2>3, <2>4 DEF Put
    <2>7. IsSchema(s.columns)
      <3>1. s.kind = "CREATE" /\ BuildsSchema(s.columns)
        BY DEF CreateTable, BindsIn
      <3>2. QED BY <3>1, RequestIs DEF IsSchema
    <2>8. IsTree(tree)
      <3>1. <<>> \in Seq(Fitting(s.columns))
        BY EmptySeq
      <3>2. QED BY <2>1, <2>7, <3>1, TreeFrom
    <2>9. IsMockOf(tree, mock)
      <3>1. Range(tree.mem) = {} /\ Range(tree.row) = {} /\ Range(tree.column) = {}
        BY <2>1 DEF Range
      <3>2. Range(RowsOf(tree)) = {}
        BY <2>8, <3>1, TreeIs
      <3>3. mock.data = [k \in {} |-> <<>>] /\ mock.schema = s.columns /\ tree.schema = s.columns
        BY <2>1, <2>2
      <3>4. DOMAIN mock.data = {}
        BY <3>3
      <3>5. mock.data = [k \in DOMAIN mock.data |-> mock.data[k]]
        BY <3>3, <3>4
      <3>6. mock = [schema |-> tree.schema, data |-> [k \in DOMAIN mock.data |-> mock.data[k]]]
        BY <2>2, <3>3, <3>5
      <3>7. QED BY <3>2, <3>4, <3>6 DEF IsMockOf
    <2>10. TablesHold'
      BY <2>5, <2>6, <2>8, <2>9, OneTable DEF StmtInv
    <2>11. QED BY <1>1, <2>10 DEF StmtInv
  <1>4. QED BY <1>2, <1>3

(* On its way to the disk a row keeps its place.                           *)
LEMMA MovedRows ==
    ASSUME NEW S, NEW a \in Seq(S), NEW b \in Seq(S), NEW c \in Seq(S)
    PROVE  /\ (<<>> \o (a \o b)) \o c = (a \o b) \o c
           /\ (a \o <<>>) \o (b \o c) = (a \o b) \o c
  <1>1. a \o b \in Seq(S)
    BY ConcatProperties
  <1>2. <<>> \o (a \o b) = a \o b
    BY <1>1, ConcatEmptySeq
  <1>3. a \o <<>> = a
    BY ConcatEmptySeq
  <1>4. (a \o b) \o c = a \o (b \o c)
    BY ConcatAssociative
  <1>5. QED BY <1>2, <1>3, <1>4

(* What Flush and Compact make of a table.                                 *)
Flushed(tree) == [schema |-> tree.schema, mem |-> <<>>, row |-> tree.mem \o tree.row,
                  column |-> tree.column]
Compacted(tree) == [schema |-> tree.schema, mem |-> tree.mem, row |-> <<>>,
                    column |-> tree.row \o tree.column]

LEMMA MovedTree ==
    ASSUME NEW tree, IsTree(tree)
    PROVE  /\ IsTree(Flushed(tree)) /\ RowsOf(Flushed(tree)) = RowsOf(tree)
           /\ IsTree(Compacted(tree)) /\ RowsOf(Compacted(tree)) = RowsOf(tree)
  <1>1. PICK schema, S, a, b, c :
          /\ schema = tree.schema /\ S = Fitting(schema)
          /\ a = tree.mem /\ b = tree.row /\ c = tree.column
    OBVIOUS
  <1>2. IsSchema(schema) /\ a \in Seq(S) /\ b \in Seq(S) /\ c \in Seq(S)
    BY <1>1, TreeIs
  <1>3. a \o b \in Seq(S) /\ b \o c \in Seq(S) /\ <<>> \in Seq(S)
    BY <1>2, ConcatProperties, EmptySeq
  <1>4. IsTree(Flushed(tree))
    BY <1>1, <1>2, <1>3, TreeFrom DEF Flushed
  <1>5. IsTree(Compacted(tree))
    BY <1>1, <1>2, <1>3, TreeFrom DEF Compacted
  <1>6. RowsOf(tree) = (a \o b) \o c
    BY <1>1 DEF RowsOf
  <1>7. RowsOf(Flushed(tree)) = (<<>> \o (a \o b)) \o c
    BY <1>1 DEF RowsOf, Flushed
  <1>8. RowsOf(Compacted(tree)) = (a \o <<>>) \o (b \o c)
    BY <1>1 DEF RowsOf, Compacted
  <1>9. QED BY <1>2, <1>4, <1>5, <1>6, <1>7, <1>8, MovedRows

LEMMA FlushTables ==
    ASSUME TablesHold, NEW t \in DOMAIN trees, Flush(t)
    PROVE  trees' = [x \in DOMAIN trees \cup {t} |->
                       IF x = t THEN Flushed(trees[t]) ELSE trees[x]]
  <1>1. PICK tree : tree = trees[t]
    OBVIOUS
  <1>2. tree = [schema |-> tree.schema, mem |-> tree.mem, row |-> tree.row,
                column |-> tree.column]
    BY <1>1 DEF TablesHold, IsTree
  <1>3. PICK rows : rows = tree.mem \o tree.row
    OBVIOUS
  <1>4. trees' = [trees EXCEPT ![t].row = rows, ![t].mem = <<>>]
    BY <1>1, <1>3 DEF Flush
  <1>5. [[tree EXCEPT !.row = rows] EXCEPT !.mem = <<>>] = Flushed(tree)
    <2>1. PICK schema, a, b, c :
            /\ schema = tree.schema /\ a = tree.mem /\ b = tree.row /\ c = tree.column
      OBVIOUS
    <2>2. tree = [schema |-> schema, mem |-> a, row |-> b, column |-> c]
      BY <1>2, <2>1
    <2>3. Flushed(tree) = [schema |-> schema, mem |-> <<>>, row |-> rows, column |-> c]
      BY <1>3, <2>1 DEF Flushed
    <2>4. PICK middle : middle = [tree EXCEPT !.row = rows]
      OBVIOUS
    <2>5. middle = [schema |-> schema, mem |-> a, row |-> rows, column |-> c]
      BY <2>2, <2>4
    <2>6. [middle EXCEPT !.mem = <<>>] = [schema |-> schema, mem |-> <<>>, row |-> rows, column |-> c]
      BY <2>5
    <2>7. QED BY <2>3, <2>4, <2>6
  <1>6. trees' = [trees EXCEPT ![t] = [[tree EXCEPT !.row = rows] EXCEPT !.mem = <<>>]]
    BY <1>1, <1>4
  <1>7. PICK moved : moved = Flushed(trees[t])
    OBVIOUS
  <1>8. trees' = [trees EXCEPT ![t] = moved]
    BY <1>1, <1>5, <1>6, <1>7
  <1>9. trees = [x \in DOMAIN trees |-> trees[x]]
    BY DEF TablesHold
  <1>10. trees' = [x \in DOMAIN trees \cup {t} |-> IF x = t THEN moved ELSE trees[x]]
    BY <1>8, <1>9
  <1>11. QED BY <1>7, <1>10

LEMMA CompactTables ==
    ASSUME TablesHold, NEW t \in DOMAIN trees, Compact(t)
    PROVE  trees' = [x \in DOMAIN trees \cup {t} |->
                       IF x = t THEN Compacted(trees[t]) ELSE trees[x]]
  <1>1. PICK tree : tree = trees[t]
    OBVIOUS
  <1>2. tree = [schema |-> tree.schema, mem |-> tree.mem, row |-> tree.row,
                column |-> tree.column]
    BY <1>1 DEF TablesHold, IsTree
  <1>3. PICK rows : rows = tree.row \o tree.column
    OBVIOUS
  <1>4. trees' = [trees EXCEPT ![t].column = rows, ![t].row = <<>>]
    BY <1>1, <1>3 DEF Compact
  <1>5. [[tree EXCEPT !.column = rows] EXCEPT !.row = <<>>] = Compacted(tree)
    <2>1. PICK schema, a, b, c :
            /\ schema = tree.schema /\ a = tree.mem /\ b = tree.row /\ c = tree.column
      OBVIOUS
    <2>2. tree = [schema |-> schema, mem |-> a, row |-> b, column |-> c]
      BY <1>2, <2>1
    <2>3. Compacted(tree) = [schema |-> schema, mem |-> a, row |-> <<>>, column |-> rows]
      BY <1>3, <2>1 DEF Compacted
    <2>4. PICK middle : middle = [tree EXCEPT !.column = rows]
      OBVIOUS
    <2>5. middle = [schema |-> schema, mem |-> a, row |-> b, column |-> rows]
      BY <2>2, <2>4
    <2>6. [middle EXCEPT !.row = <<>>] = [schema |-> schema, mem |-> a, row |-> <<>>, column |-> rows]
      BY <2>5
    <2>7. QED BY <2>3, <2>4, <2>6
  <1>6. trees' = [trees EXCEPT ![t] = [[tree EXCEPT !.column = rows] EXCEPT !.row = <<>>]]
    BY <1>1, <1>4
  <1>7. PICK moved : moved = Compacted(trees[t])
    OBVIOUS
  <1>8. trees' = [trees EXCEPT ![t] = moved]
    BY <1>1, <1>5, <1>6, <1>7
  <1>9. trees = [x \in DOMAIN trees |-> trees[x]]
    BY DEF TablesHold
  <1>10. trees' = [x \in DOMAIN trees \cup {t} |-> IF x = t THEN moved ELSE trees[x]]
    BY <1>8, <1>9
  <1>11. QED BY <1>7, <1>10

(* A table whose rows stay the same is held by the same map.               *)
LEMMA SameRowsSameMap ==
    ASSUME NEW tree, NEW other, NEW mock, IsMockOf(tree, mock),
           other.schema = tree.schema, RowsOf(other) = RowsOf(tree)
    PROVE  IsMockOf(other, mock)
  BY DEF IsMockOf

LEMMA MoveStep ==
    ASSUME StmtInv, NEW t \in DOMAIN trees, Flush(t) \/ Compact(t)
    PROVE  StmtInv'
  <1>1. PICK tree, mock : tree = trees[t] /\ mock = mocks[t]
    OBVIOUS
  <1>2. IsTree(tree) /\ IsMockOf(tree, mock) /\ TablesHold
    BY <1>1 DEF StmtInv, TablesHold
  <1>3. PICK moved : /\ moved = Flushed(tree) \/ moved = Compacted(tree)
                     /\ trees' = [x \in DOMAIN trees \cup {t} |->
                                    IF x = t THEN moved ELSE trees[x]]
    <2>1. CASE Flush(t)
      BY <1>1, <1>2, <2>1, FlushTables
    <2>2. CASE Compact(t)
      BY <1>1, <1>2, <2>2, CompactTables
    <2>3. QED BY <2>1, <2>2
  <1>4. IsTree(moved) /\ RowsOf(moved) = RowsOf(tree)
    BY <1>2, <1>3, MovedTree
  <1>5. moved.schema = tree.schema
    <2>1. Flushed(tree).schema = tree.schema
      BY DEF Flushed
    <2>2. Compacted(tree).schema = tree.schema
      BY DEF Compacted
    <2>3. QED BY <1>3, <2>1, <2>2
  <1>6. IsMockOf(moved, mock)
    BY <1>2, <1>4, <1>5, SameRowsSameMap
  <1>7. mocks' = [x \in DOMAIN trees \cup {t} |-> IF x = t THEN mock ELSE mocks[x]]
    <2>1. mocks' = mocks /\ mocks = [x \in DOMAIN trees |-> mocks[x]]
      BY <1>2 DEF Flush, Compact, TablesHold
    <2>2. QED BY <1>1, <2>1
  <1>8. TablesHold'
    BY <1>2, <1>3, <1>4, <1>6, <1>7, OneTable
  <1>9. LastHolds'
    <2>1. last' = NothingRun
      BY DEF Flush, Compact
    <2>2. QED BY <2>1, NothingHolds
  <1>10. QED BY <1>8, <1>9 DEF StmtInv

-----------------------------------------------------------------------------
(* INSERT.                                                                 *)

(* What it makes of a table.                                               *)
WithRow(tree, row) == [schema |-> tree.schema, mem |-> Append(tree.mem, row),
                       row |-> tree.row, column |-> tree.column]
MapWithRow(mock, row) == [schema |-> mock.schema, data |-> Put(mock.data, KeyOf(row), row)]

InsertedRow(s) == RowOf(trees[s.table].schema, s)

LEMMA InsertTables ==
    ASSUME TablesHold, NEW s, Insert(s)
    PROVE  /\ s.table \in DOMAIN trees
           /\ trees' = [x \in DOMAIN trees \cup {s.table} |->
                          IF x = s.table THEN WithRow(trees[s.table], InsertedRow(s)) ELSE trees[x]]
           /\ mocks' = [x \in DOMAIN trees \cup {s.table} |->
                          IF x = s.table THEN MapWithRow(mocks[s.table], InsertedRow(s)) ELSE mocks[x]]
  <1>1. s.table \in DOMAIN trees
    BY DEF Insert, BindsIn
  <1>2. PICK t, tree, mock : t = s.table /\ tree = trees[t] /\ mock = mocks[t]
    OBVIOUS
  <1>3. IsTree(tree) /\ IsMockOf(tree, mock)
    BY <1>1, <1>2 DEF TablesHold
  <1>0. PICK row : row = InsertedRow(s)
    OBVIOUS
  <1>4. PICK rows, data : rows = Append(tree.mem, row) /\ data = Put(mock.data, KeyOf(row), row)
    OBVIOUS
  <1>5. trees' = [trees EXCEPT ![t].mem = rows]
    BY <1>0, <1>2, <1>4 DEF Insert, InsertedRow
  <1>6. [tree EXCEPT !.mem = rows] = WithRow(tree, row)
    <2>1. PICK schema, a, b, c :
            /\ schema = tree.schema /\ a = tree.mem /\ b = tree.row /\ c = tree.column
      OBVIOUS
    <2>2. tree = [schema |-> schema, mem |-> a, row |-> b, column |-> c]
      BY <1>3, <2>1 DEF IsTree
    <2>3. WithRow(tree, row) = [schema |-> schema, mem |-> rows, row |-> b, column |-> c]
      BY <1>4, <2>1 DEF WithRow
    <2>4. [tree EXCEPT !.mem = rows] = [schema |-> schema, mem |-> rows, row |-> b, column |-> c]
      BY <2>2
    <2>5. QED BY <2>3, <2>4
  <1>7. trees' = [trees EXCEPT ![t] = WithRow(tree, row)]
    BY <1>2, <1>5, <1>6
  <1>8. mocks' = [mocks EXCEPT ![t].data = data]
    BY <1>0, <1>2, <1>4 DEF Insert, InsertedRow
  <1>9. [mock EXCEPT !.data = data] = MapWithRow(mock, row)
    <2>1. PICK schema, before : mock = [schema |-> schema, data |-> before]
      BY <1>3 DEF IsMockOf
    <2>2. QED BY <1>4, <2>1 DEF MapWithRow
  <1>10. mocks' = [mocks EXCEPT ![t] = MapWithRow(mock, row)]
    BY <1>2, <1>8, <1>9
  <1>11. trees = [x \in DOMAIN trees |-> trees[x]] /\ mocks = [x \in DOMAIN trees |-> mocks[x]]
    BY DEF TablesHold
  <1>12. t \in DOMAIN trees /\ DOMAIN mocks = DOMAIN trees
    BY <1>1, <1>2, <1>11
  <1>13. trees' = [x \in DOMAIN trees \cup {t} |->
                     IF x = t THEN WithRow(tree, row) ELSE trees[x]]
    BY <1>7, <1>11, <1>12
  <1>14. mocks' = [x \in DOMAIN trees \cup {t} |->
                     IF x = t THEN MapWithRow(mock, row) ELSE mocks[x]]
    BY <1>10, <1>11, <1>12
  <1>15. QED BY <1>0, <1>1, <1>2, <1>13, <1>14

LEMMA TreeWithRow ==
    ASSUME NEW tree, IsTree(tree), NEW row, RowFits(tree.schema, row)
    PROVE  /\ IsTree(WithRow(tree, row))
           /\ Range(RowsOf(WithRow(tree, row))) = Range(RowsOf(tree)) \cup {row}
  <1>1. PICK schema, S, a, b, c :
          /\ schema = tree.schema /\ S = Fitting(schema)
          /\ a = tree.mem /\ b = tree.row /\ c = tree.column
    OBVIOUS
  <1>2. IsSchema(schema) /\ a \in Seq(S) /\ b \in Seq(S) /\ c \in Seq(S)
    BY <1>1, TreeIs
  <1>3. row \in S
    BY <1>1, <1>2, FittingIs
  <1>4. Append(a, row) \in Seq(S)
    BY <1>2, <1>3, AppendProperties
  <1>5. Range(Append(a, row)) = Range(a) \cup {row}
    <2>1. PICK one : one = <<row>>
      OBVIOUS
    <2>2. Append(a, row) = a \o one /\ one \in Seq(S)
      BY <1>2, <1>3, <2>1, AppendIsConcat
    <2>3. Range(a \o one) = Range(a) \cup Range(one)
      BY <1>2, <2>2, RangeConcatenation
    <2>4. Range(one) = {row}
      BY <2>1 DEF Range
    <2>5. QED BY <2>2, <2>3, <2>4
  <1>6. PICK more : more = WithRow(tree, row)
    OBVIOUS
  <1>7. /\ more = [schema |-> schema, mem |-> Append(a, row), row |-> b, column |-> c]
        /\ more.mem = Append(a, row) /\ more.row = b /\ more.column = c
    BY <1>1, <1>6 DEF WithRow
  <1>8. IsTree(more)
    BY <1>1, <1>2, <1>4, <1>7, TreeFrom
  <1>9. Range(RowsOf(more)) = (Range(a) \cup {row}) \cup Range(b) \cup Range(c)
    BY <1>5, <1>7, <1>8, TreeIs
  <1>10. Range(RowsOf(tree)) = Range(a) \cup Range(b) \cup Range(c)
    BY <1>1, TreeIs
  <1>11. QED BY <1>6, <1>8, <1>9, <1>10

(* The map keeps the last row of a key.                                    *)
LEMMA MapHoldsRow ==
    ASSUME NEW tree, NEW mock, IsMockOf(tree, mock), NEW row, NEW more,
           more = WithRow(tree, row),
           Range(RowsOf(more)) = Range(RowsOf(tree)) \cup {row}
    PROVE  IsMockOf(more, MapWithRow(mock, row))
  <1>1. PICK stored, data, key, grown :
          /\ stored = Range(RowsOf(tree)) /\ data = mock.data /\ key = KeyOf(row)
          /\ grown = Put(data, key, row)
    OBVIOUS
  <1>2. /\ mock.schema = tree.schema
        /\ DOMAIN data = {KeyOf(r) : r \in stored}
        /\ \A k \in DOMAIN data : data[k] \in stored /\ KeyOf(data[k]) = k
    BY <1>1 DEF IsMockOf
  <1>3. grown = [k \in DOMAIN data \cup {key} |-> IF k = key THEN row ELSE data[k]]
    BY <1>1 DEF Put
  <1>4. DOMAIN grown = {KeyOf(r) : r \in stored \cup {row}}
    BY <1>1, <1>2, <1>3
  <1>5. ASSUME NEW k \in DOMAIN grown
        PROVE  grown[k] \in stored \cup {row} /\ KeyOf(grown[k]) = k
    BY <1>1, <1>2, <1>3
  <1>6. grown = [k \in DOMAIN grown |-> grown[k]]
    BY <1>3
  <1>7. PICK map : map = MapWithRow(mock, row)
    OBVIOUS
  <1>8. map = [schema |-> mock.schema, data |-> grown]
    BY <1>1, <1>7 DEF MapWithRow
  <1>9. map.data = grown /\ more.schema = tree.schema
    BY <1>8 DEF WithRow
  <1>10. map = [schema |-> more.schema, data |-> [k \in DOMAIN map.data |-> map.data[k]]]
    BY <1>2, <1>6, <1>8, <1>9
  <1>11. IsMockOf(more, map)
    BY <1>1, <1>4, <1>5, <1>9, <1>10 DEF IsMockOf
  <1>12. QED BY <1>7, <1>11

LEMMA InsertStep ==
    ASSUME StmtInv, NEW s \in Requests, Insert(s)
    PROVE  StmtInv'
  <1>1. PICK row : row = InsertedRow(s)
    OBVIOUS
  <1>2. TablesHold /\ s.table \in DOMAIN trees
    BY <1>1, InsertTables DEF StmtInv
  <1>3. PICK tree, mock : tree = trees[s.table] /\ mock = mocks[s.table]
    OBVIOUS
  <1>4. IsTree(tree) /\ IsMockOf(tree, mock)
    BY <1>2, <1>3 DEF TablesHold
  <1>5. RowFits(tree.schema, row)
    <2>1. s.kind = "INSERT" /\ InsertBinds(tree.schema, s)
      BY <1>3 DEF Insert, BindsIn
    <2>2. QED BY <1>1, <1>3, <1>4, <2>1, RequestIs, TreeIs, RowOfFits DEF InsertedRow
  <1>6. IsTree(WithRow(tree, row)) /\ IsMockOf(WithRow(tree, row), MapWithRow(mock, row))
    BY <1>4, <1>5, TreeWithRow, MapHoldsRow
  <1>7. TablesHold'
    <2>1. /\ trees' = [x \in DOMAIN trees \cup {s.table} |->
                         IF x = s.table THEN WithRow(tree, row) ELSE trees[x]]
          /\ mocks' = [x \in DOMAIN trees \cup {s.table} |->
                         IF x = s.table THEN MapWithRow(mock, row) ELSE mocks[x]]
      <3>1. /\ trees' = [x \in DOMAIN trees \cup {s.table} |->
                  IF x = s.table THEN WithRow(trees[s.table], row) ELSE trees[x]]
            /\ mocks' = [x \in DOMAIN trees \cup {s.table} |->
                  IF x = s.table THEN MapWithRow(mocks[s.table], row) ELSE mocks[x]]
        BY <1>1, <1>2, InsertTables
      <3>2. QED BY <1>3, <3>1
    <2>2. QED BY <1>2, <1>6, <2>1, OneTable
  <1>8. LastHolds'
    BY OtherResult DEF Insert
  <1>9. QED BY <1>7, <1>8 DEF StmtInv

-----------------------------------------------------------------------------
LEMMA StmtNextHolds ==
    ASSUME StmtInv, [StmtNext]_stmtVars
    PROVE  StmtInv'
  <1>1. ASSUME NEW s \in Requests, Reject(s) PROVE StmtInv'
    <2>1. UNCHANGED <<trees, mocks>> /\ Returned(s, Rejected, Rejected)
      BY <1>1 DEF Reject
    <2>2. Rejected.kind = "rejected"
      BY DEF Rejected, Outcome
    <2>3. QED BY <2>1, <2>2, OtherResult, TablesKept DEF StmtInv
  <1>2. ASSUME NEW s \in Requests, CreateTable(s) PROVE StmtInv'
    BY <1>2, CreateStep
  <1>3. ASSUME NEW s \in Requests, Insert(s) PROVE StmtInv'
    BY <1>3, InsertStep
  <1>4. ASSUME NEW s \in Requests, Select(s) PROVE StmtInv'
    BY <1>4, SelectStep
  <1>5. CASE TakeResult
    <2>1. last' = NothingRun /\ UNCHANGED <<trees, mocks>>
      BY <1>5 DEF TakeResult
    <2>2. QED BY <2>1, NothingHolds, TablesKept DEF StmtInv
  <1>6. ASSUME NEW t \in DOMAIN trees, Flush(t) \/ Compact(t) PROVE StmtInv'
    BY <1>6, MoveStep
  <1>7. CASE UNCHANGED stmtVars
    BY <1>7 DEF stmtVars, StmtInv, TablesHold, LastHolds, SelectRan
  <1>8. QED BY <1>1, <1>2, <1>3, <1>4, <1>5, <1>6, <1>7 DEF StmtNext

(* After every statement the two engines have the same tables: the tree    *)
(* holds every row inserted, which fits the schema, and the map the last   *)
(* of every key.                                                           *)
THEOREM StatementsInvariant == StmtSpec => []StmtInv
  <1>1. StmtInit => StmtInv
    BY StmtInitHolds
  <1>2. StmtInv /\ [StmtNext]_stmtVars => StmtInv'
    BY StmtNextHolds
  <1>3. QED BY <1>1, <1>2, PTL DEF StmtSpec

-----------------------------------------------------------------------------
(* Rows as bags.                                                           *)

(* h takes the places of f to those of g, value by value.                  *)
Matched(f, g, h) ==
    h \in Bijection(DOMAIN f, DOMAIN g) /\ \A i \in DOMAIN f : g[h[i]] = f[i]

LEMMA MatchedIs ==
    ASSUME NEW f, NEW g, NEW h, Matched(f, g, h)
    PROVE  /\ \A i \in DOMAIN f : h[i] \in DOMAIN g /\ g[h[i]] = f[i]
           /\ \A i, j \in DOMAIN f : h[i] = h[j] => i = j
           /\ \A k \in DOMAIN g : \E i \in DOMAIN f : h[i] = k
           /\ DOMAIN h = DOMAIN f
  BY DEF Matched, Bijection, Injection, Surjection, IsInjective

LEMMA MatchedFrom ==
    ASSUME NEW f, NEW g, NEW h, h \in [DOMAIN f -> DOMAIN g],
           \A i \in DOMAIN f : g[h[i]] = f[i],
           \A i, j \in DOMAIN f : h[i] = h[j] => i = j,
           \A k \in DOMAIN g : \E i \in DOMAIN f : h[i] = k
    PROVE  Matched(f, g, h)
  BY DEF Matched, Bijection, Injection, Surjection, IsInjective

LEMMA MatchedCounts ==
    ASSUME NEW f, NEW g, NEW h, IsFiniteSet(DOMAIN f), Matched(f, g, h), NEW value
    PROVE  CountIn(f, value) = CountIn(g, value)
  <1>1. PICK A, B : /\ A = {i \in DOMAIN f : f[i] = value}
                    /\ B = {k \in DOMAIN g : g[k] = value}
    OBVIOUS
  <1>2. PICK part : part = [i \in A |-> h[i]]
    OBVIOUS
  <1>3. part \in [A -> B]
    BY <1>1, <1>2, MatchedIs
  <1>4. \A i, j \in A : part[i] = part[j] => i = j
    BY <1>1, <1>2, MatchedIs
  <1>5. \A k \in B : \E i \in A : part[i] = k
    <2> TAKE k \in B
    <2>1. PICK i \in DOMAIN f : h[i] = k
      BY <1>1, MatchedIs
    <2>2. f[i] = value
      BY <1>1, <2>1, MatchedIs
    <2>3. i \in A /\ part[i] = k
      BY <1>1, <1>2, <2>1, <2>2
    <2>4. QED BY <2>3
  <1>6. part \in Bijection(A, B)
    BY <1>3, <1>4, <1>5 DEF Bijection, Injection, Surjection, IsInjective
  <1>7. IsFiniteSet(A)
    BY <1>1, FS_Subset
  <1>8. Cardinality(A) = Cardinality(B)
    BY <1>6, <1>7, FS_Bijection DEF ExistsBijection
  <1>9. QED BY <1>1, <1>8 DEF CountIn

LEMMA MatchedRows ==
    ASSUME NEW f, NEW g, NEW h, IsFiniteSet(DOMAIN f), Matched(f, g, h)
    PROVE  SameRows(f, g)
  BY MatchedCounts DEF SameRows, SameOutcome, Outcome

LEMMA SameItself ==
    ASSUME NEW outcome
    PROVE  SameOutcome(outcome, outcome)
  BY DEF SameOutcome

(* Wherever the row stands, the rows are those before and the new one.     *)
LEMMA RowAdded ==
    ASSUME NEW S, NEW a \in Seq(S), NEW rest \in Seq(S), NEW row \in S
    PROVE  SameRows(Append(a \o rest, row), Append(a, row) \o rest)
  <1>1. PICK m, n : m = Len(a) /\ n = Len(rest)
    OBVIOUS
  <1>2. m \in Nat /\ n \in Nat
    BY <1>1, LenProperties
  <1>3. PICK p, q : p = Append(a \o rest, row) /\ q = Append(a, row) \o rest
    OBVIOUS
  <1>4. /\ a \o rest \in Seq(S) /\ Len(a \o rest) = m + n
        /\ \A i \in 1 .. m + n :
             (a \o rest)[i] = IF i <= m THEN a[i] ELSE rest[i - m]
    BY <1>1, ConcatProperties
  <1>5. /\ p \in Seq(S) /\ Len(p) = m + n + 1
        /\ \A i \in 1 .. m + n : p[i] = (a \o rest)[i]
        /\ p[m + n + 1] = row
    BY <1>3, <1>4, AppendProperties
  <1>6. /\ Append(a, row) \in Seq(S) /\ Len(Append(a, row)) = m + 1
        /\ \A i \in 1 .. m : Append(a, row)[i] = a[i]
        /\ Append(a, row)[m + 1] = row
    BY <1>1, AppendProperties
  <1>7. /\ q \in Seq(S) /\ Len(q) = m + 1 + n
        /\ \A i \in 1 .. m + 1 + n :
             q[i] = IF i <= m + 1 THEN Append(a, row)[i] ELSE rest[i - (m + 1)]
    BY <1>1, <1>3, <1>6, ConcatProperties
  <1>8. DOMAIN p = 1 .. m + n + 1 /\ DOMAIN q = 1 .. m + n + 1
    <2>1. m + 1 + n = m + n + 1
      BY <1>2
    <2>2. DOMAIN p = 1 .. Len(p) /\ DOMAIN q = 1 .. Len(q)
      BY <1>5, <1>7, LenProperties
    <2>3. QED BY <1>5, <1>7, <2>1, <2>2
  <1>9. PICK h : h = [i \in 1 .. m + n + 1 |->
                        IF i <= m THEN i ELSE IF i = m + n + 1 THEN m + 1 ELSE i + 1]
    OBVIOUS
  <1>10. h \in [DOMAIN p -> DOMAIN q]
    BY <1>2, <1>8, <1>9
  <1>11. \A i, j \in DOMAIN p : h[i] = h[j] => i = j
    BY <1>2, <1>8, <1>9
  <1>12. \A k \in DOMAIN q : \E i \in DOMAIN p : h[i] = k
    <2> TAKE k \in DOMAIN q
    <2>1. k \in 1 .. m + n + 1
      BY <1>8
    <2>2. CASE k <= m
      <3>1. h[k] = k
        BY <1>9, <2>1, <2>2
      <3>2. QED BY <1>8, <2>1, <3>1
    <2>3. CASE k = m + 1
      <3>1. m + n + 1 \in 1 .. m + n + 1 /\ ~(m + n + 1 <= m)
        BY <1>2
      <3>2. h[m + n + 1] = k
        BY <1>9, <2>3, <3>1
      <3>3. QED BY <1>8, <3>1, <3>2
    <2>4. CASE k > m + 1
      <3>1. k - 1 \in 1 .. m + n + 1 /\ ~(k - 1 <= m) /\ k - 1 # m + n + 1
        BY <1>2, <2>1, <2>4
      <3>2. h[k - 1] = (k - 1) + 1
        BY <1>9, <3>1
      <3>3. h[k - 1] = k
        BY <2>1, <3>2
      <3>4. QED BY <1>8, <3>1, <3>3
    <2>5. QED BY <1>2, <2>1, <2>2, <2>3, <2>4
  <1>13. \A i \in DOMAIN p : q[h[i]] = p[i]
    <2> TAKE i \in DOMAIN p
    <2>1. i \in 1 .. m + n + 1
      BY <1>8
    <2>2. CASE i <= m
      <3>1. h[i] = i /\ i \in 1 .. m /\ i \in 1 .. m + n /\ i \in 1 .. m + 1 + n /\ i <= m + 1
        BY <1>2, <1>9, <2>1, <2>2
      <3>2. p[i] = a[i]
        BY <1>4, <1>5, <2>2, <3>1
      <3>3. q[i] = a[i]
        BY <1>6, <1>7, <3>1
      <3>4. QED BY <3>1, <3>2, <3>3
    <2>3. CASE i = m + n + 1
      <3>1. h[i] = m + 1
        BY <1>2, <1>9, <2>1, <2>3
      <3>2. m + 1 \in 1 .. m + 1 + n /\ m + 1 <= m + 1
        BY <1>2
      <3>3. q[m + 1] = row
        BY <1>6, <1>7, <3>2
      <3>4. QED BY <1>5, <2>3, <3>1, <3>3
    <2>4. CASE m < i /\ i <= m + n
      <3>1. /\ h[i] = i + 1 /\ i \in 1 .. m + n /\ ~(i <= m)
            /\ i + 1 \in 1 .. m + 1 + n /\ ~(i + 1 <= m + 1) /\ (i + 1) - (m + 1) = i - m
        BY <1>2, <1>9, <2>1, <2>4
      <3>2. p[i] = rest[i - m]
        BY <1>4, <1>5, <3>1
      <3>3. q[i + 1] = rest[i - m]
        BY <1>7, <3>1
      <3>4. QED BY <3>1, <3>2, <3>3
    <2>5. QED BY <1>2, <2>1, <2>2, <2>3, <2>4
  <1>14. Matched(p, q, h)
    BY <1>10, <1>11, <1>12, <1>13, MatchedFrom
  <1>15. IsFiniteSet(DOMAIN p)
    BY <1>2, <1>8, FS_Interval
  <1>16. QED BY <1>3, <1>14, <1>15, MatchedRows

-----------------------------------------------------------------------------
(* What a step does to the rows.                                           *)

Inserts == last'.request.kind = "INSERT" /\ last'.lsm.kind = "ok"

RowsStored ==
    /\ Inserts => InsertsItsRow
    /\ \A t \in DOMAIN trees :
         IF Inserts /\ t = last'.request.table
         THEN SameRows(Append(RowsOf(trees[t]), Last(trees'[t].mem)), RowsOf(trees'[t]))
         ELSE SameRows(RowsOf(trees[t]), RowsOf(trees'[t]))

LEMMA OtherSteps ==
    ASSUME ~Inserts, \A t \in DOMAIN trees : RowsOf(trees'[t]) = RowsOf(trees[t])
    PROVE  RowsStored
  <1>1. ASSUME NEW t \in DOMAIN trees
        PROVE  SameRows(RowsOf(trees[t]), RowsOf(trees'[t]))
    BY SameItself DEF SameRows
  <1>2. QED BY <1>1 DEF RowsStored

LEMMA InsertStored ==
    ASSUME StmtInv, NEW s \in Requests, Insert(s)
    PROVE  RowsStored
  <1>1. PICK t, tree, mock, schema, row :
          /\ t = s.table /\ tree = trees[t] /\ mock = mocks[t]
          /\ schema = tree.schema /\ row = RowOf(schema, s)
    OBVIOUS
  <1>2. TablesHold
    BY DEF StmtInv
  <1>3. row = InsertedRow(s)
    BY <1>1 DEF InsertedRow
  <1>4. /\ t \in DOMAIN trees
        /\ trees' = [x \in DOMAIN trees \cup {t} |->
                       IF x = t THEN WithRow(tree, row) ELSE trees[x]]
        /\ mocks' = [x \in DOMAIN trees \cup {t} |->
                       IF x = t THEN MapWithRow(mock, row) ELSE mocks[x]]
    <2>1. /\ s.table \in DOMAIN trees
          /\ trees' = [x \in DOMAIN trees \cup {s.table} |->
                IF x = s.table THEN WithRow(trees[s.table], row) ELSE trees[x]]
          /\ mocks' = [x \in DOMAIN trees \cup {s.table} |->
                IF x = s.table THEN MapWithRow(mocks[s.table], row) ELSE mocks[x]]
      <3>1. /\ s.table \in DOMAIN trees
            /\ trees' = [x \in DOMAIN trees \cup {s.table} |->
                  IF x = s.table THEN WithRow(trees[s.table], InsertedRow(s)) ELSE trees[x]]
            /\ mocks' = [x \in DOMAIN trees \cup {s.table} |->
                  IF x = s.table THEN MapWithRow(mocks[s.table], InsertedRow(s)) ELSE mocks[x]]
        BY <1>2, InsertTables
      <3>2. QED BY <1>3, <3>1
    <2>2. QED BY <1>1, <2>1
  <1>5. IsTree(tree) /\ IsSchema(schema)
    BY <1>1, <1>2, <1>4, TreeIs DEF TablesHold
  <1>6. s.kind = "INSERT" /\ IsInsert(s) /\ InsertBinds(schema, s)
    BY <1>1, RequestIs DEF Insert, BindsIn
  <1>7. RowFits(schema, row)
    BY <1>1, <1>5, <1>6, RowOfFits
  <1>8. last'.request = s /\ last'.lsm.kind = "ok"
    <2>1. last' = [request |-> s, lsm |-> Done, mock |-> Done]
      BY DEF Insert, Returned
    <2>2. Done.kind = "ok"
      BY DEF Done, Outcome
    <2>3. QED BY <2>1, <2>2
  <1>9. PICK S, a, b, c : /\ S = Fitting(schema)
                          /\ a = tree.mem /\ b = tree.row /\ c = tree.column
    OBVIOUS
  <1>10. a \in Seq(S) /\ b \in Seq(S) /\ c \in Seq(S) /\ row \in S
    BY <1>1, <1>5, <1>7, <1>9, TreeIs, FittingIs
  <1>11. PICK more : more = Append(a, row)
    OBVIOUS
  <1>12. more \in Seq(S) /\ Last(more) = row
    BY <1>10, <1>11, AppendProperties DEF Last
  <1>13. /\ trees'[t] = [schema |-> schema, mem |-> more, row |-> b, column |-> c]
         /\ mocks'[t] = MapWithRow(mock, row)
    BY <1>1, <1>4, <1>9, <1>11 DEF WithRow
  <1>14. Last(trees'[t].mem) = row
    BY <1>12, <1>13
  <1>15. InsertsItsRow
    <2>1. Len(s.columns) = Len(s.values)
      BY <1>6 DEF InsertBinds
    <2>2. RowSays(schema, s, row)
      BY <1>1, <1>6, RowOfPlace DEF RowSays
    <2>3. ASSUME NEW i \in DOMAIN schema PROVE Fits(schema[i], row[i])
      <3>1. IsCell(schema[i].type, row[i]) /\ (row[i] = Null => schema[i].nullable)
        BY <1>7 DEF RowFits
      <3>2. QED BY <3>1, FilledCell DEF Fits
    <2>4. row[1] # Null
      BY <1>5, <1>7, KeyIs
    <2>5. mocks'[t].data[KeyOf(row)] = row
      <3>1. mocks'[t].data = Put(mock.data, KeyOf(row), row)
        BY <1>13 DEF MapWithRow
      <3>2. QED BY <3>1 DEF Put
    <2>6. QED BY <1>1, <1>8, <1>14, <2>1, <2>2, <2>3, <2>4, <2>5 DEF InsertsItsRow
  <1>16. SameRows(Append(RowsOf(tree), row), RowsOf(trees'[t]))
    <2>1. RowsOf(tree) = (a \o b) \o c /\ RowsOf(trees'[t]) = (more \o b) \o c
      <3>1. RowsOf(tree) = (a \o b) \o c
        BY <1>9 DEF RowsOf
      <3>2. trees'[t].mem = more /\ trees'[t].row = b /\ trees'[t].column = c
        BY <1>13
      <3>3. QED BY <3>1, <3>2 DEF RowsOf
    <2>2. (a \o b) \o c = a \o (b \o c) /\ (more \o b) \o c = more \o (b \o c)
      <3>1. (a \o b) \o c = a \o (b \o c)
        BY <1>10, ConcatAssociative
      <3>2. (more \o b) \o c = more \o (b \o c)
        BY <1>10, <1>12, ConcatAssociative
      <3>3. QED BY <3>1, <3>2
    <2>3. b \o c \in Seq(S)
      BY <1>10, ConcatProperties
    <2>4. QED BY <1>10, <1>11, <2>1, <2>2, <2>3, RowAdded
  <1>17. ASSUME NEW x \in DOMAIN trees, x # t
         PROVE  SameRows(RowsOf(trees[x]), RowsOf(trees'[x]))
    <2>1. trees'[x] = trees[x]
      BY <1>4, <1>17
    <2>2. QED BY <2>1, SameItself DEF SameRows
  <1>18. QED BY <1>1, <1>6, <1>8, <1>14, <1>15, <1>16, <1>17 DEF RowsStored, Inserts

LEMMA StepStored ==
    ASSUME StmtInv, StmtNext
    PROVE  RowsStored
  <1>1. TablesHold
    BY DEF StmtInv
  <1>2. ASSUME NEW s, NEW lsm, NEW mock, Returned(s, lsm, mock),
               s.kind # "INSERT" \/ lsm.kind # "ok"
        PROVE  ~Inserts
    <2>1. last'.request = s /\ last'.lsm = lsm
      BY <1>2 DEF Returned
    <2>2. QED BY <1>2, <2>1 DEF Inserts
  <1>3. ASSUME NEW s \in Requests, Reject(s) PROVE RowsStored
    <2>1. Rejected.kind = "rejected"
      BY DEF Rejected, Outcome
    <2>2. ~Inserts /\ trees' = trees
      BY <1>2, <1>3, <2>1 DEF Reject
    <2>3. QED BY <2>2, OtherSteps
  <1>4. ASSUME NEW s \in Requests, CreateTable(s) PROVE RowsStored
    <2>1. ~Inserts
      BY <1>2, <1>4 DEF CreateTable
    <2>2. ASSUME NEW t \in DOMAIN trees PROVE trees'[t] = trees[t]
      <3>1. CASE s.table \in DOMAIN trees
        BY <1>4, <3>1 DEF CreateTable
      <3>2. CASE s.table \notin DOMAIN trees
        <4>1. PICK tree : trees' = Put(trees, s.table, tree)
          BY <1>4, <3>2 DEF CreateTable
        <4>2. t # s.table
          BY <3>2
        <4>3. QED BY <4>1, <4>2 DEF Put
      <3>3. QED BY <3>1, <3>2
    <2>3. QED BY <2>1, <2>2, OtherSteps
  <1>5. ASSUME NEW s \in Requests, Insert(s) PROVE RowsStored
    BY <1>5, InsertStored
  <1>6. ASSUME NEW s \in Requests, Select(s) PROVE RowsStored
    <2>1. ~Inserts /\ trees' = trees
      BY <1>2, <1>6 DEF Select
    <2>2. QED BY <2>1, OtherSteps
  <1>7. ASSUME last' = NothingRun PROVE ~Inserts
    BY <1>7 DEF Inserts, NothingRun, NoRequest
  <1>8. CASE TakeResult
    <2>1. ~Inserts /\ trees' = trees
      BY <1>7, <1>8 DEF TakeResult
    <2>2. QED BY <2>1, OtherSteps
  <1>9. ASSUME NEW t \in DOMAIN trees, Flush(t) \/ Compact(t) PROVE RowsStored
    <2>1. ~Inserts
      BY <1>7, <1>9 DEF Flush, Compact
    <2>2. PICK moved : /\ moved = Flushed(trees[t]) \/ moved = Compacted(trees[t])
                       /\ trees' = [x \in DOMAIN trees \cup {t} |->
                                      IF x = t THEN moved ELSE trees[x]]
      BY <1>1, <1>9, FlushTables, CompactTables
    <2>3. RowsOf(moved) = RowsOf(trees[t])
      BY <1>1, <2>2, MovedTree DEF TablesHold
    <2>4. \A x \in DOMAIN trees : RowsOf(trees'[x]) = RowsOf(trees[x])
      BY <2>2, <2>3
    <2>5. QED BY <2>1, <2>4, OtherSteps
  <1>10. QED BY <1>3, <1>4, <1>5, <1>6, <1>8, <1>9 DEF StmtNext

(* An INSERT stores the row it describes in both engines, if the schema    *)
(* allows it; no other statement, and no move to the disk, changes the     *)
(* rows of a table.                                                        *)
THEOREM InsertsAreStored == StmtSpec => InsertStores
  <1>1. StmtInv /\ [StmtNext]_stmtVars => [RowsStored]_stmtVars
    BY StepStored
  <1>2. StmtSpec => [][RowsStored]_stmtVars
    BY <1>1, StatementsInvariant, PTL DEF StmtSpec
  <1>3. RowsStored =>
          LET s == last'.request
              inserts == s.kind = "INSERT" /\ last'.lsm.kind = "ok"
          IN  /\ inserts => InsertsItsRow
              /\ \A t \in DOMAIN trees :
                   IF inserts /\ t = s.table
                   THEN SameRows(Append(RowsOf(trees[t]), Last(trees'[t].mem)),
                                 RowsOf(trees'[t]))
                   ELSE SameRows(RowsOf(trees[t]), RowsOf(trees'[t]))
    BY DEF RowsStored, Inserts
  <1>4. QED BY <1>1, <1>3, StatementsInvariant, PTL DEF StmtSpec, InsertStores

-----------------------------------------------------------------------------
(* SELECT.                                                                 *)

LEMMA SelectIs ==
    ASSUME StmtInv, SelectRan
    PROVE  LET s == last.request
           IN  /\ s \in Requests /\ s.kind = "SELECT" /\ IsSelect(s)
               /\ s.table \in DOMAIN trees
               /\ IsTree(trees[s.table]) /\ IsSchema(trees[s.table].schema)
               /\ IsMockOf(trees[s.table], mocks[s.table])
               /\ SelectBinds(trees[s.table].schema, s)
               /\ last.lsm = SelectFromTree(trees[s.table], s)
               /\ last.mock = SelectFromMock(mocks[s.table], s)
  <1>1. PICK s : s = last.request
    OBVIOUS
  <1>2. s.kind = "SELECT"
    BY <1>1 DEF SelectRan
  <1>3. /\ s \in Requests /\ BindsIn(trees, s)
        /\ last.lsm = SelectFromTree(trees[s.table], s)
        /\ last.mock = SelectFromMock(mocks[s.table], s)
    BY <1>1 DEF StmtInv, LastHolds
  <1>4. IsSelect(s)
    BY <1>2, <1>3, RequestIs
  <1>5. s.table \in DOMAIN trees /\ SelectBinds(trees[s.table].schema, s)
    BY <1>2, <1>3 DEF BindsIn
  <1>6. IsTree(trees[s.table]) /\ IsMockOf(trees[s.table], mocks[s.table])
    BY <1>5 DEF StmtInv, TablesHold
  <1>7. IsSchema(trees[s.table].schema)
    BY <1>6, TreeIs
  <1>8. QED BY <1>1, <1>2, <1>3, <1>4, <1>5, <1>6, <1>7

(* An item of a grouped SELECT that is no aggregate is one of the          *)
(* expressions of the key of the group.                                    *)
LEMMA ItemInKey ==
    ASSUME NEW schema, NEW s, SelectBinds(schema, s), s.group_by # <<>>,
           NEW k \in DOMAIN ExpandItems(schema, s.items),
           ~IsAggregate(ExpandItems(schema, s.items)[k])
    PROVE  \E i \in DOMAIN s.group_by :
             /\ s.group_by[i] = ExpandItems(schema, s.items)[k]
             /\ \A row : GroupKey(schema, s, row)[i] =
                           Evaluate(schema, row)[ExpandItems(schema, s.items)[k]]
  <1>1. PICK items : items = ExpandItems(schema, s.items)
    OBVIOUS
  <1>2. ValidGrouping(items, s.group_by)
    BY <1>1 DEF SelectBinds
  <1>3. items[k] \in Range(s.group_by)
    BY <1>1, <1>2 DEF ValidGrouping
  <1>4. PICK i \in DOMAIN s.group_by : s.group_by[i] = items[k]
    BY <1>3 DEF Range
  <1>5. \A row : GroupKey(schema, s, row)[i] = Evaluate(schema, row)[items[k]]
    BY <1>4 DEF GroupKey, CellsOf
  <1>6. QED BY <1>1, <1>4, <1>5

(* An item of a grouped SELECT that is no aggregate has one value in all   *)
(* rows of a group.                                                        *)
THEOREM GroupsConstant == StmtSpec => []GroupedItemsConstant
  <1>1. StmtInv => GroupedItemsConstant
    <2> SUFFICES ASSUME StmtInv, SelectRan, last.request.group_by # <<>>
                 PROVE  GroupedItemsConstant
      BY DEF GroupedItemsConstant
    <2> DEFINE s == last.request
               schema == trees[s.table].schema
               rows == RowsOf(trees[s.table])
               items == ExpandItems(schema, s.items)
    <2>1. SelectBinds(schema, s) /\ s.group_by # <<>>
      BY SelectIs
    <2> HIDE DEF s, schema, rows, items
    <2>2. ASSUME NEW i \in DOMAIN rows, NEW j \in DOMAIN rows,
                 GroupKey(schema, s, rows[i]) = GroupKey(schema, s, rows[j]),
                 NEW k \in DOMAIN items, ~IsAggregate(items[k])
          PROVE  Evaluate(schema, rows[i])[items[k]] = Evaluate(schema, rows[j])[items[k]]
      <3>1. PICK g \in DOMAIN s.group_by :
              \A row : GroupKey(schema, s, row)[g] = Evaluate(schema, row)[items[k]]
        BY <2>1, <2>2, ItemInKey DEF items
      <3>2. QED BY <2>2, <3>1
    <2>3. \A i, j \in DOMAIN rows :
            GroupKey(schema, s, rows[i]) = GroupKey(schema, s, rows[j]) =>
              \A k \in DOMAIN items :
                IsAggregate(items[k])
                  \/ Evaluate(schema, rows[i])[items[k]] = Evaluate(schema, rows[j])[items[k]]
      BY <2>2
    <2>4. QED BY <2>3, Zenon DEF GroupedItemsConstant, s, schema, rows, items
  <1>2. QED BY <1>1, StatementsInvariant, PTL

-----------------------------------------------------------------------------
(* The plan of a SELECT.                                                   *)

(* The recursive function exists: a shortest clause without one would have *)
(* a last turn.                                                            *)
LEMMA PlansAre ==
    ASSUME NEW where, Len(where) \in Nat
    PROVE  Plan!Plans(where) =
             [i \in 0 .. Len(where) |->
                IF i = 0 THEN Plan!NoBounds
                ELSE Plan!UseConjunct(Plan!Plans(where)[i - 1], where[i])]
  <1> DEFINE Turns(n, g) ==
               g = [i \in 0 .. n |-> IF i = 0 THEN Plan!NoBounds
                                     ELSE Plan!UseConjunct(g[i - 1], where[i])]
  <1>1. PICK Bad : Bad = {n \in Nat : ~ \E g : Turns(n, g)}
    OBVIOUS
  <1>2. Bad = {}
    <2>1. SUFFICES ASSUME Bad # {} PROVE FALSE
      OBVIOUS
    <2>2. PICK n \in Bad : \A m \in Bad : n <= m
      BY <1>1, <2>1, LeastNatural
    <2>3. n \in Nat
      BY <1>1
    <2>4. n # 0
      <3>1. PICK g : g = [i \in 0 .. 0 |-> Plan!NoBounds]
        OBVIOUS
      <3>2. Turns(0, g)
        BY <3>1
      <3>3. QED BY <1>1, <3>2
    <2>5. n - 1 \in Nat /\ n - 1 \notin Bad
      <3>1. n - 1 \in Nat /\ ~(n <= n - 1)
        BY <2>3, <2>4
      <3>2. QED BY <2>2, <3>1
    <2>6. PICK g : Turns(n - 1, g)
      BY <1>1, <2>5
    <2>7. PICK h : h = [i \in 0 .. n |->
                          IF i = n THEN Plan!UseConjunct(g[n - 1], where[n]) ELSE g[i]]
      OBVIOUS
    <2>8. \A i \in 0 .. n - 1 : h[i] = g[i]
      BY <2>3, <2>7
    <2>9. ASSUME NEW i \in 0 .. n
          PROVE  h[i] = IF i = 0 THEN Plan!NoBounds
                        ELSE Plan!UseConjunct(h[i - 1], where[i])
      <3>1. CASE i = n
        <4>1. h[n - 1] = g[n - 1]
          BY <2>3, <2>4, <2>8
        <4>2. h[n] = Plan!UseConjunct(g[n - 1], where[n])
          BY <2>3, <2>7
        <4>3. QED BY <2>4, <3>1, <4>1, <4>2
      <3>2. CASE i # n
        <4>1. i \in 0 .. n - 1 /\ (i # 0 => i - 1 \in 0 .. n - 1)
          BY <2>3, <3>2
        <4>2. g[i] = IF i = 0 THEN Plan!NoBounds ELSE Plan!UseConjunct(g[i - 1], where[i])
          BY <2>6, <4>1
        <4>3. QED BY <2>8, <4>1, <4>2
      <3>3. QED BY <3>1, <3>2
    <2>10. h = [i \in 0 .. n |-> h[i]]
      BY <2>7
    <2>11. Turns(n, h)
      BY <2>9, <2>10
    <2>12. QED BY <1>1, <2>11
  <1>3. \E g : Turns(Len(where), g)
    BY <1>1, <1>2
  <1>4. Plan!Plans(where) = CHOOSE g : Turns(Len(where), g)
    BY DEF Plan!Plans
  <1>5. Turns(Len(where), Plan!Plans(where))
    BY <1>3, <1>4
  <1>6. QED BY <1>5

(* A point is an INT64, and only a key compared with something else fails. *)
PlanFits(plan, other) ==
    /\ plan = [point |-> plan.point, from |-> plan.from, to |-> plan.to,
               empty |-> plan.empty, failed |-> plan.failed]
    /\ plan.point = {} \/ \E k \in IntMin .. IntMax : plan.point = {k}
    /\ plan.failed => other

ConjunctFits(c, other) ==
    c.kind = "comparison" /\ c.column = "key" =>
      \/ c.literal.value = {}
      \/ c.literal.type # "INT64" /\ other
      \/ /\ c.literal.type = "INT64"
         /\ \E k \in IntMin .. IntMax : c.literal.value = {k}

LEMMA PlanOfParts ==
    ASSUME NEW point, NEW from, NEW to, NEW empty, NEW failed, NEW other,
           point = {} \/ \E k \in IntMin .. IntMax : point = {k}, failed => other
    PROVE  PlanFits([point |-> point, from |-> from, to |-> to,
                     empty |-> empty, failed |-> failed], other)
  BY DEF PlanFits

LEMMA NarrowFits ==
    ASSUME NEW other, NEW plan, PlanFits(plan, other), NEW op, NEW k \in IntMin .. IntMax
    PROVE  PlanFits(Plan!Narrow(plan, op, k), other)
  <1>1. PICK point, from, to, empty, failed :
          /\ plan = [point |-> point, from |-> from, to |-> to,
                     empty |-> empty, failed |-> failed]
          /\ point = plan.point /\ failed = plan.failed
    BY DEF PlanFits
  <1>2. (point = {} \/ \E n \in IntMin .. IntMax : point = {n}) /\ (failed => other)
    BY <1>1 DEF PlanFits
  <1>3. PlanFits([plan EXCEPT !.point = {k}], other)
    <2>1. [plan EXCEPT !.point = {k}] = [point |-> {k}, from |-> from, to |-> to,
                                         empty |-> empty, failed |-> failed]
      BY <1>1
    <2>2. QED BY <1>2, <2>1, PlanOfParts
  <1>4. PlanFits([plan EXCEPT !.empty = TRUE], other)
    <2>1. PICK yes : yes = TRUE
      OBVIOUS
    <2>2. [plan EXCEPT !.empty = yes] = [point |-> point, from |-> from, to |-> to,
                                         empty |-> yes, failed |-> failed]
      BY <1>1
    <2>3. QED BY <1>2, <2>1, <2>2, PlanOfParts
  <1>5. ASSUME NEW n PROVE PlanFits(Plan!AtLeast(plan, n), other)
    <2>1. PICK bound : Plan!AtLeast(plan, n) = [plan EXCEPT !.from = bound]
      BY DEF Plan!AtLeast
    <2>2. [plan EXCEPT !.from = bound] = [point |-> point, from |-> bound, to |-> to,
                                          empty |-> empty, failed |-> failed]
      BY <1>1
    <2>3. QED BY <1>2, <2>1, <2>2, PlanOfParts
  <1>6. ASSUME NEW n PROVE PlanFits(Plan!Below(plan, n), other)
    <2>1. PICK bound : Plan!Below(plan, n) = [plan EXCEPT !.to = bound]
      BY DEF Plan!Below
    <2>2. [plan EXCEPT !.to = bound] = [point |-> point, from |-> from, to |-> bound,
                                        empty |-> empty, failed |-> failed]
      BY <1>1
    <2>3. QED BY <1>2, <2>1, <2>2, PlanOfParts
  <1>7. CASE op = "="
    BY <1>3, <1>4, <1>7 DEF Plan!Narrow
  <1>8. CASE op = ">"
    BY <1>4, <1>5, <1>8 DEF Plan!Narrow
  <1>9. CASE op = ">="
    BY <1>5, <1>9 DEF Plan!Narrow
  <1>10. CASE op = "<"
    BY <1>6, <1>10 DEF Plan!Narrow
  <1>11. CASE op = "<="
    BY <1>6, <1>11 DEF Plan!Narrow
  <1>12. CASE op \notin {"=", ">", ">=", "<", "<="}
    BY <1>12 DEF Plan!Narrow
  <1>13. QED BY <1>7, <1>8, <1>9, <1>10, <1>11, <1>12

LEMMA EmptyFits ==
    ASSUME NEW other, NEW plan, PlanFits(plan, other)
    PROVE  PlanFits([plan EXCEPT !.empty = TRUE], other)
  <1>1. PICK point, from, to, empty, failed :
          /\ plan = [point |-> point, from |-> from, to |-> to,
                     empty |-> empty, failed |-> failed]
          /\ point = plan.point /\ failed = plan.failed
    BY DEF PlanFits
  <1>2. PICK yes : yes = TRUE
    OBVIOUS
  <1>3. [plan EXCEPT !.empty = yes] = [point |-> point, from |-> from, to |-> to,
                                       empty |-> yes, failed |-> failed]
    BY <1>1
  <1>4. (point = {} \/ \E n \in IntMin .. IntMax : point = {n}) /\ (failed => other)
    BY <1>1 DEF PlanFits
  <1>5. QED BY <1>2, <1>3, <1>4, PlanOfParts

LEMMA UseConjunctFits ==
    ASSUME NEW other, NEW plan, PlanFits(plan, other), NEW c, ConjunctFits(c, other)
    PROVE  PlanFits(Plan!UseConjunct(plan, c), other)
  <1>1. CASE plan.empty \/ plan.failed \/ c.kind # "comparison" \/ c.column # "key"
    BY <1>1 DEF Plan!UseConjunct
  <1>2. CASE /\ ~(plan.empty \/ plan.failed)
             /\ c.kind = "comparison" /\ c.column = "key"
    <2>1. CASE c.literal.value = {}
      <3>1. Plan!UseConjunct(plan, c) = [plan EXCEPT !.empty = TRUE]
        BY <1>2, <2>1 DEF Plan!UseConjunct
      <3>2. QED BY <3>1, EmptyFits
    <2>2. CASE c.literal.value # {} /\ c.literal.type # "INT64"
      <3>1. other
        BY <1>2, <2>2 DEF ConjunctFits
      <3>2. Plan!UseConjunct(plan, c) = [plan EXCEPT !.failed = TRUE]
        BY <1>2, <2>2 DEF Plan!UseConjunct
      <3>3. PICK point, from, to, empty, failed :
              /\ plan = [point |-> point, from |-> from, to |-> to,
                         empty |-> empty, failed |-> failed]
              /\ point = plan.point
        BY DEF PlanFits
      <3>4. PICK yes : yes = TRUE
        OBVIOUS
      <3>5. [plan EXCEPT !.failed = yes] = [point |-> point, from |-> from, to |-> to,
                                            empty |-> empty, failed |-> yes]
        BY <3>3
      <3>6. point = {} \/ \E n \in IntMin .. IntMax : point = {n}
        BY <3>3 DEF PlanFits
      <3>7. yes => other
        BY <3>1
      <3>8. PlanFits([point |-> point, from |-> from, to |-> to,
                      empty |-> empty, failed |-> yes], other)
        BY <3>6, <3>7, PlanOfParts
      <3>9. QED BY <3>2, <3>4, <3>5, <3>8
    <2>3. CASE c.literal.value # {} /\ c.literal.type = "INT64"
      <3>1. PICK k \in IntMin .. IntMax : c.literal.value = {k}
        BY <1>2, <2>3 DEF ConjunctFits
      <3>2. (CHOOSE v \in c.literal.value : TRUE) = k
        BY <3>1
      <3>3. PICK op : Plan!UseConjunct(plan, c) = Plan!Narrow(plan, op, k)
        BY <1>2, <2>3, <3>2 DEF Plan!UseConjunct
      <3>4. QED BY <3>3, NarrowFits
    <2>4. QED BY <2>1, <2>2, <2>3
  <1>3. QED BY <1>1, <1>2

LEMMA BuiltPlanFits ==
    ASSUME NEW other, NEW where, Len(where) \in Nat,
           \A i \in 1 .. Len(where) : ConjunctFits(where[i], other)
    PROVE  PlanFits(Plan!BuildPlan(where), other)
  <1>1. PICK plans : plans = Plan!Plans(where)
    OBVIOUS
  <1>2. plans = [i \in 0 .. Len(where) |->
                   IF i = 0 THEN Plan!NoBounds
                   ELSE Plan!UseConjunct(plans[i - 1], where[i])]
    BY <1>1, PlansAre
  <1>3. PICK Bad : Bad = {i \in 0 .. Len(where) : ~PlanFits(plans[i], other)}
    OBVIOUS
  <1>4. Bad = {}
    <2>1. SUFFICES ASSUME Bad # {} PROVE FALSE
      OBVIOUS
    <2>2. PICK n \in Bad : \A m \in Bad : n <= m
      <3>1. Bad \subseteq Nat
        BY <1>3
      <3>2. QED BY <2>1, <3>1, LeastNatural
    <2>3. n \in 0 .. Len(where) /\ ~PlanFits(plans[n], other)
      BY <1>3
    <2>4. n # 0
      <3>1. plans[0] = Plan!NoBounds
        BY <1>2
      <3>2. PlanFits(Plan!NoBounds, other)
        BY DEF Plan!NoBounds, PlanFits
      <3>3. QED BY <2>3, <3>1, <3>2
    <2>5. n - 1 \in 0 .. Len(where) /\ n \in 1 .. Len(where) /\ ~(n <= n - 1)
      BY <2>3, <2>4
    <2>6. PlanFits(plans[n - 1], other)
      BY <1>3, <2>2, <2>5
    <2>7. plans[n] = Plan!UseConjunct(plans[n - 1], where[n])
      BY <1>2, <2>3, <2>4
    <2>8. QED BY <2>3, <2>5, <2>6, <2>7, UseConjunctFits
  <1>5. PICK plan : plan = plans[Len(where)]
    OBVIOUS
  <1>6. PlanFits(plan, other)
    BY <1>3, <1>4, <1>5
  <1>7. \/ Plan!BuildPlan(where) = plan
        \/ Plan!BuildPlan(where) = [plan EXCEPT !.empty = TRUE]
    BY <1>1, <1>5 DEF Plan!BuildPlan
  <1>8. QED BY <1>6, <1>7, EmptyFits

LEMMA ConjunctsType ==
    ASSUME NEW e \in Expressions
    PROVE  Conjuncts[e] \in Seq(Expressions)
  <1>1. PICK Bad : Bad = {x \in Expressions : Conjuncts[x] \notin Seq(Expressions)}
    OBVIOUS
  <1>2. SUFFICES ASSUME Bad # {} PROVE FALSE
    BY <1>1
  <1>3. PICK x \in Bad : Operands(x) \subseteq Expressions \ Bad
    BY <1>1, <1>2, LowestExpression
  <1>4. x \in Expressions /\ Conjuncts[x] \notin Seq(Expressions)
    BY <1>1
  <1>5. CASE x.kind = "AND"
    <2>1. x.left \in Operands(x) /\ x.right \in Operands(x)
      BY <1>4, <1>5, OperandsAre
    <2>2. Conjuncts[x.left] \in Seq(Expressions) /\ Conjuncts[x.right] \in Seq(Expressions)
      BY <1>1, <1>3, <2>1
    <2>3. Conjuncts[x.left] \o Conjuncts[x.right] \in Seq(Expressions)
      BY <2>2, ConcatProperties
    <2>4. QED BY <1>4, <1>5, <2>3, ConjunctsAre
  <1>6. CASE x.kind # "AND"
    <2>1. <<x>> \in Seq(Expressions)
      BY <1>4
    <2>2. QED BY <1>4, <1>6, <2>1, ConjunctsAre
  <1>7. QED BY <1>5, <1>6

PlanLiteral(lit) == [type |-> LiteralType(lit), value |-> Numbers(LiteralCell(lit))]

LEMMA PlanLiteralIs ==
    ASSUME NEW lit \in Expressions, lit.kind \in Literals
    PROVE  \/ PlanLiteral(lit).value = {}
           \/ PlanLiteral(lit).type \notin {"INT64", "NULL"}
           \/ /\ PlanLiteral(lit).type = "INT64"
              /\ \E k \in IntMin .. IntMax : PlanLiteral(lit).value = {k}
  <1>1. PICK type, value : type = LiteralType(lit) /\ value = Numbers(LiteralCell(lit))
    OBVIOUS
  <1>2. PlanLiteral(lit).type = type /\ PlanLiteral(lit).value = value
    BY <1>1 DEF PlanLiteral
  <1>3. IsExpression(lit)
    BY ExpressionIs
  <1>4. CASE lit.kind = "NULL"
    <2>1. LiteralCell(lit) = Null
      BY <1>3, <1>4, LiteralIs
    <2>2. value = {}
      BY <1>1, <2>1 DEF Numbers, Null
    <2>3. QED BY <1>2, <2>2
  <1>5. CASE lit.kind # "NULL"
    <2>1. PICK n \in Int : /\ n = lit.value /\ LiteralCell(lit) = Cell(type, n)
                           /\ type \in ColumnTypes /\ (type = "INT64" => lit.kind = "int")
      BY <1>1, <1>3, <1>5, LiteralIs
    <2>2. value = {n}
      <3>1. PICK v : v = [type |-> type, value |-> n]
        OBVIOUS
      <3>2. Cell(type, n) = {v} /\ v.value = n
        BY <3>1 DEF Cell
      <3>3. QED BY <1>1, <2>1, <3>2 DEF Numbers
    <2>3. type = "INT64" => n \in IntMin .. IntMax
      BY <1>3, <2>1 DEF IsExpression, Comparisons
    <2>4. QED BY <1>2, <2>1, <2>2, <2>3 DEF ColumnTypes
  <1>6. QED BY <1>4, <1>5

LEMMA PlanConjunctIs ==
    ASSUME NEW schema, NEW c \in Expressions
    PROVE  \/ PlanConjunct(schema, c).kind = "other"
           \/ \E lit \in Expressions :
                lit.kind \in Literals /\ PlanConjunct(schema, c).literal = PlanLiteral(lit)
  <1>1. CASE c.kind \notin Comparisons
    BY <1>1 DEF PlanConjunct
  <1>2. CASE c.kind \in Comparisons
    <2>1. c.left \in Expressions /\ c.right \in Expressions
      BY <1>2, OperandsAre, ExpressionIs
    <2>2. CASE c.left.kind = "column" /\ c.right.kind \in Literals
      <3>1. PlanConjunct(schema, c).literal = PlanLiteral(c.right)
        BY <1>2, <2>2 DEF PlanConjunct, PlanLiteral
      <3>2. QED BY <2>1, <2>2, <3>1
    <2>3. CASE /\ ~(c.left.kind = "column" /\ c.right.kind \in Literals)
               /\ c.left.kind \in Literals /\ c.right.kind = "column"
      <3>1. PlanConjunct(schema, c).literal = PlanLiteral(c.left)
        BY <1>2, <2>3 DEF PlanConjunct, PlanLiteral
      <3>2. QED BY <2>1, <2>3, <3>1
    <2>4. CASE /\ ~(c.left.kind = "column" /\ c.right.kind \in Literals)
               /\ ~(c.left.kind \in Literals /\ c.right.kind = "column")
      BY <1>2, <2>4 DEF PlanConjunct
    <2>5. QED BY <2>2, <2>3, <2>4
  <1>3. QED BY <1>1, <1>2

LEMMA PlanOfFits ==
    ASSUME NEW schema, NEW s, IsSelect(s)
    PROVE  PlanFits(PlanOf(schema, s), KeyAgainstOther(schema, s))
  <1>1. PICK all, where, other :
          /\ all = IF s.where = <<>> THEN <<>> ELSE Conjuncts[s.where[1]]
          /\ where = PlanConjuncts(schema, s)
          /\ other = KeyAgainstOther(schema, s)
    OBVIOUS
  <1>2. all \in Seq(Expressions)
    <2>1. CASE s.where = <<>>
      BY <1>1, <2>1
    <2>2. CASE s.where # <<>>
      <3>1. IsSequence(s.where) /\ Range(s.where) \subseteq Expressions
        BY DEF IsSelect
      <3>2. 1 \in DOMAIN s.where
        BY <2>2, <3>1 DEF IsSequence, IsSelect
      <3>3. s.where[1] \in Expressions
        BY <3>1, <3>2 DEF Range
      <3>4. QED BY <1>1, <2>2, <3>3, ConjunctsType
    <2>3. QED BY <2>1, <2>2
  <1>3. where = [i \in DOMAIN all |-> PlanConjunct(schema, all[i])]
    BY <1>1 DEF PlanConjuncts
  <1>4. Len(where) \in Nat /\ DOMAIN where = 1 .. Len(where) /\ DOMAIN all = 1 .. Len(where)
    <2>1. Len(all) \in Nat /\ DOMAIN all = 1 .. Len(all)
      BY <1>2, LenProperties
    <2>2. DOMAIN where = 1 .. Len(all)
      BY <1>3, <2>1
    <2>3. Len(where) = Len(all)
      BY <1>3, <2>1, <2>2
    <2>4. QED BY <2>1, <2>2, <2>3
  <1>5. ASSUME NEW i \in 1 .. Len(where) PROVE ConjunctFits(where[i], other)
    <2>1. PICK c : c = where[i]
      OBVIOUS
    <2>2. all[i] \in Expressions /\ c = PlanConjunct(schema, all[i])
      BY <1>2, <1>3, <1>4, <2>1
    <2>3. c.kind # "other" =>
            \E lit \in Expressions : lit.kind \in Literals /\ c.literal = PlanLiteral(lit)
      BY <2>2, PlanConjunctIs
    <2>4. SUFFICES ASSUME c.kind = "comparison", c.column = "key"
                   PROVE  \/ c.literal.value = {}
                          \/ c.literal.type # "INT64" /\ other
                          \/ /\ c.literal.type = "INT64"
                             /\ \E k \in IntMin .. IntMax : c.literal.value = {k}
      BY <2>1 DEF ConjunctFits
    <2>5. \/ c.literal.value = {}
          \/ c.literal.type \notin {"INT64", "NULL"}
          \/ /\ c.literal.type = "INT64"
             /\ \E k \in IntMin .. IntMax : c.literal.value = {k}
      BY <2>3, <2>4, PlanLiteralIs
    <2>6. c.literal.type \notin {"INT64", "NULL"} => other
      <3>1. c \in Range(PlanConjuncts(schema, s))
        BY <1>1, <1>4, <2>1 DEF Range
      <3>2. QED BY <1>1, <2>4, <3>1 DEF KeyAgainstOther
    <2>7. QED BY <2>5, <2>6
  <1>6. PlanFits(Plan!BuildPlan(where), other)
    BY <1>4, <1>5, BuiltPlanFits
  <1>7. QED BY <1>1, <1>6 DEF PlanOf

-----------------------------------------------------------------------------
(* The values of expressions.                                              *)

LEMMA OperandPart ==
    ASSUME NEW e \in Expressions
    PROVE  /\ e \in Parts[e]
           /\ \A o \in Operands(e) : o \in Expressions /\ Parts[o] \subseteq Parts[e]
  <1>1. Parts[e] = {e} \cup UNION {Parts[o] : o \in Operands(e)}
    BY PartsAre
  <1>2. QED BY <1>1, ExpressionIs

LEMMA OperandInherits ==
    ASSUME NEW schema, NEW e \in Expressions, NEW o \in Operands(e)
    PROVE  /\ ColumnsOf(schema, o) \subseteq ColumnsOf(schema, e)
           /\ Binds(schema, e) => Binds(schema, o)
           /\ WellTyped(schema, e) => WellTyped(schema, o)
  <1>1. Parts[o] \subseteq Parts[e]
    BY OperandPart
  <1>2. ColumnParts(o) \subseteq ColumnParts(e)
    BY <1>1 DEF ColumnParts
  <1>3. ColumnsOf(schema, o) \subseteq ColumnsOf(schema, e)
    BY <1>2 DEF ColumnsOf
  <1>4. Binds(schema, e) => Binds(schema, o)
    BY <1>2 DEF Binds
  <1>5. WellTyped(schema, e) => WellTyped(schema, o)
    BY <1>1 DEF WellTyped
  <1>6. QED BY <1>3, <1>4, <1>5

LEMMA BoundColumn ==
    ASSUME NEW schema, IsSchema(schema), NEW e \in Expressions, e.kind = "column",
           Binds(schema, e)
    PROVE  /\ IndexOf(schema, e.name) \in DOMAIN schema
           /\ ColumnsOf(schema, e) = {IndexOf(schema, e.name)}
  <1>1. Operands(e) = {}
    BY OperandsAre
  <1>2. Parts[e] = {e}
    BY <1>1, PartsAre
  <1>3. ColumnParts(e) = {e}
    BY <1>2 DEF ColumnParts
  <1>4. ColumnIndex(schema, e.name) # {}
    BY <1>3 DEF Binds
  <1>5. /\ IndexOf(schema, e.name) \in DOMAIN schema
        /\ ColumnIndex(schema, e.name) = {IndexOf(schema, e.name)}
    BY <1>4, IndexOfKnown
  <1>6. ColumnsOf(schema, e) = ColumnIndex(schema, e.name)
    BY <1>3 DEF ColumnsOf
  <1>7. QED BY <1>5, <1>6

LEMMA ColumnsInSchema ==
    ASSUME NEW schema, NEW e
    PROVE  ColumnsOf(schema, e) \subseteq DOMAIN schema
  BY DEF ColumnsOf, ColumnIndex

(* An expression looks at its columns only.                                *)
LEMMA EvaluateAgrees ==
    ASSUME NEW schema, IsSchema(schema), NEW row, NEW other,
           NEW e \in Expressions, Binds(schema, e),
           \A c \in ColumnsOf(schema, e) : row[c] = other[c]
    PROVE  Evaluate(schema, row)[e] = Evaluate(schema, other)[e]
  <1> DEFINE Agree(x) == \A c \in ColumnsOf(schema, x) : row[c] = other[c]
  <1>1. PICK f, g : f = Evaluate(schema, row) /\ g = Evaluate(schema, other)
    OBVIOUS
  <1>2. PICK Bad : Bad = {x \in Expressions : Binds(schema, x) /\ Agree(x) /\ f[x] # g[x]}
    OBVIOUS
  <1>3. SUFFICES ASSUME Bad # {} PROVE FALSE
    BY <1>1, <1>2
  <1>4. PICK x \in Bad : Operands(x) \subseteq Expressions \ Bad
    BY <1>2, <1>3, LowestExpression
  <1>5. x \in Expressions /\ Binds(schema, x) /\ Agree(x) /\ f[x] # g[x]
    BY <1>2
  <1>6. ASSUME NEW o \in Operands(x) PROVE f[o] = g[o]
    <2>1. Binds(schema, o) /\ Agree(o)
      BY <1>5, OperandInherits
    <2>2. QED BY <1>2, <1>4, <2>1
  <1>7. /\ f[x] = EvaluateWith(f, x, schema, row)
        /\ g[x] = EvaluateWith(g, x, schema, other)
    BY <1>1, <1>5, EvaluateIs
  <1>8. EvaluateWith(f, x, schema, other) = EvaluateWith(g, x, schema, other)
    BY <1>5, <1>6, EvaluateLocal
  <1>9. EvaluateWith(f, x, schema, row) = EvaluateWith(f, x, schema, other)
    <2>1. CASE x.kind = "column"
      <3>1. IndexOf(schema, x.name) \in ColumnsOf(schema, x)
        BY <1>5, <2>1, BoundColumn
      <3>2. row[IndexOf(schema, x.name)] = other[IndexOf(schema, x.name)]
        BY <1>5, <3>1
      <3>3. QED BY <2>1, <3>2 DEF EvaluateWith, Literals, Comparisons
    <2>2. CASE x.kind \in Literals
      BY <2>2 DEF EvaluateWith, Literals, Comparisons
    <2>3. CASE x.kind \in {"NOT", "IS NULL", "AND", "OR"}
      BY <2>3 DEF EvaluateWith, Literals, Comparisons
    <2>4. CASE x.kind \in Comparisons
      BY <2>4 DEF EvaluateWith, Literals, Comparisons
    <2>5. QED BY <1>5, <2>1, <2>2, <2>3, <2>4, KindsAre DEF Literals
  <1>10. QED BY <1>5, <1>7, <1>8, <1>9

(* A value of an expression of this type.                                  *)
Yields(type, cell) == IF type = "NULL" THEN cell = Null ELSE IsCell(type, cell)

LEMMA BoolIs ==
    ASSUME NEW b
    PROVE  Yields("BOOL", Bool(b)) /\ Bool(b) # Null
  <1>1. PICK n \in Int : Bool(b) = Cell("BOOL", n)
    <2>1. CASE b
      BY <2>1 DEF Bool
    <2>2. CASE ~b
      BY <2>2 DEF Bool
    <2>3. QED BY <2>1, <2>2
  <1>2. IsCell("BOOL", Cell("BOOL", n)) /\ Cell("BOOL", n) # Null
    BY CellOf, CellIs
  <1>3. QED BY <1>1, <1>2 DEF Yields

LEMMA NullYields ==
    ASSUME NEW type
    PROVE  Yields(type, Null)
  BY DEF Yields, IsCell

LEMMA YieldsFilled ==
    ASSUME NEW type, NEW cell, Yields(type, cell), cell # Null
    PROVE  type # "NULL" /\ ValueOf(cell).type = type
  BY FilledCell DEF Yields

LEMMA NotThrown ==
    ASSUME NEW type, NEW cell, Yields(type, cell), type # "throw"
    PROVE  cell # Thrown
  <1>1. CASE cell = Null
    BY <1>1, CellIs DEF Thrown
  <1>2. CASE cell # Null
    <2>1. PICK n : cell = Cell(type, n)
      BY <1>2, FilledCell DEF Yields
    <2>2. QED BY <2>1, CellIs DEF Thrown
  <1>3. QED BY <1>1, <1>2

AnyType == {"INT64", "DOUBLE", "STRING", "BOOL", "NULL"}

LEMMA TypeIs ==
    ASSUME NEW schema, IsSchema(schema), NEW e \in Expressions, Binds(schema, e)
    PROVE  /\ TypeOf(schema, e) \in AnyType
           /\ e.kind \notin {"column"} \cup Literals => TypeOf(schema, e) = "BOOL"
  <1>1. CASE e.kind = "column"
    <2>1. IndexOf(schema, e.name) \in DOMAIN schema
      BY <1>1, BoundColumn
    <2>2. TypeOf(schema, e) = schema[IndexOf(schema, e.name)].type
      BY <1>1 DEF TypeOf, Literals
    <2>3. schema[IndexOf(schema, e.name)].type \in ColumnTypes
      BY <2>1, SchemaIs
    <2>4. QED BY <1>1, <2>2, <2>3 DEF ColumnTypes, AnyType
  <1>2. CASE e.kind \in Literals
    <2>1. TypeOf(schema, e) = LiteralType(e)
      BY <1>2 DEF TypeOf, Literals
    <2>2. QED BY <1>2, <2>1 DEF LiteralType, Literals, AnyType
  <1>3. CASE e.kind \notin {"column"} \cup Literals
    BY <1>3 DEF TypeOf, AnyType
  <1>4. QED BY <1>1, <1>2, <1>3

LEMMA NegateYields ==
    ASSUME NEW cell, Yields("BOOL", cell) \/ Yields("NULL", cell)
    PROVE  Yields("BOOL", Negate(cell))
  <1>1. cell # Thrown
    BY NotThrown
  <1>2. CASE cell = Null
    BY <1>2, NullYields DEF Negate
  <1>3. CASE cell # Null
    <2>1. ValueOf(cell).type = "BOOL"
      BY <1>3, YieldsFilled
    <2>2. Negate(cell) = Bool(cell = Bool(FALSE))
      BY <1>1, <1>3, <2>1 DEF Negate, IsBool
    <2>3. QED BY <2>2, BoolIs
  <1>4. QED BY <1>2, <1>3

LEMMA ConnectYields ==
    ASSUME NEW b, NEW l, Yields("BOOL", l) \/ Yields("NULL", l),
           NEW r, Yields("BOOL", r) \/ Yields("NULL", r)
    PROVE  Yields("BOOL", Connect(Bool(b), l, r))
  <1>1. l # Thrown /\ r # Thrown
    BY NotThrown
  <1>2. (l # Null => IsBool(l)) /\ (r # Null => IsBool(r))
    BY YieldsFilled DEF IsBool
  <1>3. \/ Connect(Bool(b), l, r) = Bool(b)
        \/ Connect(Bool(b), l, r) = Null
        \/ Connect(Bool(b), l, r) = Bool(Bool(b) = Bool(FALSE))
    BY <1>1, <1>2 DEF Connect
  <1>4. QED BY <1>3, BoolIs, NullYields

LEMMA CompareYields ==
    ASSUME NEW op, NEW t, NEW u, t \in AnyType, u \in AnyType,
           t = u \/ {t, u} = {"INT64", "DOUBLE"} \/ t = "NULL" \/ u = "NULL",
           NEW l, Yields(t, l), NEW r, Yields(u, r)
    PROVE  Yields("BOOL", CompareCells(op, l, r))
  <1>1. l # Thrown /\ r # Thrown
    BY NotThrown DEF AnyType
  <1>2. CASE l = Null \/ r = Null
    <2>1. CompareCells(op, l, r) = Null
      BY <1>1, <1>2 DEF CompareCells
    <2>2. QED BY <2>1, NullYields
  <1>3. CASE l # Null /\ r # Null
    <2>1. PICK a, b : a = ValueOf(l) /\ b = ValueOf(r)
      OBVIOUS
    <2>2. a.type = t /\ b.type = u /\ t # "NULL" /\ u # "NULL"
      BY <1>3, <2>1, YieldsFilled
    <2>3. Comparable(a, b)
      BY <2>2 DEF Comparable
    <2>4. PICK v : CompareCells(op, l, r) = Bool(v)
      BY <1>1, <1>3, <2>1, <2>3 DEF CompareCells
    <2>5. QED BY <2>4, BoolIs
  <1>4. QED BY <1>2, <1>3

(* A well typed expression has a value of its type on every row.           *)
LEMMA EvaluateYields ==
    ASSUME NEW schema, IsSchema(schema), NEW row, RowFits(schema, row),
           NEW e \in Expressions, Binds(schema, e), WellTyped(schema, e)
    PROVE  Yields(TypeOf(schema, e), Evaluate(schema, row)[e])
  <1>1. PICK f : f = Evaluate(schema, row)
    OBVIOUS
  <1>2. PICK Bad : Bad = {x \in Expressions : /\ Binds(schema, x) /\ WellTyped(schema, x)
                                              /\ ~Yields(TypeOf(schema, x), f[x])}
    OBVIOUS
  <1>3. SUFFICES ASSUME Bad # {} PROVE FALSE
    BY <1>1, <1>2
  <1>4. PICK x \in Bad : Operands(x) \subseteq Expressions \ Bad
    BY <1>2, <1>3, LowestExpression
  <1>5. /\ x \in Expressions /\ Binds(schema, x) /\ WellTyped(schema, x)
        /\ ~Yields(TypeOf(schema, x), f[x])
    BY <1>2
  <1>6. ASSUME NEW o \in Operands(x)
        PROVE  /\ TypeOf(schema, o) \in AnyType
               /\ Yields(TypeOf(schema, o), f[o])
    <2>1. Binds(schema, o) /\ WellTyped(schema, o) /\ o \in Expressions
      BY <1>5, OperandInherits, ExpressionIs
    <2>2. QED BY <1>2, <1>4, <2>1, TypeIs
  <1>7. f[x] = EvaluateWith(f, x, schema, row)
    BY <1>1, <1>5, EvaluateIs
  <1>8. LET types == {TypeOf(schema, o) : o \in Operands(x)} \ {"NULL"}
        IN  /\ x.kind \in {"AND", "OR", "NOT"} => types \subseteq {"BOOL"}
            /\ x.kind \in Comparisons =>
                 \A a, b \in types : a = b \/ {a, b} = {"INT64", "DOUBLE"}
    BY <1>5, OperandPart DEF WellTyped
  <1>9. CASE x.kind = "column"
    <2>1. PICK i : i = IndexOf(schema, x.name)
      OBVIOUS
    <2>2. i \in DOMAIN schema
      BY <1>5, <1>9, <2>1, BoundColumn
    <2>3. f[x] = row[i] /\ TypeOf(schema, x) = schema[i].type
      BY <1>7, <1>9, <2>1 DEF EvaluateWith, TypeOf, Literals, Comparisons
    <2>4. IsCell(schema[i].type, row[i]) /\ schema[i].type \in ColumnTypes
      BY <2>2, SchemaIs DEF RowFits
    <2>5. QED BY <1>5, <2>3, <2>4 DEF Yields, ColumnTypes
  <1>10. CASE x.kind \in Literals
    <2>1. f[x] = LiteralCell(x) /\ TypeOf(schema, x) = LiteralType(x)
      BY <1>7, <1>10 DEF EvaluateWith, TypeOf, Literals, Comparisons
    <2>2. IsCell(LiteralType(x), LiteralCell(x)) /\ (x.kind = "NULL" => LiteralCell(x) = Null)
      BY <1>5, <1>10, ExpressionIs, LiteralIs
    <2>3. LiteralType(x) = "NULL" => x.kind = "NULL"
      BY <1>10 DEF LiteralType, Literals
    <2>4. QED BY <1>5, <2>1, <2>2, <2>3 DEF Yields
  <1>11. CASE x.kind \in {"NOT", "IS NULL", "AND", "OR"} \cup Comparisons
    <2>1. TypeOf(schema, x) = "BOOL"
      BY <1>5, <1>11, TypeIs DEF Literals, Comparisons
    <2>2. CASE x.kind = "NOT"
      <3>1. x.arg \in Operands(x) /\ f[x] = Negate(f[x.arg])
        BY <1>5, <1>7, <2>2, OperandsAre DEF EvaluateWith, Literals, Comparisons
      <3>2. TypeOf(schema, x.arg) \in {"BOOL", "NULL"}
        BY <1>8, <2>2, <3>1
      <3>3. Yields("BOOL", f[x.arg]) \/ Yields("NULL", f[x.arg])
        BY <1>6, <3>1, <3>2
      <3>4. QED BY <1>5, <2>1, <3>1, <3>3, NegateYields
    <2>3. CASE x.kind = "IS NULL"
      <3>1. x.arg \in Operands(x)
        BY <1>5, <2>3, OperandsAre
      <3>2. f[x.arg] # Thrown
        BY <1>6, <3>1, NotThrown DEF AnyType
      <3>3. PICK b : f[x] = Bool(b)
        BY <1>7, <2>3, <3>2 DEF EvaluateWith, Literals, Comparisons
      <3>4. QED BY <1>5, <2>1, <3>3, BoolIs
    <2>4. CASE x.kind \in {"AND", "OR"} \cup Comparisons
      <3>1. x.left \in Operands(x) /\ x.right \in Operands(x)
        BY <1>5, <2>4, OperandsAre
      <3>2. PICK t, u, l, r : /\ t = TypeOf(schema, x.left) /\ u = TypeOf(schema, x.right)
                              /\ l = f[x.left] /\ r = f[x.right]
        OBVIOUS
      <3>3. t \in AnyType /\ u \in AnyType /\ Yields(t, l) /\ Yields(u, r)
        BY <1>6, <3>1, <3>2
      <3>4. CASE x.kind \in {"AND", "OR"}
        <4>1. t \in {"BOOL", "NULL"} /\ u \in {"BOOL", "NULL"}
          BY <1>8, <3>1, <3>2, <3>4
        <4>2. /\ Yields("BOOL", l) \/ Yields("NULL", l)
              /\ Yields("BOOL", r) \/ Yields("NULL", r)
          BY <3>3, <4>1
        <4>3. f[x] = Connect(Bool(FALSE), l, r) \/ f[x] = Connect(Bool(TRUE), l, r)
          BY <1>7, <3>2, <3>4 DEF EvaluateWith, Literals, Comparisons
        <4>4. QED BY <1>5, <2>1, <4>2, <4>3, ConnectYields
      <3>5. CASE x.kind \in Comparisons
        <4>1. t = u \/ {t, u} = {"INT64", "DOUBLE"} \/ t = "NULL" \/ u = "NULL"
          BY <1>8, <3>1, <3>2, <3>5
        <4>2. f[x] = CompareCells(x.kind, l, r)
          BY <1>7, <3>2, <3>5 DEF EvaluateWith, Literals, Comparisons
        <4>3. QED BY <1>5, <2>1, <3>3, <4>1, <4>2, CompareYields
      <3>6. QED BY <2>4, <3>4, <3>5
    <2>5. QED BY <1>11, <2>2, <2>3, <2>4
  <1>12. QED BY <1>5, <1>9, <1>10, <1>11, KindsAre DEF Literals

(* Joining lists of items gives a list of items.                           *)
LEMMA FlattenIs ==
    ASSUME NEW S, NEW seqs \in Seq(Seq(S))
    PROVE  FlattenSeq(seqs) \in Seq(S)
  <1> DEFINE Joined(n, g) ==
               g = [i \in 1 .. n |-> IF i = 1 THEN seqs[i] ELSE g[i - 1] \o seqs[i]]
  <1>1. PICK m : m = Len(seqs)
    OBVIOUS
  <1>2. m \in Nat /\ \A i \in 1 .. m : seqs[i] \in Seq(S)
    BY <1>1, LenProperties, ElementOfSeq
  <1>3. PICK Bad : Bad = {n \in Nat : ~ \E g : Joined(n, g)}
    OBVIOUS
  <1>4. Bad = {}
    <2>1. SUFFICES ASSUME Bad # {} PROVE FALSE
      OBVIOUS
    <2>2. PICK n \in Bad : \A k \in Bad : n <= k
      BY <1>3, <2>1, LeastNatural
    <2>3. n \in Nat
      BY <1>3
    <2>4. n # 0
      <3>1. PICK g : g = [i \in 1 .. 0 |-> seqs[i]]
        OBVIOUS
      <3>2. Joined(0, g)
        BY <3>1
      <3>3. QED BY <1>3, <3>2
    <2>5. n - 1 \in Nat /\ n - 1 \notin Bad
      <3>1. n - 1 \in Nat /\ ~(n <= n - 1)
        BY <2>3, <2>4
      <3>2. QED BY <2>2, <3>1
    <2>6. PICK g : Joined(n - 1, g)
      BY <1>3, <2>5
    <2>7. PICK h : h = [i \in 1 .. n |->
                          IF i = n THEN IF n = 1 THEN seqs[n] ELSE g[n - 1] \o seqs[n]
                          ELSE g[i]]
      OBVIOUS
    <2>8. \A i \in 1 .. n - 1 : h[i] = g[i]
      BY <2>3, <2>7
    <2>9. ASSUME NEW i \in 1 .. n
          PROVE  h[i] = IF i = 1 THEN seqs[i] ELSE h[i - 1] \o seqs[i]
      <3>1. CASE i = n
        <4>1. h[n] = IF n = 1 THEN seqs[n] ELSE g[n - 1] \o seqs[n]
          BY <2>3, <2>4, <2>7
        <4>2. n # 1 => h[n - 1] = g[n - 1]
          BY <2>3, <2>4, <2>8
        <4>3. QED BY <3>1, <4>1, <4>2
      <3>2. CASE i # n
        <4>1. i \in 1 .. n - 1 /\ (i # 1 => i - 1 \in 1 .. n - 1)
          BY <2>3, <3>2
        <4>2. g[i] = IF i = 1 THEN seqs[i] ELSE g[i - 1] \o seqs[i]
          BY <2>6, <4>1
        <4>3. QED BY <2>8, <4>1, <4>2
      <3>3. QED BY <3>1, <3>2
    <2>10. h = [i \in 1 .. n |-> h[i]]
      BY <2>7
    <2>11. Joined(n, h)
      BY <2>9, <2>10
    <2>12. QED BY <1>3, <2>11
  <1>5. CASE m = 0
    <2>1. seqs = <<>>
      BY <1>1, <1>5, EmptySeq
    <2>2. FlattenSeq(seqs) = seqs
      BY <1>1, <1>5 DEF FlattenSeq
    <2>3. QED BY <2>1, <2>2, EmptySeq
  <1>6. CASE m # 0
    <2>1. \E g : Joined(m, g)
      BY <1>2, <1>3, <1>4
    <2>2. PICK g : Joined(m, g) /\ g = CHOOSE f : Joined(m, f)
      <3>1. Joined(m, CHOOSE f : Joined(m, f))
        BY <2>1
      <3>2. QED BY <3>1
    <2>3. Joined(m, g)
      BY <2>2
    <2>4. FlattenSeq(seqs) = g[m]
      BY <1>1, <1>6, <2>2 DEF FlattenSeq
    <2>5. \A i \in 1 .. m : g[i] = IF i = 1 THEN seqs[i] ELSE g[i - 1] \o seqs[i]
      BY <2>3
    <2>6. PICK Wrong : Wrong = {i \in 1 .. m : g[i] \notin Seq(S)}
      OBVIOUS
    <2>7. Wrong = {}
      <3>1. SUFFICES ASSUME Wrong # {} PROVE FALSE
        OBVIOUS
      <3>2. PICK i \in Wrong : \A k \in Wrong : i <= k
        <4>1. Wrong \subseteq Nat
          BY <1>2, <2>6
        <4>2. QED BY <3>1, <4>1, LeastNatural
      <3>3. i \in 1 .. m /\ g[i] \notin Seq(S) /\ seqs[i] \in Seq(S)
        BY <1>2, <2>6
      <3>4. i # 1
        BY <2>5, <3>3
      <3>5. i - 1 \in 1 .. m /\ i - 1 \notin Wrong
        BY <1>2, <3>2, <3>3, <3>4
      <3>6. g[i - 1] \in Seq(S) /\ g[i] = g[i - 1] \o seqs[i]
        BY <2>5, <2>6, <3>3, <3>4, <3>5
      <3>7. QED BY <3>3, <3>6, ConcatProperties
    <2>8. QED BY <1>2, <1>6, <2>4, <2>6, <2>7
  <1>7. QED BY <1>5, <1>6

(* What the items of a SELECT become.                                      *)
ItemsOf(s) == Expressions \cup (Range(s.items) \ {Star})

LEMMA ItemIs ==
    ASSUME NEW s, IsSelect(s), NEW item \in ItemsOf(s)
    PROVE  ArgumentOf(item) \in Expressions
  <1>1. CASE item \in Expressions
    <2>1. ~IsAggregate(item)
      BY <1>1, KindsAre DEF IsAggregate, Aggregates, Comparisons
    <2>2. QED BY <1>1, <2>1 DEF ArgumentOf
  <1>2. CASE item \notin Expressions
    <2>1. item.kind \in Aggregates /\ item.arg \in Expressions
      BY <1>2 DEF ItemsOf, IsSelect
    <2>2. QED BY <2>1 DEF ArgumentOf, IsAggregate
  <1>3. QED BY <1>1, <1>2

LEMMA ItemsAre ==
    ASSUME NEW schema, IsSchema(schema), NEW s, IsSelect(s)
    PROVE  /\ ExpandItems(schema, s.items) \in Seq(ItemsOf(s))
           /\ ArgumentsOf(ExpandItems(schema, s.items)) \subseteq Expressions
  <1>1. PICK parts : parts =
          [i \in DOMAIN s.items |->
             IF s.items[i] = Star
             THEN [j \in DOMAIN schema |-> Column(schema[j].name)]
             ELSE <<s.items[i]>>]
    OBVIOUS
  <1>2. ExpandItems(schema, s.items) = FlattenSeq(parts)
    BY <1>1 DEF ExpandItems
  <1>3. Len(s.items) \in Nat /\ DOMAIN s.items = 1 .. Len(s.items)
    BY DEF IsSelect, IsSequence
  <1>4. ASSUME NEW i \in DOMAIN s.items PROVE parts[i] \in Seq(ItemsOf(s))
    <2>1. CASE s.items[i] = Star
      <3>1. parts[i] = [j \in DOMAIN schema |-> Column(schema[j].name)]
        BY <1>1, <2>1
      <3>2. \A j \in DOMAIN schema : Column(schema[j].name) \in ItemsOf(s)
        BY SchemaIs DEF ItemsOf
      <3>3. QED BY <3>1, <3>2, SchemaIs
    <2>2. CASE s.items[i] # Star
      <3>1. s.items[i] \in ItemsOf(s)
        BY <2>2 DEF ItemsOf, Range
      <3>2. parts[i] = <<s.items[i]>>
        BY <1>1, <2>2
      <3>3. QED BY <3>1, <3>2
    <2>3. QED BY <2>1, <2>2
  <1>5. parts \in Seq(Seq(ItemsOf(s)))
    <2>1. PICK W : W = Seq(ItemsOf(s))
      OBVIOUS
    <2>2. PICK n : n = Len(s.items)
      OBVIOUS
    <2>3. DOMAIN parts = 1 .. n /\ n \in Nat
      BY <1>1, <1>3, <2>2
    <2>4. parts = [i \in 1 .. n |-> parts[i]]
      BY <1>1, <2>3
    <2>5. \A i \in 1 .. n : parts[i] \in W
      BY <1>3, <1>4, <2>1, <2>2
    <2>6. parts \in Seq(W)
      BY <2>3, <2>4, <2>5
    <2>7. QED BY <2>1, <2>6
  <1>6. ExpandItems(schema, s.items) \in Seq(ItemsOf(s))
    BY <1>2, <1>5, FlattenIs
  <1>7. PICK items : items = ExpandItems(schema, s.items)
    OBVIOUS
  <1>8. \A i \in DOMAIN items : items[i] \in ItemsOf(s)
    BY <1>6, <1>7, LenProperties, ElementOfSeq
  <1>9. ArgumentsOf(items) \subseteq Expressions
    BY <1>8, ItemIs DEF ArgumentsOf
  <1>10. QED BY <1>6, <1>7, <1>9

(* The expressions of a SELECT that the binder accepts.                    *)
LEMMA ExpressionsBind ==
    ASSUME NEW schema, IsSchema(schema), NEW s, IsSelect(s), SelectBinds(schema, s),
           NEW e \in ExpressionsOf(schema, s)
    PROVE  /\ e \in Expressions /\ Binds(schema, e)
           /\ ColumnsOf(schema, e) \subseteq Projection(schema, s)
  <1>1. PICK items : items = ExpandItems(schema, s.items)
    OBVIOUS
  <1>2. ColumnsOf(schema, e) \subseteq Projection(schema, s)
    BY DEF Projection
  <1>3. CASE e \in ArgumentsOf(items)
    <2>1. PICK i \in DOMAIN items : e = ArgumentOf(items[i])
      BY <1>3 DEF ArgumentsOf
    <2>2. Binds(schema, e)
      BY <1>1, <2>1 DEF SelectBinds, BindsItem
    <2>3. e \in Expressions
      BY <1>1, <1>3, ItemsAre
    <2>4. QED BY <1>2, <2>2, <2>3
  <1>4. CASE e \in Range(s.where)
    <2>1. PICK i \in DOMAIN s.where : e = s.where[i]
      BY <1>4 DEF Range
    <2>2. Binds(schema, e)
      BY <2>1 DEF SelectBinds
    <2>3. e \in Expressions
      BY <1>4 DEF IsSelect
    <2>4. QED BY <1>2, <2>2, <2>3
  <1>5. CASE e \in Range(s.group_by)
    <2>1. PICK i \in DOMAIN s.group_by : e = s.group_by[i]
      BY <1>5 DEF Range
    <2>2. Binds(schema, e)
      BY <2>1 DEF SelectBinds
    <2>3. e \in Expressions
      BY <1>5 DEF IsSelect
    <2>4. QED BY <1>2, <2>2, <2>3
  <1>6. CASE e \in Range(OrderExpressions(s))
    <2>1. PICK i \in DOMAIN s.order_by : e = s.order_by[i].expression
      BY <1>6 DEF Range, OrderExpressions
    <2>2. Binds(schema, e)
      BY <2>1 DEF SelectBinds
    <2>3. s.order_by[i] \in Range(s.order_by)
      BY DEF Range
    <2>4. e \in Expressions
      BY <2>1, <2>3 DEF IsSelect
    <2>5. QED BY <1>2, <2>2, <2>4
  <1>7. e \in ArgumentsOf(items) \cup Range(s.where) \cup Range(s.group_by)
                \cup Range(OrderExpressions(s))
    BY <1>1 DEF ExpressionsOf
  <1>8. QED BY <1>3, <1>4, <1>5, <1>6, <1>7

LEMMA ExpressionsAre ==
    ASSUME NEW schema, NEW s
    PROVE  /\ \A i \in DOMAIN ExpandItems(schema, s.items) :
                ArgumentOf(ExpandItems(schema, s.items)[i]) \in ExpressionsOf(schema, s)
           /\ \A i \in DOMAIN s.where : s.where[i] \in ExpressionsOf(schema, s)
           /\ \A i \in DOMAIN s.group_by : s.group_by[i] \in ExpressionsOf(schema, s)
           /\ \A i \in DOMAIN OrderExpressions(s) :
                OrderExpressions(s)[i] \in ExpressionsOf(schema, s)
  BY DEF ExpressionsOf, ArgumentsOf, Range

(* What a cursor returns, as far as the SELECT looks at it: the rows on    *)
(* which well typed expressions have values of their type.                 *)
Readable(schema, s, row) ==
    \A e \in ExpressionsOf(schema, s) :
      WellTyped(schema, e) => Yields(TypeOf(schema, e), Evaluate(schema, row)[e])

Read(schema, s, rows) ==
    /\ DOMAIN rows \subseteq Int /\ IsFiniteSet(DOMAIN rows)
    /\ \A i \in DOMAIN rows : Readable(schema, s, rows[i])

(* Rows that agree where the SELECT looks.                                 *)
LooksLike(schema, s, row, other) ==
    \A c \in {1} \cup Projection(schema, s) : row[c] = other[c]

LEMMA LikeValues ==
    ASSUME NEW schema, IsSchema(schema), NEW s, IsSelect(s), SelectBinds(schema, s),
           NEW row, NEW other, LooksLike(schema, s, row, other),
           NEW e \in ExpressionsOf(schema, s)
    PROVE  Evaluate(schema, row)[e] = Evaluate(schema, other)[e]
  <1>1. /\ e \in Expressions /\ Binds(schema, e)
        /\ ColumnsOf(schema, e) \subseteq Projection(schema, s)
    BY ExpressionsBind
  <1>2. \A c \in ColumnsOf(schema, e) : row[c] = other[c]
    BY <1>1 DEF LooksLike
  <1>3. QED BY <1>1, <1>2, EvaluateAgrees

LEMMA LikeFitting ==
    ASSUME NEW schema, IsSchema(schema), NEW s, IsSelect(s), SelectBinds(schema, s),
           NEW row, NEW other, RowFits(schema, other), LooksLike(schema, s, row, other)
    PROVE  Readable(schema, s, row)
  <1> SUFFICES ASSUME NEW e \in ExpressionsOf(schema, s), WellTyped(schema, e)
               PROVE  Yields(TypeOf(schema, e), Evaluate(schema, row)[e])
    BY DEF Readable
  <1>1. e \in Expressions /\ Binds(schema, e)
    BY ExpressionsBind
  <1>2. Yields(TypeOf(schema, e), Evaluate(schema, other)[e])
    BY <1>1, EvaluateYields
  <1>3. Evaluate(schema, row)[e] = Evaluate(schema, other)[e]
    BY LikeValues
  <1>4. QED BY <1>2, <1>3

-----------------------------------------------------------------------------
(* What the cursors of the tree return.                                    *)

CellOrThrown == AnyCell \cup {Thrown}

LEMMA MaskedIs ==
    ASSUME NEW schema, IsSchema(schema), NEW rows \in Seq(Fitting(schema)),
           NEW projection, NEW absent, absent = Null \/ absent = Thrown
    PROVE  /\ Masked(rows, projection, absent) \in Seq([DOMAIN schema -> CellOrThrown])
           /\ Len(Masked(rows, projection, absent)) = Len(rows)
  <1>1. PICK m : m = Masked(rows, projection, absent)
    OBVIOUS
  <1>2. Len(rows) \in Nat /\ DOMAIN rows = 1 .. Len(rows)
    BY LenProperties
  <1>3. m = [i \in 1 .. Len(rows) |-> [c \in DOMAIN rows[i] |->
               IF c = 1 \/ c \in projection THEN rows[i][c] ELSE absent]]
    BY <1>1, <1>2 DEF Masked
  <1>4. ASSUME NEW i \in 1 .. Len(rows)
        PROVE  m[i] \in [DOMAIN schema -> CellOrThrown]
    <2>1. m[i] = [c \in DOMAIN rows[i] |->
                    IF c = 1 \/ c \in projection THEN rows[i][c] ELSE absent]
      BY <1>3, <1>4
    <2>2. rows[i] \in [DOMAIN schema -> AnyCell]
      BY <1>4, ElementOfSeq DEF Fitting
    <2>3. absent \in CellOrThrown
      BY DEF CellOrThrown, AnyCell
    <2>4. QED BY <2>1, <2>2, <2>3 DEF CellOrThrown
  <1>5. m \in Seq([DOMAIN schema -> CellOrThrown])
    BY <1>2, <1>3, <1>4
  <1>6. DOMAIN m = 1 .. Len(rows)
    BY <1>3
  <1>7. Len(m) = Len(rows)
    BY <1>2, <1>5, <1>6, LenProperties
  <1>8. QED BY <1>1, <1>5, <1>7

LEMMA MaskedShows ==
    ASSUME NEW schema, IsSchema(schema), NEW rows \in Seq(Fitting(schema)),
           NEW projection, projection \subseteq DOMAIN schema, NEW absent
    PROVE  \A i \in 1 .. Len(rows) : \A c \in {1} \cup projection :
             Masked(rows, projection, absent)[i][c] = rows[i][c]
  <1> TAKE i \in 1 .. Len(rows)
  <1> TAKE c \in {1} \cup projection
  <1>1. DOMAIN rows = 1 .. Len(rows)
    BY LenProperties
  <1>2. Masked(rows, projection, absent)[i] =
          [k \in DOMAIN rows[i] |->
             IF k = 1 \/ k \in projection THEN rows[i][k] ELSE absent]
    BY <1>1 DEF Masked
  <1>3. rows[i] \in [DOMAIN schema -> AnyCell]
    BY ElementOfSeq DEF Fitting
  <1>4. c \in DOMAIN rows[i]
    BY <1>3, SchemaIs
  <1>5. QED BY <1>2, <1>4

(* Of these rows, what is asked for.                                       *)
ShownAs(schema, rows, shown, projection) ==
    /\ shown \in Seq([DOMAIN schema -> CellOrThrown]) /\ Len(shown) = Len(rows)
    /\ \A i \in 1 .. Len(rows) : \A c \in {1} \cup projection : shown[i][c] = rows[i][c]

LEMMA MaskedRows ==
    ASSUME NEW schema, IsSchema(schema), NEW rows \in Seq(Fitting(schema)),
           NEW projection, projection \subseteq DOMAIN schema,
           NEW absent, absent = Null \/ absent = Thrown
    PROVE  ShownAs(schema, rows, Masked(rows, projection, absent), projection)
  <1>1. PICK shown : shown = Masked(rows, projection, absent)
    OBVIOUS
  <1>2. shown \in Seq([DOMAIN schema -> CellOrThrown]) /\ Len(shown) = Len(rows)
    BY <1>1, MaskedIs
  <1>3. \A i \in 1 .. Len(rows) : \A c \in {1} \cup projection : shown[i][c] = rows[i][c]
    BY <1>1, MaskedShows
  <1>4. QED BY <1>1, <1>2, <1>3 DEF ShownAs

(* All rows of the tree, as its cursors return them.                       *)
Shown(tree, projection) ==
    tree.mem \o Masked(tree.row, projection, Null)
             \o Masked(tree.column, projection, Thrown)

LEMMA JoinedRows ==
    ASSUME NEW S, NEW a \in Seq(S), NEW b \in Seq(S), NEW c \in Seq(S)
    PROVE  /\ a \o b \o c \in Seq(S)
           /\ Len(a) \in Nat /\ Len(b) \in Nat /\ Len(c) \in Nat
           /\ DOMAIN (a \o b \o c) = 1 .. Len(a) + Len(b) + Len(c)
           /\ \A i \in 1 .. Len(a) + Len(b) + Len(c) :
                (a \o b \o c)[i] = IF i <= Len(a) THEN a[i]
                                   ELSE IF i <= Len(a) + Len(b) THEN b[i - Len(a)]
                                   ELSE c[i - (Len(a) + Len(b))]
  <1>1. PICK x, y, z : x = Len(a) /\ y = Len(b) /\ z = Len(c)
    OBVIOUS
  <1>2. x \in Nat /\ y \in Nat /\ z \in Nat
    BY <1>1, LenProperties
  <1>3. PICK ab, abc : ab = a \o b /\ abc = ab \o c
    OBVIOUS
  <1>4. /\ ab \in Seq(S) /\ Len(ab) = x + y
        /\ \A i \in 1 .. x + y : ab[i] = IF i <= x THEN a[i] ELSE b[i - x]
    BY <1>1, <1>3, ConcatProperties
  <1>5. /\ abc \in Seq(S) /\ Len(abc) = x + y + z
        /\ \A i \in 1 .. x + y + z : abc[i] = IF i <= x + y THEN ab[i] ELSE c[i - (x + y)]
    BY <1>1, <1>3, <1>4, ConcatProperties
  <1>6. DOMAIN abc = 1 .. x + y + z
    BY <1>5, LenProperties
  <1>7. ASSUME NEW i \in 1 .. x + y + z
        PROVE  abc[i] = IF i <= x THEN a[i] ELSE IF i <= x + y THEN b[i - x]
                        ELSE c[i - (x + y)]
    <2>1. CASE i <= x + y
      <3>1. i \in 1 .. x + y
        BY <1>2, <2>1
      <3>2. abc[i] = ab[i] /\ ab[i] = IF i <= x THEN a[i] ELSE b[i - x]
        BY <1>4, <1>5, <2>1, <3>1
      <3>3. QED BY <2>1, <3>2
    <2>2. CASE ~(i <= x + y)
      <3>1. ~(i <= x)
        BY <1>2, <2>2
      <3>2. QED BY <1>5, <2>2, <3>1
    <2>3. QED BY <2>1, <2>2
  <1>8. QED BY <1>1, <1>2, <1>3, <1>5, <1>6, <1>7

LEMMA ShownIs ==
    ASSUME NEW tree, IsTree(tree), NEW projection, projection \subseteq DOMAIN tree.schema
    PROVE  /\ \E n \in Nat : /\ DOMAIN Shown(tree, projection) = 1 .. n
                             /\ DOMAIN RowsOf(tree) = 1 .. n
           /\ \A i \in DOMAIN RowsOf(tree) :
                /\ RowFits(tree.schema, RowsOf(tree)[i])
                /\ \A c \in {1} \cup projection :
                     Shown(tree, projection)[i][c] = RowsOf(tree)[i][c]
  <1>1. PICK schema, a, b, c, mb, mc :
          /\ schema = tree.schema /\ a = tree.mem /\ b = tree.row /\ c = tree.column
          /\ mb = Masked(b, projection, Null) /\ mc = Masked(c, projection, Thrown)
    OBVIOUS
  <1>2. IsSchema(schema)
    BY <1>1, TreeIs
  <1>3. a \in Seq(Fitting(schema)) /\ b \in Seq(Fitting(schema)) /\ c \in Seq(Fitting(schema))
    BY <1>1, <1>2, RowsFitIs DEF IsTree
  <1>4. ShownAs(schema, b, mb, projection) /\ ShownAs(schema, c, mc, projection)
    BY <1>1, <1>2, <1>3, MaskedRows
  <1>5. /\ mb \in Seq([DOMAIN schema -> CellOrThrown]) /\ Len(mb) = Len(b)
        /\ mc \in Seq([DOMAIN schema -> CellOrThrown]) /\ Len(mc) = Len(c)
        /\ \A i \in 1 .. Len(b) : \A k \in {1} \cup projection : mb[i][k] = b[i][k]
        /\ \A i \in 1 .. Len(c) : \A k \in {1} \cup projection : mc[i][k] = c[i][k]
    BY <1>4 DEF ShownAs
  <1>6. a \in Seq([DOMAIN schema -> CellOrThrown])
    <2>1. Fitting(schema) \subseteq [DOMAIN schema -> CellOrThrown]
      BY DEF Fitting, CellOrThrown
    <2>2. QED BY <1>3, <2>1, SeqMonotonic
  <1>7. PICK f, g : f = a \o b \o c /\ g = a \o mb \o mc
    OBVIOUS
  <1>8. RowsOf(tree) = f /\ Shown(tree, projection) = g
    BY <1>1, <1>7 DEF RowsOf, Shown
  <1>9. PICK x, y, z : x = Len(a) /\ y = Len(b) /\ z = Len(c)
    OBVIOUS
  <1>10. /\ f \in Seq(Fitting(schema))
         /\ x \in Nat /\ y \in Nat /\ z \in Nat
         /\ DOMAIN f = 1 .. x + y + z
         /\ \A i \in 1 .. x + y + z :
              f[i] = IF i <= x THEN a[i] ELSE IF i <= x + y THEN b[i - x]
                     ELSE c[i - (x + y)]
    BY <1>3, <1>7, <1>9, JoinedRows
  <1>11. /\ DOMAIN g = 1 .. x + y + z
         /\ \A i \in 1 .. x + y + z :
              g[i] = IF i <= x THEN a[i] ELSE IF i <= x + y THEN mb[i - x]
                     ELSE mc[i - (x + y)]
    <2>1. PICK W : W = [DOMAIN schema -> CellOrThrown]
      OBVIOUS
    <2>2. a \in Seq(W) /\ mb \in Seq(W) /\ mc \in Seq(W)
      BY <1>5, <1>6, <2>1
    <2>3. Len(a) = x /\ Len(mb) = y /\ Len(mc) = z
      BY <1>5, <1>9
    <2>4. /\ DOMAIN (a \o mb \o mc) = 1 .. Len(a) + Len(mb) + Len(mc)
          /\ \A i \in 1 .. Len(a) + Len(mb) + Len(mc) :
               (a \o mb \o mc)[i] = IF i <= Len(a) THEN a[i]
                                    ELSE IF i <= Len(a) + Len(mb) THEN mb[i - Len(a)]
                                    ELSE mc[i - (Len(a) + Len(mb))]
      BY <2>2, JoinedRows
    <2>5. QED BY <1>7, <2>3, <2>4
  <1>12. ASSUME NEW i \in 1 .. x + y + z
         PROVE  /\ RowFits(schema, f[i])
                /\ \A k \in {1} \cup projection : g[i][k] = f[i][k]
    <2>1. RowFits(schema, f[i])
      <3>1. f[i] \in Fitting(schema)
        BY <1>10, <1>12, LenProperties
      <3>2. QED BY <1>2, <3>1, FittingIs
    <2>2. CASE i <= x
      <3>1. f[i] = a[i] /\ g[i] = a[i]
        BY <1>10, <1>11, <2>2
      <3>2. QED BY <2>1, <3>1
    <2>3. CASE ~(i <= x) /\ i <= x + y
      <3>1. f[i] = b[i - x] /\ g[i] = mb[i - x]
        BY <1>10, <1>11, <2>3
      <3>2. i - x \in 1 .. y
        BY <1>10, <2>3
      <3>3. QED BY <1>5, <1>9, <2>1, <3>1, <3>2
    <2>4. CASE ~(i <= x + y)
      <3>1. f[i] = c[i - (x + y)] /\ g[i] = mc[i - (x + y)]
        BY <1>10, <1>11, <2>4
      <3>2. i - (x + y) \in 1 .. z
        BY <1>10, <2>4
      <3>3. QED BY <1>5, <1>9, <2>1, <3>1, <3>2
    <2>5. QED BY <2>2, <2>3, <2>4
  <1>13. x + y + z \in Nat
    BY <1>10
  <1>14. QED BY <1>1, <1>8, <1>10, <1>11, <1>12, <1>13

-----------------------------------------------------------------------------
(* No cell of a well typed SELECT is an exception.                         *)

Filled(cells) == {i \in DOMAIN cells : cells[i] # Null}
NumbersIn(cells) == [i \in DOMAIN cells |-> Numbers(cells[i])]

LEMMA AggregateIs ==
    ASSUME NEW kind, NEW type, NEW cells
    PROVE  AggregateOf(kind, type, cells) =
             IF \E cell \in Range(cells) : cell = Thrown \/ ~Takes(kind, type, cell)
               THEN Thrown
             ELSE IF kind = "COUNT" THEN Cell("INT64", Cardinality(Filled(cells)))
             ELSE IF Filled(cells) = {} THEN Null
             ELSE CASE kind = "SUM" ->
                         Cell(type, IF type = "INT64"
                                    THEN Wrap(Sums(NumbersIn(cells))[DOMAIN cells])
                                    ELSE Sums(NumbersIn(cells))[DOMAIN cells])
                    [] kind = "AVG" ->
                         {[type |-> "DOUBLE",
                           value |-> Sums(NumbersIn(cells))[DOMAIN cells],
                           over |-> Cardinality(Filled(cells))]}
                    [] kind = "MIN" -> Cell(type, Min(UNION Range(NumbersIn(cells))))
                    [] kind = "MAX" -> Cell(type, Max(UNION Range(NumbersIn(cells))))
  BY Zenon DEF AggregateOf, Filled, NumbersIn

LEMMA AggregateRuns ==
    ASSUME NEW kind \in Aggregates, NEW type \in AnyType, AggregateAllowed(kind, type),
           NEW cells, \A i \in DOMAIN cells : Yields(type, cells[i])
    PROVE  AggregateOf(kind, type, cells) # Thrown
  <1>1. \A i \in DOMAIN cells : cells[i] # Thrown
    BY NotThrown DEF AnyType
  <1>2. ASSUME NEW i \in DOMAIN cells PROVE Takes(kind, type, cells[i])
    <2>1. CASE kind = "COUNT"
      BY <2>1 DEF Takes
    <2>2. CASE kind # "COUNT"
      <3>1. type \in {"INT64", "DOUBLE"}
        BY <2>2 DEF AggregateAllowed
      <3>2. IsCell(type, cells[i])
        BY <3>1 DEF Yields
      <3>3. \A v \in cells[i] : v.type = type
        <4>1. CASE cells[i] = Null
          BY <4>1 DEF Null
        <4>2. CASE cells[i] # Null
          <5>1. PICK n : cells[i] = Cell(type, n)
            BY <3>2, <4>2, FilledCell
          <5>2. \A v \in cells[i] : v = [type |-> type, value |-> n]
            BY <5>1, CellIs
          <5>3. QED BY <5>2
        <4>3. QED BY <4>1, <4>2
      <3>4. QED BY <3>1, <3>3 DEF Takes
    <2>3. QED BY <2>1, <2>2
  <1>3. ~ \E cell \in Range(cells) : cell = Thrown \/ ~Takes(kind, type, cell)
    BY <1>1, <1>2 DEF Range
  <1>4. type # "throw"
    BY DEF AnyType
  <1>5. \A n : Cell(type, n) # Thrown /\ Cell("INT64", n) # Thrown
    BY <1>4, CellIs DEF Thrown
  <1>6. \A n, k : {[type |-> "DOUBLE", value |-> n, over |-> k]} # Thrown
    <2> TAKE n, k
    <2>1. PICK v : v = [type |-> "DOUBLE", value |-> n, over |-> k]
      OBVIOUS
    <2>2. v.type = "DOUBLE"
      BY <2>1
    <2>3. \A w \in Thrown : w = [type |-> "throw", value |-> 0]
      BY CellIs DEF Thrown
    <2>4. v \notin Thrown
      <3>1. SUFFICES ASSUME v \in Thrown PROVE FALSE
        OBVIOUS
      <3>2. v = [type |-> "throw", value |-> 0]
        BY <2>3, <3>1
      <3>3. v.type = "throw"
        BY <3>2
      <3>4. QED BY <2>2, <3>3
    <2>5. QED BY <2>1, <2>4
  <1>7. Null # Thrown
    BY CellIs DEF Thrown
  <1>8. kind \in {"COUNT", "SUM", "AVG", "MIN", "MAX"}
    BY DEF Aggregates
  <1>9. AggregateOf(kind, type, cells) =
          IF kind = "COUNT" THEN Cell("INT64", Cardinality(Filled(cells)))
          ELSE IF Filled(cells) = {} THEN Null
          ELSE CASE kind = "SUM" ->
                      Cell(type, IF type = "INT64"
                                 THEN Wrap(Sums(NumbersIn(cells))[DOMAIN cells])
                                 ELSE Sums(NumbersIn(cells))[DOMAIN cells])
                 [] kind = "AVG" ->
                      {[type |-> "DOUBLE",
                        value |-> Sums(NumbersIn(cells))[DOMAIN cells],
                        over |-> Cardinality(Filled(cells))]}
                 [] kind = "MIN" -> Cell(type, Min(UNION Range(NumbersIn(cells))))
                 [] kind = "MAX" -> Cell(type, Max(UNION Range(NumbersIn(cells))))
    BY <1>3, AggregateIs, Zenon
  <1>10. PICK sum, count, least, most :
          /\ sum = Sums(NumbersIn(cells))[DOMAIN cells]
          /\ count = Cardinality(Filled(cells))
          /\ least = Min(UNION Range(NumbersIn(cells)))
          /\ most = Max(UNION Range(NumbersIn(cells)))
    OBVIOUS
  <1>11. CASE kind \in {"COUNT", "SUM"}
    BY <1>5, <1>7, <1>9, <1>10, <1>11
  <1>12. CASE kind = "AVG"
    BY <1>6, <1>7, <1>9, <1>10, <1>12
  <1>13. CASE kind \in {"MIN", "MAX"}
    BY <1>5, <1>7, <1>9, <1>10, <1>13
  <1>14. QED BY <1>8, <1>11, <1>12, <1>13

LEMMA CellsRun ==
    ASSUME NEW schema, IsSchema(schema), NEW s, IsSelect(s), SelectBinds(schema, s),
           NEW row, Readable(schema, s, row), AllWellTyped(schema, s),
           NEW exprs, \A i \in DOMAIN exprs : exprs[i] \in ExpressionsOf(schema, s)
    PROVE  Thrown \notin Range(CellsOf(schema, exprs, row))
  <1> SUFFICES ASSUME NEW i \in DOMAIN exprs
               PROVE  Evaluate(schema, row)[exprs[i]] # Thrown
    BY DEF Range, CellsOf
  <1>1. PICK e : e = exprs[i]
    OBVIOUS
  <1>2. e \in ExpressionsOf(schema, s) /\ WellTyped(schema, e)
    BY <1>1 DEF AllWellTyped
  <1>3. Yields(TypeOf(schema, e), Evaluate(schema, row)[e])
    BY <1>2 DEF Readable
  <1>4. TypeOf(schema, e) \in AnyType
    BY <1>2, ExpressionsBind, TypeIs
  <1>5. QED BY <1>1, <1>3, <1>4, NotThrown DEF AnyType

LEMMA AllCellsRun ==
    ASSUME NEW schema, IsSchema(schema), NEW s, IsSelect(s), SelectBinds(schema, s),
           NEW rows, Read(schema, s, rows), AllWellTyped(schema, s),
           NEW exprs, \A i \in DOMAIN exprs : exprs[i] \in ExpressionsOf(schema, s)
    PROVE  Thrown \notin AllCells(schema, exprs, rows)
  <1>1. \A i \in DOMAIN rows : Thrown \notin Range(CellsOf(schema, exprs, rows[i]))
    BY CellsRun DEF Read
  <1>2. QED BY <1>1 DEF AllCells

LEMMA PartRead ==
    ASSUME NEW schema, NEW s, NEW rows, Read(schema, s, rows),
           NEW T, T \subseteq DOMAIN rows
    PROVE  Read(schema, s, [i \in T |-> rows[i]])
  <1>1. IsFiniteSet(T)
    BY FS_Subset DEF Read
  <1>2. QED BY <1>1 DEF Read

LEMMA FirstIsARow ==
    ASSUME NEW schema, NEW s, NEW rows, Read(schema, s, rows), DOMAIN rows # {}
    PROVE  \E i \in DOMAIN rows : FirstOf(rows) = rows[i]
  <1>1. \E i \in DOMAIN rows : \A j \in DOMAIN rows : i <= j
    BY LeastOfFinite DEF Read
  <1>2. QED BY <1>1 DEF FirstOf

LEMMA RowOfGroupRuns ==
    ASSUME NEW schema, IsSchema(schema), NEW s, IsSelect(s), SelectBinds(schema, s),
           NEW rows, Read(schema, s, rows), AllWellTyped(schema, s),
           NEW items, items = ExpandItems(schema, s.items),
           DOMAIN rows # {} \/ \A i \in DOMAIN items : IsAggregate(items[i])
    PROVE  Thrown \notin Range(RowOfGroup(schema, items, rows))
  <1> SUFFICES ASSUME NEW i \in DOMAIN items
               PROVE  RowOfGroup(schema, items, rows)[i] # Thrown
    BY DEF Range, RowOfGroup
  <1>1. PICK e : e = ArgumentOf(items[i])
    OBVIOUS
  <1>2. e \in ExpressionsOf(schema, s) /\ WellTyped(schema, e)
    BY <1>1, ExpressionsAre DEF AllWellTyped
  <1>3. TypeOf(schema, e) \in AnyType
    BY <1>2, ExpressionsBind, TypeIs
  <1>4. \A j \in DOMAIN rows : Yields(TypeOf(schema, e), Evaluate(schema, rows[j])[e])
    BY <1>2 DEF Read, Readable
  <1>5. CASE IsAggregate(items[i])
    <2>1. e = items[i].arg /\ items[i].kind \in Aggregates
      BY <1>1, <1>5 DEF ArgumentOf, IsAggregate
    <2>2. AggregateAllowed(items[i].kind, TypeOf(schema, e))
      BY <1>5, <2>1 DEF SelectBinds, BindsItem
    <2>3. PICK cells : cells = [r \in DOMAIN rows |-> Evaluate(schema, rows[r])[e]]
      OBVIOUS
    <2>4. \A j \in DOMAIN cells : Yields(TypeOf(schema, e), cells[j])
      BY <1>4, <2>3
    <2>5. AggregateOf(items[i].kind, TypeOf(schema, e), cells) # Thrown
      BY <1>3, <2>1, <2>2, <2>4, AggregateRuns
    <2>6. RowOfGroup(schema, items, rows)[i] =
            AggregateOf(items[i].kind, TypeOf(schema, e), cells)
      BY <1>5, <2>1, <2>3 DEF RowOfGroup
    <2>7. QED BY <2>5, <2>6
  <1>6. CASE ~IsAggregate(items[i])
    <2>1. PICK j \in DOMAIN rows : FirstOf(rows) = rows[j]
      BY <1>6, FirstIsARow
    <2>2. e = items[i]
      BY <1>1, <1>6 DEF ArgumentOf
    <2>3. RowOfGroup(schema, items, rows)[i] = Evaluate(schema, rows[j])[e]
      BY <1>6, <2>1, <2>2 DEF RowOfGroup
    <2>4. QED BY <1>3, <1>4, <2>3, NotThrown DEF AnyType
  <1>7. QED BY <1>5, <1>6

(* The rows that WHERE lets pass, and those of a group.                    *)
PassedPlaces(schema, s, rows) ==
    {i \in DOMAIN rows : Range(CellsOf(schema, s.where, rows[i])) \subseteq {Bool(TRUE)}}
Passed(schema, s, rows) == [i \in PassedPlaces(schema, s, rows) |-> rows[i]]

KeysOf(schema, s, rows) == {GroupKey(schema, s, rows[i]) : i \in DOMAIN rows}

LEMMA PassedIs ==
    ASSUME NEW schema, NEW s, NEW rows
    PROVE  ExecuteOn(schema, s, rows) =
             IF Thrown \in AllCells(schema, s.where, rows) THEN Failed
             ELSE IF s.group_by # <<>>
               THEN ExecuteGrouped(schema, s, ExpandItems(schema, s.items),
                                   Passed(schema, s, rows))
             ELSE IF \E i \in DOMAIN ExpandItems(schema, s.items) :
                       IsAggregate(ExpandItems(schema, s.items)[i])
               THEN ExecuteGlobal(schema, ExpandItems(schema, s.items),
                                  Passed(schema, s, rows))
             ELSE ExecutePlain(schema, s, ExpandItems(schema, s.items),
                               Passed(schema, s, rows))
  BY Zenon DEF ExecuteOn, Passed, PassedPlaces, RestrictValues, Restrict

LEMMA GroupIs ==
    ASSUME NEW schema, NEW s, NEW rows, NEW key
    PROVE  RowsOfGroup(schema, s, rows, key) =
             [i \in {j \in DOMAIN rows : GroupKey(schema, s, rows[j]) = key} |-> rows[i]]
  BY Zenon DEF RowsOfGroup, RestrictValues, Restrict

(* The answers of the groups, and the cells that may have thrown.          *)
GroupAnswers(schema, s, items, rows) ==
    [k \in KeysOf(schema, s, rows) |->
       RowOfGroup(schema, items, RowsOfGroup(schema, s, rows, k))]

GroupCells(schema, s, items, rows, k) ==
    Range(k) \cup Range(RowOfGroup(schema, items, RowsOfGroup(schema, s, rows, k)))
      \cup Range(CellsOf(schema, OrderExpressions(s),
                         FirstOf(RowsOfGroup(schema, s, rows, k))))

LEMMA GroupedIs ==
    ASSUME NEW schema, NEW s, NEW items, NEW rows
    PROVE  ExecuteGrouped(schema, s, items, rows) =
             Answer(UNION {GroupCells(schema, s, items, rows, k) :
                             k \in KeysOf(schema, s, rows)},
                    GroupAnswers(schema, s, items, rows))
  <1>1. PICK keys, answer : /\ keys = KeysOf(schema, s, rows)
                            /\ answer = GroupAnswers(schema, s, items, rows)
    OBVIOUS
  <1>2. \A k \in keys :
          answer[k] = RowOfGroup(schema, items, RowsOfGroup(schema, s, rows, k))
    BY <1>1 DEF GroupAnswers
  <1>3. ExecuteGrouped(schema, s, items, rows) =
          Answer(UNION {Range(k) \cup Range(answer[k])
                          \cup Range(CellsOf(schema, OrderExpressions(s),
                                       FirstOf(RowsOfGroup(schema, s, rows, k)))) :
                          k \in keys},
                 answer)
    BY <1>1, Zenon DEF ExecuteGrouped, KeysOf, GroupAnswers
  <1>4. {Range(k) \cup Range(answer[k])
           \cup Range(CellsOf(schema, OrderExpressions(s),
                        FirstOf(RowsOfGroup(schema, s, rows, k)))) : k \in keys}
          = {GroupCells(schema, s, items, rows, k) : k \in keys}
    BY <1>2 DEF GroupCells
  <1>5. QED BY <1>1, <1>3, <1>4

LEMMA GroupRead ==
    ASSUME NEW schema, NEW s, NEW rows, Read(schema, s, rows),
           NEW k \in KeysOf(schema, s, rows)
    PROVE  LET group == RowsOfGroup(schema, s, rows, k)
           IN  /\ Read(schema, s, group) /\ DOMAIN group # {}
               /\ \A i \in DOMAIN group :
                    i \in DOMAIN rows /\ group[i] = rows[i]
                      /\ GroupKey(schema, s, group[i]) = k
  <1>1. PICK T, group : /\ T = {j \in DOMAIN rows : GroupKey(schema, s, rows[j]) = k}
                        /\ group = RowsOfGroup(schema, s, rows, k)
    OBVIOUS
  <1>2. group = [i \in T |-> rows[i]]
    BY <1>1, GroupIs
  <1>3. T \subseteq DOMAIN rows /\ T # {}
    BY <1>1 DEF KeysOf
  <1>4. Read(schema, s, group)
    BY <1>2, <1>3, PartRead
  <1>5. DOMAIN group = T /\ \A i \in T : group[i] = rows[i]
    BY <1>2
  <1>6. QED BY <1>1, <1>3, <1>4, <1>5

LEMMA AnswerRuns ==
    ASSUME NEW cells, NEW rows, Thrown \notin cells
    PROVE  Answer(cells, rows).kind = "ok"
  BY DEF Answer, Outcome

(* The expressions that a plain SELECT evaluates on each row.              *)
PlainExpressions(schema, s, items) ==
    items \o (IF RequiresKeyAsc(schema, s) THEN <<>> ELSE OrderExpressions(s))

LEMMA PlainIs ==
    ASSUME NEW schema, NEW s, NEW items, NEW rows
    PROVE  ExecutePlain(schema, s, items, rows) =
             Answer(AllCells(schema, PlainExpressions(schema, s, items), rows),
                    [i \in DOMAIN rows |-> CellsOf(schema, items, rows[i])])
  BY Zenon DEF ExecutePlain, PlainExpressions

LEMMA PlainExpressionsAre ==
    ASSUME NEW schema, IsSchema(schema), NEW s, IsSelect(s),
           NEW items, items = ExpandItems(schema, s.items),
           \A i \in DOMAIN items : ~IsAggregate(items[i])
    PROVE  /\ \A i \in DOMAIN items : items[i] \in ExpressionsOf(schema, s)
           /\ \A i \in DOMAIN PlainExpressions(schema, s, items) :
                PlainExpressions(schema, s, items)[i] \in ExpressionsOf(schema, s)
  <1>1. PICK sort : sort = IF RequiresKeyAsc(schema, s) THEN <<>> ELSE OrderExpressions(s)
    OBVIOUS
  <1>2. \A i \in DOMAIN items : items[i] \in ExpressionsOf(schema, s)
    BY ExpressionsAre DEF ArgumentOf
  <1>3. /\ Len(sort) \in Nat /\ DOMAIN sort = 1 .. Len(sort)
        /\ \A i \in DOMAIN sort : sort[i] \in ExpressionsOf(schema, s)
    <2>1. CASE RequiresKeyAsc(schema, s)
      BY <1>1, <2>1
    <2>2. CASE ~RequiresKeyAsc(schema, s)
      <3>1. Len(s.order_by) \in Nat /\ DOMAIN s.order_by = 1 .. Len(s.order_by)
        BY DEF IsSelect, IsSequence
      <3>2. Len(sort) \in Nat /\ DOMAIN sort = 1 .. Len(sort)
        BY <1>1, <2>2, <3>1 DEF OrderExpressions
      <3>3. QED BY <1>1, <2>2, <3>2, ExpressionsAre
    <2>3. QED BY <2>1, <2>2
  <1>4. Len(items) \in Nat /\ DOMAIN items = 1 .. Len(items)
    BY ItemsAre, LenProperties
  <1>5. items \in Seq(ExpressionsOf(schema, s)) /\ sort \in Seq(ExpressionsOf(schema, s))
    <2>1. items \in Seq(ItemsOf(s))
      BY ItemsAre
    <2>2. items \in Seq(Range(items)) /\ Range(items) \subseteq ExpressionsOf(schema, s)
      BY <1>2, <2>1, SeqOfRange DEF Range
    <2>3. items \in Seq(ExpressionsOf(schema, s))
      BY <2>2, SeqMonotonic
    <2>4. sort = [i \in DOMAIN sort |-> sort[i]]
      <3>1. CASE RequiresKeyAsc(schema, s)
        <4>1. sort = <<>>
          BY <1>1, <3>1
        <4>2. <<>> = [i \in DOMAIN <<>> |-> <<>>[i]]
          OBVIOUS
        <4>3. QED BY <4>1, <4>2
      <3>2. CASE ~RequiresKeyAsc(schema, s)
        <4>1. sort = [i \in DOMAIN s.order_by |-> s.order_by[i].expression]
          BY <1>1, <3>2 DEF OrderExpressions
        <4>2. QED BY <4>1
      <3>3. QED BY <3>1, <3>2
    <2>5. sort \in Seq(ExpressionsOf(schema, s))
      <3>1. sort = [i \in 1 .. Len(sort) |-> sort[i]]
        BY <1>3, <2>4
      <3>2. QED BY <1>3, <3>1
    <2>6. QED BY <2>3, <2>5
  <1>6. PICK all : all = items \o sort
    OBVIOUS
  <1>7. all \in Seq(ExpressionsOf(schema, s))
    BY <1>5, <1>6, ConcatProperties
  <1>8. \A i \in DOMAIN all : all[i] \in ExpressionsOf(schema, s)
    BY <1>7, LenProperties, ElementOfSeq
  <1>9. PlainExpressions(schema, s, items) = all
    BY <1>1, <1>6 DEF PlainExpressions
  <1>10. QED BY <1>2, <1>8, <1>9

LEMMA PlainRuns ==
    ASSUME NEW schema, IsSchema(schema), NEW s, IsSelect(s), SelectBinds(schema, s),
           NEW rows, Read(schema, s, rows), AllWellTyped(schema, s),
           NEW items, items = ExpandItems(schema, s.items),
           \A i \in DOMAIN items : ~IsAggregate(items[i])
    PROVE  ExecutePlain(schema, s, items, rows).kind = "ok"
  <1>1. PICK all : all = PlainExpressions(schema, s, items)
    OBVIOUS
  <1>2. \A i \in DOMAIN all : all[i] \in ExpressionsOf(schema, s)
    BY <1>1, PlainExpressionsAre
  <1>3. Thrown \notin AllCells(schema, all, rows)
    BY <1>2, AllCellsRun
  <1>4. QED BY <1>1, <1>3, PlainIs, AnswerRuns

LEMMA GroupedRuns ==
    ASSUME NEW schema, IsSchema(schema), NEW s, IsSelect(s), SelectBinds(schema, s),
           NEW rows, Read(schema, s, rows), AllWellTyped(schema, s),
           NEW items, items = ExpandItems(schema, s.items)
    PROVE  ExecuteGrouped(schema, s, items, rows).kind = "ok"
  <1>1. ASSUME NEW k \in KeysOf(schema, s, rows)
        PROVE  Thrown \notin GroupCells(schema, s, items, rows, k)
    <2>1. PICK group : group = RowsOfGroup(schema, s, rows, k)
      OBVIOUS
    <2>2. Read(schema, s, group) /\ DOMAIN group # {}
      BY <2>1, GroupRead
    <2>3. Thrown \notin Range(k)
      <3>1. PICK i \in DOMAIN rows : k = GroupKey(schema, s, rows[i])
        BY DEF KeysOf
      <3>2. Readable(schema, s, rows[i])
        BY DEF Read
      <3>3. QED BY <3>1, <3>2, CellsRun, ExpressionsAre DEF GroupKey
    <2>4. Thrown \notin Range(RowOfGroup(schema, items, group))
      BY <2>2, RowOfGroupRuns
    <2>5. Thrown \notin Range(CellsOf(schema, OrderExpressions(s), FirstOf(group)))
      <3>1. PICK i \in DOMAIN group : FirstOf(group) = group[i]
        BY <2>2, FirstIsARow
      <3>2. Readable(schema, s, FirstOf(group))
        BY <2>2, <3>1 DEF Read
      <3>3. QED BY <3>2, CellsRun, ExpressionsAre
    <2>6. QED BY <2>1, <2>3, <2>4, <2>5 DEF GroupCells
  <1>2. Thrown \notin UNION {GroupCells(schema, s, items, rows, k) :
                               k \in KeysOf(schema, s, rows)}
    BY <1>1
  <1>3. QED BY <1>2, GroupedIs, AnswerRuns

(* An accepted and well typed SELECT runs on rows it can read.             *)
LEMMA ExecuteRuns ==
    ASSUME NEW schema, IsSchema(schema), NEW s, IsSelect(s), SelectBinds(schema, s),
           NEW rows, Read(schema, s, rows), AllWellTyped(schema, s)
    PROVE  ExecuteOn(schema, s, rows).kind = "ok"
  <1>1. PICK items, passed : /\ items = ExpandItems(schema, s.items)
                             /\ passed = Passed(schema, s, rows)
    OBVIOUS
  <1>2. Thrown \notin AllCells(schema, s.where, rows)
    BY AllCellsRun, ExpressionsAre
  <1>3. Read(schema, s, passed)
    <2>1. PassedPlaces(schema, s, rows) \subseteq DOMAIN rows
      BY DEF PassedPlaces
    <2>2. QED BY <1>1, <2>1, PartRead DEF Passed
  <1>4. CASE s.group_by # <<>>
    <2>1. ExecuteOn(schema, s, rows) = ExecuteGrouped(schema, s, items, passed)
      BY <1>1, <1>2, <1>4, PassedIs
    <2>2. QED BY <1>1, <1>3, <2>1, GroupedRuns
  <1>5. CASE s.group_by = <<>> /\ \E i \in DOMAIN items : IsAggregate(items[i])
    <2>1. \A i \in DOMAIN items : IsAggregate(items[i])
      BY <1>1, <1>5 DEF SelectBinds, ValidGrouping
    <2>2. ExecuteOn(schema, s, rows) = ExecuteGlobal(schema, items, passed)
      BY <1>1, <1>2, <1>5, PassedIs
    <2>3. Thrown \notin Range(RowOfGroup(schema, items, passed))
      BY <1>1, <1>3, <2>1, RowOfGroupRuns
    <2>4. QED BY <2>2, <2>3, AnswerRuns DEF ExecuteGlobal
  <1>6. CASE s.group_by = <<>> /\ ~ \E i \in DOMAIN items : IsAggregate(items[i])
    <2>1. ExecuteOn(schema, s, rows) = ExecutePlain(schema, s, items, passed)
      BY <1>1, <1>2, <1>6, PassedIs
    <2>2. QED BY <1>1, <1>3, <1>6, <2>1, PlainRuns
  <1>7. QED BY <1>4, <1>5, <1>6

(* What is asked for of the rows of the tree.                              *)
ReadPlaces(tree, plan, projection) ==
    {i \in DOMAIN Shown(tree, projection) :
       InRange(Plan!PlanRange(plan), Shown(tree, projection)[i])}

LEMMA ReadTreeIs ==
    ASSUME NEW tree, NEW plan, NEW projection
    PROVE  ReadTree(tree, plan, projection) =
             [i \in ReadPlaces(tree, plan, projection) |-> Shown(tree, projection)[i]]
  BY Zenon DEF ReadTree, ReadPlaces, Shown, RestrictValues, Restrict

LEMMA ShownLike ==
    ASSUME NEW tree, IsTree(tree), NEW s, NEW projection,
           projection = Projection(tree.schema, s)
    PROVE  /\ DOMAIN Shown(tree, projection) = DOMAIN RowsOf(tree)
           /\ \A i \in DOMAIN RowsOf(tree) :
                /\ RowFits(tree.schema, RowsOf(tree)[i])
                /\ LooksLike(tree.schema, s, Shown(tree, projection)[i], RowsOf(tree)[i])
  <1>1. projection \subseteq DOMAIN tree.schema
    BY ColumnsInSchema DEF Projection
  <1>2. /\ DOMAIN Shown(tree, projection) = DOMAIN RowsOf(tree)
        /\ \A i \in DOMAIN RowsOf(tree) :
             /\ RowFits(tree.schema, RowsOf(tree)[i])
             /\ \A c \in {1} \cup projection :
                  Shown(tree, projection)[i][c] = RowsOf(tree)[i][c]
    BY <1>1, ShownIs
  <1>3. QED BY <1>2 DEF LooksLike

LEMMA TreePlaces ==
    ASSUME NEW tree, IsTree(tree)
    PROVE  DOMAIN RowsOf(tree) \subseteq Int /\ IsFiniteSet(DOMAIN RowsOf(tree))
  <1>1. PICK n \in Nat : DOMAIN RowsOf(tree) = 1 .. n
    BY ShownIs
  <1>2. IsFiniteSet(1 .. n)
    BY FS_Interval
  <1>3. QED BY <1>1, <1>2

LEMMA ReadTreeRead ==
    ASSUME NEW tree, IsTree(tree), NEW s, IsSelect(s), SelectBinds(tree.schema, s), NEW plan
    PROVE  Read(tree.schema, s, ReadTree(tree, plan, Projection(tree.schema, s)))
  <1>1. PICK schema, projection, shown, places :
          /\ schema = tree.schema /\ projection = Projection(schema, s)
          /\ shown = Shown(tree, projection)
          /\ places = ReadPlaces(tree, plan, projection)
    OBVIOUS
  <1>2. IsSchema(schema)
    BY <1>1, TreeIs
  <1>3. /\ DOMAIN shown = DOMAIN RowsOf(tree)
        /\ \A i \in DOMAIN RowsOf(tree) :
             /\ RowFits(schema, RowsOf(tree)[i])
             /\ LooksLike(schema, s, shown[i], RowsOf(tree)[i])
    BY <1>1, ShownLike
  <1>4. \A i \in DOMAIN shown : Readable(schema, s, shown[i])
    BY <1>1, <1>2, <1>3, LikeFitting
  <1>5. Read(schema, s, shown)
    BY <1>3, <1>4, TreePlaces DEF Read
  <1>6. places \subseteq DOMAIN shown
    BY <1>1 DEF ReadPlaces
  <1>7. Read(schema, s, [i \in places |-> shown[i]])
    BY <1>5, <1>6, PartRead
  <1>8. ReadTree(tree, plan, projection) = [i \in places |-> shown[i]]
    BY <1>1, ReadTreeIs
  <1>9. QED BY <1>1, <1>7, <1>8

LEMMA NothingRead ==
    ASSUME NEW schema, NEW s
    PROVE  Read(schema, s, <<>>)
  BY FS_EmptySet DEF Read

(* A SELECT the binder accepts runs to its end on the tree, if its         *)
(* expressions are well typed and compare the key with INT64 only.         *)
THEOREM WellTypedRuns == StmtSpec => []WellTypedSelectRuns
  <1>1. StmtInv => WellTypedSelectRuns
    <2> SUFFICES ASSUME StmtInv, SelectRan,
                        AllWellTyped(trees[last.request.table].schema, last.request),
                        ~KeyAgainstOther(trees[last.request.table].schema, last.request)
                 PROVE  last.lsm.kind = "ok"
      BY DEF WellTypedSelectRuns
    <2>1. PICK s, tree, schema : /\ s = last.request /\ tree = trees[s.table]
                                 /\ schema = tree.schema
      OBVIOUS
    <2>2. /\ IsSelect(s) /\ IsTree(tree) /\ IsSchema(schema) /\ SelectBinds(schema, s)
          /\ last.lsm = SelectFromTree(tree, s)
      BY <2>1, SelectIs
    <2>3. AllWellTyped(schema, s) /\ ~KeyAgainstOther(schema, s)
      BY <2>1
    <2>4. PICK plan, projection : /\ plan = PlanOf(schema, s)
                                  /\ projection = Projection(schema, s)
      OBVIOUS
    <2>5. ~plan.failed
      <3>1. PlanFits(plan, KeyAgainstOther(schema, s))
        BY <2>2, <2>4, PlanOfFits
      <3>2. QED BY <2>3, <3>1 DEF PlanFits
    <2>6. ValidProjection(schema, projection)
      BY <2>4, ColumnsInSchema DEF Projection, ValidProjection
    <2>7. last.lsm = IF plan.empty THEN ExecuteOn(schema, s, <<>>)
                     ELSE ExecuteOn(schema, s, ReadTree(tree, plan, projection))
      BY <2>1, <2>2, <2>4, <2>5, <2>6 DEF SelectFromTree
    <2>8. ExecuteOn(schema, s, <<>>).kind = "ok"
      BY <2>2, <2>3, NothingRead, ExecuteRuns
    <2>9. ExecuteOn(schema, s, ReadTree(tree, plan, projection)).kind = "ok"
      BY <2>1, <2>2, <2>3, <2>4, ReadTreeRead, ExecuteRuns
    <2>10. QED BY <2>7, <2>8, <2>9
  <1>2. QED BY <1>1, StatementsInvariant, PTL

-----------------------------------------------------------------------------
(* The two engines bring the same rows, from other places and in another   *)
(* order.                                                                  *)

LEMMA MatchedPart ==
    ASSUME NEW f, NEW g, NEW h, Matched(f, g, h),
           NEW T, T \subseteq DOMAIN f, NEW U, U \subseteq DOMAIN g,
           \A i \in DOMAIN f : i \in T <=> h[i] \in U
    PROVE  Matched([i \in T |-> f[i]], [k \in U |-> g[k]], [i \in T |-> h[i]])
  <1>1. PICK a, b, c : /\ a = [i \in T |-> f[i]] /\ b = [k \in U |-> g[k]]
                       /\ c = [i \in T |-> h[i]]
    OBVIOUS
  <1>2. DOMAIN a = T /\ DOMAIN b = U
    BY <1>1
  <1>3. c \in [T -> U]
    BY <1>1
  <1>4. \A i \in T : b[c[i]] = a[i]
    BY <1>1, MatchedIs
  <1>5. \A i, j \in T : c[i] = c[j] => i = j
    BY <1>1, MatchedIs
  <1>6. \A k \in U : \E i \in T : c[i] = k
    <2> TAKE k \in U
    <2>1. PICK i \in DOMAIN f : h[i] = k
      BY MatchedIs
    <2>2. i \in T /\ c[i] = k
      BY <1>1, <2>1
    <2>3. QED BY <2>2
  <1>7. Matched(a, b, c)
    BY <1>2, <1>3, <1>4, <1>5, <1>6, MatchedFrom
  <1>8. QED BY <1>1, <1>7

LEMMA MatchedSizes ==
    ASSUME NEW f, NEW g, NEW h, Matched(f, g, h), IsFiniteSet(DOMAIN f)
    PROVE  IsFiniteSet(DOMAIN g) /\ Cardinality(DOMAIN f) = Cardinality(DOMAIN g)
  <1>1. h \in Bijection(DOMAIN f, DOMAIN g)
    BY DEF Matched
  <1>2. QED BY <1>1, FS_Bijection DEF ExistsBijection

LEMMA MatchedRange ==
    ASSUME NEW f, NEW g, NEW h, Matched(f, g, h)
    PROVE  Range(f) = Range(g)
  <1>1. \A v \in Range(f) : v \in Range(g)
    BY MatchedIs DEF Range
  <1>2. ASSUME NEW v \in Range(g) PROVE v \in Range(f)
    <2>1. PICK k \in DOMAIN g : v = g[k]
      BY DEF Range
    <2>2. PICK i \in DOMAIN f : h[i] = k
      BY MatchedIs
    <2>3. f[i] = v
      BY <2>1, <2>2, MatchedIs
    <2>4. QED BY <2>3 DEF Range
  <1>3. QED BY <1>1, <1>2

(* A sum does not depend on the places of its values.                      *)
LEMMA MatchedSums ==
    ASSUME NEW f, NEW g, NEW h, Matched(f, g, h), Amounts(f), Amounts(g)
    PROVE  Sums(f)[DOMAIN f] = Sums(g)[DOMAIN g]
  <1> DEFINE Image(S) == {h[i] : i \in S}
  <1>1. PICK D, Bad : /\ D = DOMAIN f
                      /\ Bad = {S \in SUBSET D : Sums(f)[S] # Sums(g)[Image(S)]}
    OBVIOUS
  <1>2. \A S \in SUBSET D : Image(S) \in SUBSET DOMAIN g
    BY <1>1, MatchedIs
  <1>3. Bad = {}
    <2>1. SUFFICES ASSUME Bad # {} PROVE FALSE
      OBVIOUS
    <2>2. PICK S \in Bad : \A x \in S : S \ {x} \notin Bad
      <3>1. Bad \subseteq SUBSET D /\ IsFiniteSet(D)
        BY <1>1 DEF Amounts
      <3>2. QED BY <2>1, <3>1, SmallestSet
    <2>3. S \in SUBSET D /\ Sums(f)[S] # Sums(g)[Image(S)]
      BY <1>1, <2>2
    <2>4. CASE S = {}
      <3>1. Image(S) = {}
        BY <2>4
      <3>2. Sums(f)[S] = 0 /\ Sums(g)[Image(S)] = 0
        BY <2>4, <3>1, SumOfNothing
      <3>3. QED BY <2>3, <3>2
    <2>5. CASE S # {}
      <3>1. PICK x \in S : TRUE
        BY <2>5
      <3>2. PICK rest, image, less : /\ rest = S \ {x} /\ image = Image(S)
                                     /\ less = Image(rest)
        OBVIOUS
      <3>3. image \ {h[x]} = less
        <4>1. \A i \in S : h[i] = h[x] => i = x
          BY <1>1, <2>3, <3>1, MatchedIs
        <4>2. QED BY <3>1, <3>2, <4>1
      <3>4. rest \in SUBSET D /\ rest \notin Bad
        BY <2>2, <2>3, <3>1, <3>2
      <3>5. Sums(f)[rest] = Sums(g)[less]
        BY <1>1, <3>2, <3>4
      <3>6. S \in SUBSET DOMAIN f /\ image \in SUBSET DOMAIN g /\ h[x] \in image
        BY <1>1, <1>2, <2>3, <3>1, <3>2
      <3>7. Sums(f)[S] = Number(f[x]) + Sums(f)[rest]
        BY <3>1, <3>2, <3>6, SumWithout
      <3>8. Sums(g)[image] = Number(g[h[x]]) + Sums(g)[image \ {h[x]}]
        BY <3>6, SumWithout
      <3>9. g[h[x]] = f[x]
        BY <3>1, <3>6, MatchedIs
      <3>10. QED BY <2>3, <3>2, <3>3, <3>5, <3>7, <3>8, <3>9
    <2>6. QED BY <2>4, <2>5
  <1>4. Image(D) = DOMAIN g
    <2>1. Image(D) \subseteq DOMAIN g
      BY <1>1, <1>2
    <2>2. \A k \in DOMAIN g : \E i \in D : h[i] = k
      BY <1>1, MatchedIs
    <2>3. QED BY <2>1, <2>2
  <1>5. D \notin Bad
    BY <1>3
  <1>6. Sums(f)[D] = Sums(g)[Image(D)]
    BY <1>1, <1>5
  <1>7. QED BY <1>1, <1>4, <1>6

LEMMA NumbersAre ==
    ASSUME NEW type, NEW cell, IsCell(type, cell)
    PROVE  /\ Numbers(cell) \subseteq Int
           /\ Numbers(cell) = {} \/ \E n \in Numbers(cell) : Numbers(cell) = {n}
  <1>1. CASE cell = Null
    BY <1>1 DEF Numbers, Null
  <1>2. CASE cell # Null
    <2>1. PICK n \in Int : cell = Cell(type, n)
      BY <1>2, FilledCell
    <2>2. cell = {[type |-> type, value |-> n]}
      BY <2>1 DEF Cell
    <2>3. Numbers(cell) = {n}
      BY <2>2 DEF Numbers
    <2>4. QED BY <2>3
  <1>3. QED BY <1>1, <1>2

LEMMA NumbersAmount ==
    ASSUME NEW type, NEW cells, IsFiniteSet(DOMAIN cells),
           \A i \in DOMAIN cells : IsCell(type, cells[i])
    PROVE  Amounts(NumbersIn(cells))
  <1>1. PICK of : of = NumbersIn(cells)
    OBVIOUS
  <1>2. of = [i \in DOMAIN cells |-> Numbers(cells[i])]
    BY <1>1 DEF NumbersIn
  <1>3. DOMAIN of = DOMAIN cells /\ of = [i \in DOMAIN of |-> of[i]]
    BY <1>2
  <1>4. ASSUME NEW i \in DOMAIN of
        PROVE  of[i] \subseteq Int /\ (of[i] = {} \/ \E n \in of[i] : of[i] = {n})
    <2>1. of[i] = Numbers(cells[i]) /\ IsCell(type, cells[i])
      BY <1>2, <1>3
    <2>2. QED BY <2>1, NumbersAre
  <1>5. Amounts(of)
    BY <1>3, <1>4 DEF Amounts
  <1>6. QED BY <1>1, <1>5

(* What an aggregate is made of.                                           *)
OfNumbers(kind, type, count, values, sum) ==
    CASE kind = "SUM" -> Cell(type, IF type = "INT64" THEN Wrap(sum) ELSE sum)
      [] kind = "AVG" -> {[type |-> "DOUBLE", value |-> sum, over |-> count]}
      [] kind = "MIN" -> Cell(type, Min(values))
      [] kind = "MAX" -> Cell(type, Max(values))

Summary(kind, type, seen, count, filled, values, sum) ==
    IF \E cell \in seen : cell = Thrown \/ ~Takes(kind, type, cell) THEN Thrown
    ELSE IF kind = "COUNT" THEN Cell("INT64", count)
    ELSE IF filled = {} THEN Null
    ELSE OfNumbers(kind, type, count, values, sum)

LEMMA AggregateSummary ==
    ASSUME NEW kind, NEW type, NEW cells
    PROVE  AggregateOf(kind, type, cells) =
             Summary(kind, type, Range(cells), Cardinality(Filled(cells)), Filled(cells),
                     UNION Range(NumbersIn(cells)), Sums(NumbersIn(cells))[DOMAIN cells])
  BY AggregateIs, Zenon DEF Summary, OfNumbers

LEMMA SameSummary ==
    ASSUME NEW kind, NEW type, NEW seen, NEW count, NEW filled, NEW others, NEW values,
           NEW sum, NEW other, filled = {} <=> others = {}, kind # "COUNT" => sum = other
    PROVE  Summary(kind, type, seen, count, filled, values, sum) =
             Summary(kind, type, seen, count, others, values, other)
  <1>1. CASE \E cell \in seen : cell = Thrown \/ ~Takes(kind, type, cell)
    BY <1>1, Zenon DEF Summary
  <1>2. CASE ~ \E cell \in seen : cell = Thrown \/ ~Takes(kind, type, cell)
    <2>1. CASE kind = "COUNT"
      BY <1>2, <2>1, Zenon DEF Summary
    <2>2. CASE kind # "COUNT" /\ filled = {}
      BY <1>2, <2>2, Zenon DEF Summary
    <2>3. CASE kind # "COUNT" /\ filled # {}
      <3>1. sum = other /\ others # {}
        BY <2>3
      <3>2. QED BY <1>2, <2>3, <3>1, Zenon DEF Summary
    <2>4. QED BY <2>1, <2>2, <2>3
  <1>3. QED BY <1>1, <1>2

(* Nor does an aggregate.                                                  *)
LEMMA AggregateMatched ==
    ASSUME NEW kind \in Aggregates, NEW type,
           NEW f, NEW g, NEW h, Matched(f, g, h), IsFiniteSet(DOMAIN f),
           kind # "COUNT" => \A i \in DOMAIN f : IsCell(type, f[i])
    PROVE  AggregateOf(kind, type, f) = AggregateOf(kind, type, g)
  <1>1. Range(f) = Range(g)
    BY MatchedRange
  <1>2. Cardinality(Filled(f)) = Cardinality(Filled(g)) /\ (Filled(f) = {} <=> Filled(g) = {})
    <2>1. PICK T, U : T = Filled(f) /\ U = Filled(g)
      OBVIOUS
    <2>2. T \subseteq DOMAIN f /\ U \subseteq DOMAIN g
      BY <2>1 DEF Filled
    <2>3. \A i \in DOMAIN f : i \in T <=> h[i] \in U
      BY <2>1, MatchedIs DEF Filled
    <2>4. PICK a, b, c : /\ a = [i \in T |-> f[i]] /\ b = [k \in U |-> g[k]]
                         /\ c = [i \in T |-> h[i]]
      OBVIOUS
    <2>5. Matched(a, b, c) /\ DOMAIN a = T /\ DOMAIN b = U
      BY <2>2, <2>3, <2>4, MatchedPart
    <2>6. IsFiniteSet(T)
      BY <2>2, FS_Subset
    <2>7. Cardinality(T) = Cardinality(U)
      BY <2>5, <2>6, MatchedSizes
    <2>8. T = {} <=> U = {}
      BY <2>5, MatchedIs
    <2>9. QED BY <2>1, <2>7, <2>8
  <1>3. PICK a, b : a = NumbersIn(f) /\ b = NumbersIn(g)
    OBVIOUS
  <1>4. DOMAIN a = DOMAIN f /\ DOMAIN b = DOMAIN g
    BY <1>3 DEF NumbersIn
  <1>5. Matched(a, b, h)
    <2>1. \A i \in DOMAIN f : b[h[i]] = a[i]
      BY <1>3, MatchedIs DEF NumbersIn
    <2>2. QED BY <1>4, <2>1 DEF Matched
  <1>6. UNION Range(a) = UNION Range(b)
    BY <1>5, MatchedRange
  <1>7. kind # "COUNT" => Sums(a)[DOMAIN f] = Sums(b)[DOMAIN g]
    <2> SUFFICES ASSUME kind # "COUNT" PROVE Sums(a)[DOMAIN f] = Sums(b)[DOMAIN g]
      OBVIOUS
    <2>1. Amounts(a)
      BY <1>3, NumbersAmount
    <2>2. \A k \in DOMAIN g : IsCell(type, g[k])
      BY <1>1 DEF Range
    <2>3. IsFiniteSet(DOMAIN g)
      BY MatchedSizes
    <2>4. Amounts(b)
      BY <1>3, <2>2, <2>3, NumbersAmount
    <2>5. QED BY <1>4, <1>5, <2>1, <2>4, MatchedSums
  <1>8. PICK seen, count, values : /\ seen = Range(f) /\ count = Cardinality(Filled(f))
                                   /\ values = UNION Range(a)
    OBVIOUS
  <1>9. PICK sum, other : sum = Sums(a)[DOMAIN f] /\ other = Sums(b)[DOMAIN g]
    OBVIOUS
  <1>10. AggregateOf(kind, type, f) = Summary(kind, type, seen, count, Filled(f), values, sum)
    BY <1>3, <1>8, <1>9, AggregateSummary
  <1>11. AggregateOf(kind, type, g) = Summary(kind, type, seen, count, Filled(g), values, other)
    BY <1>1, <1>2, <1>3, <1>6, <1>8, <1>9, AggregateSummary
  <1>12. kind # "COUNT" => sum = other
    BY <1>7, <1>9
  <1>13. QED BY <1>2, <1>10, <1>11, <1>12, SameSummary

(* The SELECT cannot tell two rows apart.                                  *)
SameValues(schema, s, row, other) ==
    \A e \in ExpressionsOf(schema, s) :
      Evaluate(schema, row)[e] = Evaluate(schema, other)[e]

(* Nor two results of a read, but for the places of the rows.              *)
Alike(schema, s, f, g, h) ==
    /\ Read(schema, s, f) /\ Read(schema, s, g)
    /\ h \in Bijection(DOMAIN f, DOMAIN g)
    /\ \A i \in DOMAIN f : SameValues(schema, s, f[i], g[h[i]])

LEMMA AlikeIs ==
    ASSUME NEW schema, NEW s, NEW f, NEW g, NEW h, Alike(schema, s, f, g, h)
    PROVE  /\ \A i \in DOMAIN f :
                h[i] \in DOMAIN g /\ SameValues(schema, s, f[i], g[h[i]])
           /\ \A k \in DOMAIN g : \E i \in DOMAIN f : h[i] = k
  BY DEF Alike, Bijection, Injection, Surjection

(* Whatever has the same values in both.                                   *)
LEMMA AlikeMatched ==
    ASSUME NEW schema, NEW s, NEW f, NEW g, NEW h, Alike(schema, s, f, g, h),
           NEW a, DOMAIN a = DOMAIN f, NEW b, DOMAIN b = DOMAIN g,
           \A i \in DOMAIN f : b[h[i]] = a[i]
    PROVE  Matched(a, b, h) /\ IsFiniteSet(DOMAIN a)
  BY DEF Alike, Matched, Read

LEMMA AlikePart ==
    ASSUME NEW schema, NEW s, NEW f, NEW g, NEW h, Alike(schema, s, f, g, h),
           NEW T, T \subseteq DOMAIN f, NEW U, U \subseteq DOMAIN g,
           \A i \in DOMAIN f : i \in T <=> h[i] \in U
    PROVE  Alike(schema, s, [i \in T |-> f[i]], [k \in U |-> g[k]], [i \in T |-> h[i]])
  <1>1. PICK a, b, c : /\ a = [i \in T |-> f[i]] /\ b = [k \in U |-> g[k]]
                       /\ c = [i \in T |-> h[i]]
    OBVIOUS
  <1>2. Read(schema, s, a) /\ Read(schema, s, b)
    BY <1>1, PartRead DEF Alike
  <1>3. c \in Bijection(T, U)
    <2>1. PICK x, y : x = [i \in DOMAIN f |-> 0] /\ y = [k \in DOMAIN g |-> 0]
      OBVIOUS
    <2>2. Matched(x, y, h)
      <3>1. \A i \in DOMAIN f : y[h[i]] = x[i]
        BY <2>1, AlikeIs
      <3>2. QED BY <2>1, <3>1, AlikeMatched
    <2>3. DOMAIN x = DOMAIN f /\ DOMAIN y = DOMAIN g
      BY <2>1
    <2>4. PICK m, n : m = [i \in T |-> x[i]] /\ n = [k \in U |-> y[k]]
      OBVIOUS
    <2>5. Matched(m, n, c)
      BY <1>1, <2>2, <2>3, <2>4, MatchedPart
    <2>6. DOMAIN m = T /\ DOMAIN n = U
      BY <2>4
    <2>7. QED BY <2>5, <2>6 DEF Matched
  <1>4. \A i \in T : SameValues(schema, s, a[i], b[c[i]])
    BY <1>1, AlikeIs
  <1>5. DOMAIN a = T /\ DOMAIN b = U
    BY <1>1
  <1>6. Alike(schema, s, a, b, c)
    BY <1>2, <1>3, <1>4, <1>5 DEF Alike
  <1>7. QED BY <1>1, <1>6

LEMMA SameCells ==
    ASSUME NEW schema, NEW s, NEW row, NEW other, SameValues(schema, s, row, other),
           NEW exprs, \A i \in DOMAIN exprs : exprs[i] \in ExpressionsOf(schema, s)
    PROVE  CellsOf(schema, exprs, row) = CellsOf(schema, exprs, other)
  BY DEF CellsOf, SameValues

LEMMA AlikeAllCells ==
    ASSUME NEW schema, NEW s, NEW f, NEW g, NEW h, Alike(schema, s, f, g, h),
           NEW exprs, \A i \in DOMAIN exprs : exprs[i] \in ExpressionsOf(schema, s)
    PROVE  AllCells(schema, exprs, f) = AllCells(schema, exprs, g)
  <1>1. \A i \in DOMAIN f : h[i] \in DOMAIN g
                              /\ CellsOf(schema, exprs, f[i]) = CellsOf(schema, exprs, g[h[i]])
    BY AlikeIs, SameCells
  <1>2. PICK A, B : /\ A = {Range(CellsOf(schema, exprs, f[i])) : i \in DOMAIN f}
                    /\ B = {Range(CellsOf(schema, exprs, g[k])) : k \in DOMAIN g}
    OBVIOUS
  <1>3. A \subseteq B
    BY <1>1, <1>2
  <1>4. B \subseteq A
    <2> SUFFICES ASSUME NEW k \in DOMAIN g
                 PROVE  Range(CellsOf(schema, exprs, g[k])) \in A
      BY <1>2
    <2>1. PICK i \in DOMAIN f : h[i] = k
      BY AlikeIs
    <2>2. CellsOf(schema, exprs, f[i]) = CellsOf(schema, exprs, g[k])
      BY <1>1, <2>1
    <2>3. QED BY <1>2, <2>2
  <1>5. QED BY <1>2, <1>3, <1>4 DEF AllCells

LEMMA AlikePassed ==
    ASSUME NEW schema, NEW s, NEW f, NEW g, NEW h, Alike(schema, s, f, g, h)
    PROVE  \E part : Alike(schema, s, Passed(schema, s, f), Passed(schema, s, g), part)
  <1>1. PICK T, U : T = PassedPlaces(schema, s, f) /\ U = PassedPlaces(schema, s, g)
    OBVIOUS
  <1>2. T \subseteq DOMAIN f /\ U \subseteq DOMAIN g
    BY <1>1 DEF PassedPlaces
  <1>3. ASSUME NEW i \in DOMAIN f PROVE i \in T <=> h[i] \in U
    <2>1. h[i] \in DOMAIN g /\ SameValues(schema, s, f[i], g[h[i]])
      BY AlikeIs
    <2>2. CellsOf(schema, s.where, f[i]) = CellsOf(schema, s.where, g[h[i]])
      BY <2>1, ExpressionsAre, SameCells
    <2>3. QED BY <1>1, <2>1, <2>2 DEF PassedPlaces
  <1>4. Alike(schema, s, [i \in T |-> f[i]], [k \in U |-> g[k]], [i \in T |-> h[i]])
    BY <1>2, <1>3, AlikePart
  <1>5. QED BY <1>1, <1>4 DEF Passed

LEMMA SameAnswer ==
    ASSUME NEW cells, NEW f, NEW g, SameRows(f, g)
    PROVE  SameOutcome(Answer(cells, f), Answer(cells, g))
  BY SameItself DEF Answer, SameRows

LEMMA AlikePlain ==
    ASSUME NEW schema, IsSchema(schema), NEW s, IsSelect(s),
           NEW f, NEW g, NEW h, Alike(schema, s, f, g, h),
           NEW items, items = ExpandItems(schema, s.items),
           \A i \in DOMAIN items : ~IsAggregate(items[i])
    PROVE  SameOutcome(ExecutePlain(schema, s, items, f), ExecutePlain(schema, s, items, g))
  <1>1. PICK all : all = PlainExpressions(schema, s, items)
    OBVIOUS
  <1>2. /\ \A i \in DOMAIN items : items[i] \in ExpressionsOf(schema, s)
        /\ \A i \in DOMAIN all : all[i] \in ExpressionsOf(schema, s)
    BY <1>1, PlainExpressionsAre
  <1>3. AllCells(schema, all, f) = AllCells(schema, all, g)
    BY <1>2, AlikeAllCells
  <1>4. PICK a, b : /\ a = [i \in DOMAIN f |-> CellsOf(schema, items, f[i])]
                    /\ b = [k \in DOMAIN g |-> CellsOf(schema, items, g[k])]
    OBVIOUS
  <1>5. \A i \in DOMAIN f : b[h[i]] = a[i]
    BY <1>2, <1>4, AlikeIs, SameCells
  <1>6. Matched(a, b, h) /\ IsFiniteSet(DOMAIN a)
    BY <1>4, <1>5, AlikeMatched
  <1>7. SameRows(a, b)
    BY <1>6, MatchedRows
  <1>8. /\ ExecutePlain(schema, s, items, f) = Answer(AllCells(schema, all, f), a)
        /\ ExecutePlain(schema, s, items, g) = Answer(AllCells(schema, all, g), b)
    BY <1>1, <1>4, PlainIs
  <1>9. QED BY <1>3, <1>7, <1>8, SameAnswer

(* Only a column or a literal can be a number.                             *)
LEMMA NumberTyped ==
    ASSUME NEW schema, IsSchema(schema), NEW e \in Expressions, Binds(schema, e),
           TypeOf(schema, e) \in {"INT64", "DOUBLE"}
    PROVE  WellTyped(schema, e)
  <1>1. e.kind \in {"column"} \cup Literals
    BY TypeIs
  <1>2. Operands(e) = {}
    BY <1>1, OperandsAre DEF Literals
  <1>3. Parts[e] = {e}
    BY <1>2, PartsAre
  <1>4. e.kind \notin {"AND", "OR", "NOT"} \cup Comparisons
    BY <1>1 DEF Literals, Comparisons
  <1>5. QED BY <1>3, <1>4 DEF WellTyped

LEMMA AlikeAggregate ==
    ASSUME NEW schema, IsSchema(schema), NEW s, IsSelect(s), SelectBinds(schema, s),
           NEW f, NEW g, NEW h, Alike(schema, s, f, g, h),
           NEW items, items = ExpandItems(schema, s.items),
           NEW i \in DOMAIN items, IsAggregate(items[i])
    PROVE  RowOfGroup(schema, items, f)[i] = RowOfGroup(schema, items, g)[i]
  <1>1. PICK kind, e, type : /\ kind = items[i].kind /\ e = items[i].arg
                             /\ type = TypeOf(schema, e)
    OBVIOUS
  <1>2. kind \in Aggregates /\ e \in ExpressionsOf(schema, s)
    <2>1. ArgumentOf(items[i]) \in ExpressionsOf(schema, s)
      BY ExpressionsAre
    <2>2. QED BY <1>1, <2>1 DEF ArgumentOf, IsAggregate
  <1>3. e \in Expressions /\ Binds(schema, e)
    BY <1>2, ExpressionsBind
  <1>4. PICK a, b : /\ a = [r \in DOMAIN f |-> Evaluate(schema, f[r])[e]]
                    /\ b = [r \in DOMAIN g |-> Evaluate(schema, g[r])[e]]
    OBVIOUS
  <1>5. \A r \in DOMAIN f : b[h[r]] = a[r]
    BY <1>2, <1>4, AlikeIs DEF SameValues
  <1>6. Matched(a, b, h) /\ IsFiniteSet(DOMAIN a)
    <2>1. DOMAIN a = DOMAIN f /\ DOMAIN b = DOMAIN g
      BY <1>4
    <2>2. QED BY <1>5, <2>1, AlikeMatched
  <1>7. kind # "COUNT" => \A r \in DOMAIN a : IsCell(type, a[r])
    <2> SUFFICES ASSUME kind # "COUNT", NEW r \in DOMAIN f
                 PROVE  IsCell(type, Evaluate(schema, f[r])[e])
      BY <1>4
    <2>1. BindsItem(schema, items[i])
      BY DEF SelectBinds
    <2>2. AggregateAllowed(kind, type)
      BY <1>1, <2>1 DEF BindsItem
    <2>3. type \in {"INT64", "DOUBLE"}
      BY <2>2 DEF AggregateAllowed
    <2>4. WellTyped(schema, e)
      BY <1>1, <1>3, <2>3, NumberTyped
    <2>5. Readable(schema, s, f[r])
      BY DEF Alike, Read
    <2>6. Yields(type, Evaluate(schema, f[r])[e])
      BY <1>1, <1>2, <2>4, <2>5 DEF Readable
    <2>7. QED BY <2>3, <2>6 DEF Yields
  <1>8. AggregateOf(kind, type, a) = AggregateOf(kind, type, b)
    BY <1>2, <1>6, <1>7, AggregateMatched
  <1>9. /\ RowOfGroup(schema, items, f)[i] = AggregateOf(kind, type, a)
        /\ RowOfGroup(schema, items, g)[i] = AggregateOf(kind, type, b)
    BY <1>1, <1>4 DEF RowOfGroup
  <1>10. QED BY <1>8, <1>9

LEMMA RowOfGroupIs ==
    ASSUME NEW schema, NEW items, NEW rows
    PROVE  RowOfGroup(schema, items, rows) =
             [i \in DOMAIN items |-> RowOfGroup(schema, items, rows)[i]]
  BY DEF RowOfGroup

LEMMA AlikeGlobal ==
    ASSUME NEW schema, IsSchema(schema), NEW s, IsSelect(s), SelectBinds(schema, s),
           NEW f, NEW g, NEW h, Alike(schema, s, f, g, h),
           NEW items, items = ExpandItems(schema, s.items),
           \A i \in DOMAIN items : IsAggregate(items[i])
    PROVE  SameOutcome(ExecuteGlobal(schema, items, f), ExecuteGlobal(schema, items, g))
  <1>1. PICK a, b : /\ a = RowOfGroup(schema, items, f)
                    /\ b = RowOfGroup(schema, items, g)
    OBVIOUS
  <1>2. \A i \in DOMAIN items : a[i] = b[i]
    BY <1>1, AlikeAggregate
  <1>3. a = [i \in DOMAIN items |-> a[i]] /\ b = [i \in DOMAIN items |-> b[i]]
    BY <1>1, RowOfGroupIs
  <1>4. a = b
    BY <1>2, <1>3
  <1>5. ExecuteGlobal(schema, items, f) = ExecuteGlobal(schema, items, g)
    BY <1>1, <1>4 DEF ExecuteGlobal
  <1>6. QED BY <1>5, SameItself

SameAggregates(schema, items, f, g) ==
    \A i \in DOMAIN items : IsAggregate(items[i]) =>
      RowOfGroup(schema, items, f)[i] = RowOfGroup(schema, items, g)[i]

LEMMA AlikeAggregates ==
    ASSUME NEW schema, IsSchema(schema), NEW s, IsSelect(s), SelectBinds(schema, s),
           NEW f, NEW g, NEW h, Alike(schema, s, f, g, h),
           NEW items, items = ExpandItems(schema, s.items)
    PROVE  SameAggregates(schema, items, f, g)
  BY AlikeAggregate DEF SameAggregates

LEMMA AlikeKeys ==
    ASSUME NEW schema, NEW s, NEW f, NEW g, NEW h, Alike(schema, s, f, g, h)
    PROVE  /\ \A i \in DOMAIN f : GroupKey(schema, s, f[i]) = GroupKey(schema, s, g[h[i]])
           /\ KeysOf(schema, s, f) = KeysOf(schema, s, g)
  <1>1. ASSUME NEW i \in DOMAIN f
        PROVE  /\ h[i] \in DOMAIN g
               /\ GroupKey(schema, s, f[i]) = GroupKey(schema, s, g[h[i]])
    <2>1. h[i] \in DOMAIN g /\ SameValues(schema, s, f[i], g[h[i]])
      BY AlikeIs
    <2>2. QED BY <2>1, ExpressionsAre, SameCells DEF GroupKey
  <1>2. KeysOf(schema, s, f) \subseteq KeysOf(schema, s, g)
    BY <1>1 DEF KeysOf
  <1>3. ASSUME NEW k \in DOMAIN g
        PROVE  GroupKey(schema, s, g[k]) \in KeysOf(schema, s, f)
    <2>1. PICK i \in DOMAIN f : h[i] = k
      BY AlikeIs
    <2>2. GroupKey(schema, s, f[i]) = GroupKey(schema, s, g[k])
      BY <1>1, <2>1
    <2>3. QED BY <2>2 DEF KeysOf
  <1>4. KeysOf(schema, s, g) \subseteq KeysOf(schema, s, f)
    BY <1>3 DEF KeysOf
  <1>5. QED BY <1>1, <1>2, <1>4

LEMMA AlikeGroup ==
    ASSUME NEW schema, NEW s, NEW f, NEW g, NEW h, Alike(schema, s, f, g, h), NEW key
    PROVE  \E part : Alike(schema, s, RowsOfGroup(schema, s, f, key),
                           RowsOfGroup(schema, s, g, key), part)
  <1>1. PICK T, U : /\ T = {i \in DOMAIN f : GroupKey(schema, s, f[i]) = key}
                    /\ U = {k \in DOMAIN g : GroupKey(schema, s, g[k]) = key}
    OBVIOUS
  <1>2. \A i \in DOMAIN f : i \in T <=> h[i] \in U
    BY <1>1, AlikeIs, AlikeKeys
  <1>3. T \subseteq DOMAIN f /\ U \subseteq DOMAIN g
    BY <1>1
  <1>4. Alike(schema, s, [i \in T |-> f[i]], [k \in U |-> g[k]], [i \in T |-> h[i]])
    BY <1>2, <1>3, AlikePart
  <1>5. /\ RowsOfGroup(schema, s, f, key) = [i \in T |-> f[i]]
        /\ RowsOfGroup(schema, s, g, key) = [k \in U |-> g[k]]
    BY <1>1, GroupIs
  <1>6. QED BY <1>4, <1>5

(* The first row of a group is one of its rows, with the key of the group. *)
LEMMA FirstOfGroup ==
    ASSUME NEW schema, NEW s, NEW rows, Read(schema, s, rows),
           NEW k \in KeysOf(schema, s, rows)
    PROVE  LET first == FirstOf(RowsOfGroup(schema, s, rows, k))
           IN  Readable(schema, s, first) /\ GroupKey(schema, s, first) = k
  <1>1. PICK group : group = RowsOfGroup(schema, s, rows, k)
    OBVIOUS
  <1>2. /\ Read(schema, s, group) /\ DOMAIN group # {}
        /\ \A i \in DOMAIN group : GroupKey(schema, s, group[i]) = k
    BY <1>1, GroupRead
  <1>3. PICK i \in DOMAIN group : FirstOf(group) = group[i]
    BY <1>2, FirstIsARow
  <1>4. Readable(schema, s, group[i])
    BY <1>2 DEF Read
  <1>5. QED BY <1>1, <1>2, <1>3, <1>4

(* So the two engines have the same row for a group.                       *)
LEMMA AlikeRows ==
    ASSUME NEW schema, IsSchema(schema), NEW s, IsSelect(s), SelectBinds(schema, s),
           s.group_by # <<>>, NEW f, NEW g, NEW h, Alike(schema, s, f, g, h),
           NEW items, items = ExpandItems(schema, s.items),
           NEW k \in KeysOf(schema, s, f)
    PROVE  RowOfGroup(schema, items, RowsOfGroup(schema, s, f, k)) =
             RowOfGroup(schema, items, RowsOfGroup(schema, s, g, k))
  <1>1. PICK m, n : /\ m = RowsOfGroup(schema, s, f, k)
                    /\ n = RowsOfGroup(schema, s, g, k)
    OBVIOUS
  <1>2. PICK part : Alike(schema, s, m, n, part)
    BY <1>1, AlikeGroup
  <1>3. k \in KeysOf(schema, s, g) /\ Read(schema, s, f) /\ Read(schema, s, g)
    BY AlikeKeys DEF Alike
  <1>4. GroupKey(schema, s, FirstOf(m)) = k /\ GroupKey(schema, s, FirstOf(n)) = k
    BY <1>1, <1>3, FirstOfGroup
  <1>5. PICK a, b : a = RowOfGroup(schema, items, m) /\ b = RowOfGroup(schema, items, n)
    OBVIOUS
  <1>6. SameAggregates(schema, items, m, n)
    BY <1>2, AlikeAggregates
  <1>7. ASSUME NEW i \in DOMAIN items PROVE a[i] = b[i]
    <2>1. CASE IsAggregate(items[i])
      BY <1>5, <1>6, <2>1 DEF SameAggregates
    <2>2. CASE ~IsAggregate(items[i])
      <3>1. PICK j \in DOMAIN s.group_by :
              \A row : GroupKey(schema, s, row)[j] = Evaluate(schema, row)[items[i]]
        BY <2>2, ItemInKey
      <3>2. Evaluate(schema, FirstOf(m))[items[i]] = Evaluate(schema, FirstOf(n))[items[i]]
        BY <1>4, <3>1
      <3>3. /\ a[i] = Evaluate(schema, FirstOf(m))[items[i]]
            /\ b[i] = Evaluate(schema, FirstOf(n))[items[i]]
        BY <1>5, <2>2 DEF RowOfGroup
      <3>4. QED BY <3>2, <3>3
    <2>3. QED BY <2>1, <2>2
  <1>8. a = [i \in DOMAIN items |-> a[i]] /\ b = [i \in DOMAIN items |-> b[i]]
    BY <1>5, RowOfGroupIs
  <1>9. a = b
    BY <1>7, <1>8
  <1>10. QED BY <1>1, <1>5, <1>9

(* ORDER BY throws on the first row of a group if it throws on any.        *)
LEMMA OrderDecided ==
    ASSUME NEW schema, IsSchema(schema), NEW s, IsSelect(s), SelectBinds(schema, s),
           s.group_by # <<>>, ~FirstRowDecides(schema, s),
           NEW row, Readable(schema, s, row), NEW other, Readable(schema, s, other),
           GroupKey(schema, s, row) = GroupKey(schema, s, other),
           Thrown \in Range(CellsOf(schema, OrderExpressions(s), row))
    PROVE  Thrown \in Range(CellsOf(schema, OrderExpressions(s), other))
  <1>1. PICK exprs : exprs = OrderExpressions(s)
    OBVIOUS
  <1>2. PICK i \in DOMAIN exprs : Evaluate(schema, row)[exprs[i]] = Thrown
    BY <1>1 DEF CellsOf, Range
  <1>3. PICK e : e = exprs[i]
    OBVIOUS
  <1>4. e \in Range(exprs) /\ e \in ExpressionsOf(schema, s)
    <2>1. e \in Range(exprs)
      BY <1>3 DEF Range
    <2>2. QED BY <1>1, <1>3, <2>1, ExpressionsAre
  <1>5. CASE e \in Range(s.group_by)
    <2>1. PICK j \in DOMAIN s.group_by : e = s.group_by[j]
      BY <1>5 DEF Range
    <2>2. \A r : GroupKey(schema, s, r)[j] = Evaluate(schema, r)[e]
      BY <2>1 DEF GroupKey, CellsOf
    <2>3. Evaluate(schema, other)[e] = Thrown
      BY <1>2, <1>3, <2>2
    <2>4. QED BY <1>1, <1>3, <2>3 DEF CellsOf, Range
  <1>6. CASE e \notin Range(s.group_by)
    <2>1. WellTyped(schema, e)
      BY <1>1, <1>4, <1>6 DEF FirstRowDecides
    <2>2. Yields(TypeOf(schema, e), Evaluate(schema, row)[e])
      BY <1>4, <2>1 DEF Readable
    <2>3. TypeOf(schema, e) \in AnyType
      BY <1>4, ExpressionsBind, TypeIs
    <2>4. Evaluate(schema, row)[e] # Thrown
      BY <2>2, <2>3, NotThrown DEF AnyType
    <2>5. QED BY <1>2, <1>3, <2>4
  <1>7. QED BY <1>5, <1>6

LEMMA AlikeThrown ==
    ASSUME NEW schema, IsSchema(schema), NEW s, IsSelect(s), SelectBinds(schema, s),
           s.group_by # <<>>, ~FirstRowDecides(schema, s),
           NEW f, NEW g, NEW h, Alike(schema, s, f, g, h),
           NEW items, items = ExpandItems(schema, s.items),
           NEW k \in KeysOf(schema, s, f)
    PROVE  Thrown \in GroupCells(schema, s, items, f, k)
             <=> Thrown \in GroupCells(schema, s, items, g, k)
  <1>1. PICK x, y, m, n : /\ x = FirstOf(RowsOfGroup(schema, s, f, k))
                          /\ y = FirstOf(RowsOfGroup(schema, s, g, k))
                          /\ m = RowOfGroup(schema, items, RowsOfGroup(schema, s, f, k))
                          /\ n = RowOfGroup(schema, items, RowsOfGroup(schema, s, g, k))
    OBVIOUS
  <1>2. k \in KeysOf(schema, s, g) /\ Read(schema, s, f) /\ Read(schema, s, g)
    BY AlikeKeys DEF Alike
  <1>3. /\ Readable(schema, s, x) /\ GroupKey(schema, s, x) = k
        /\ Readable(schema, s, y) /\ GroupKey(schema, s, y) = k
    BY <1>1, <1>2, FirstOfGroup
  <1>4. m = n
    BY <1>1, AlikeRows
  <1>5. Thrown \in Range(CellsOf(schema, OrderExpressions(s), x))
          <=> Thrown \in Range(CellsOf(schema, OrderExpressions(s), y))
    BY <1>3, OrderDecided
  <1>6. /\ GroupCells(schema, s, items, f, k) =
             Range(k) \cup Range(m) \cup Range(CellsOf(schema, OrderExpressions(s), x))
        /\ GroupCells(schema, s, items, g, k) =
             Range(k) \cup Range(n) \cup Range(CellsOf(schema, OrderExpressions(s), y))
    BY <1>1 DEF GroupCells
  <1>7. QED BY <1>4, <1>5, <1>6

LEMMA AlikeGrouped ==
    ASSUME NEW schema, IsSchema(schema), NEW s, IsSelect(s), SelectBinds(schema, s),
           s.group_by # <<>>, ~FirstRowDecides(schema, s),
           NEW f, NEW g, NEW h, Alike(schema, s, f, g, h),
           NEW items, items = ExpandItems(schema, s.items)
    PROVE  ExecuteGrouped(schema, s, items, f) = ExecuteGrouped(schema, s, items, g)
  <1>1. PICK keys : keys = KeysOf(schema, s, f)
    OBVIOUS
  <1>2. keys = KeysOf(schema, s, g)
    BY <1>1, AlikeKeys
  <1>3. GroupAnswers(schema, s, items, f) = GroupAnswers(schema, s, items, g)
    <2>1. \A k \in keys : RowOfGroup(schema, items, RowsOfGroup(schema, s, f, k)) =
                            RowOfGroup(schema, items, RowsOfGroup(schema, s, g, k))
      BY <1>1, AlikeRows
    <2>2. QED BY <1>1, <1>2, <2>1 DEF GroupAnswers
  <1>4. PICK A, B : /\ A = UNION {GroupCells(schema, s, items, f, k) : k \in keys}
                    /\ B = UNION {GroupCells(schema, s, items, g, k) : k \in keys}
    OBVIOUS
  <1>5. Thrown \in A <=> Thrown \in B
    <2>1. \A k \in keys : Thrown \in GroupCells(schema, s, items, f, k)
                            <=> Thrown \in GroupCells(schema, s, items, g, k)
      BY <1>1, AlikeThrown
    <2>2. QED BY <1>4, <2>1
  <1>6. PICK answer : answer = GroupAnswers(schema, s, items, f)
    OBVIOUS
  <1>7. /\ ExecuteGrouped(schema, s, items, f) = Answer(A, answer)
        /\ ExecuteGrouped(schema, s, items, g) = Answer(B, answer)
    BY <1>1, <1>2, <1>3, <1>4, <1>6, GroupedIs
  <1>8. QED BY <1>5, <1>7 DEF Answer

(* The answers agree.                                                      *)
LEMMA AlikeExecute ==
    ASSUME NEW schema, IsSchema(schema), NEW s, IsSelect(s), SelectBinds(schema, s),
           ~FirstRowDecides(schema, s), NEW f, NEW g, NEW h, Alike(schema, s, f, g, h)
    PROVE  SameOutcome(ExecuteOn(schema, s, f), ExecuteOn(schema, s, g))
  <1>1. PICK items, m, n : /\ items = ExpandItems(schema, s.items)
                           /\ m = Passed(schema, s, f) /\ n = Passed(schema, s, g)
    OBVIOUS
  <1>2. PICK part : Alike(schema, s, m, n, part)
    BY <1>1, AlikePassed
  <1>3. AllCells(schema, s.where, f) = AllCells(schema, s.where, g)
    BY ExpressionsAre, AlikeAllCells
  <1>4. CASE Thrown \in AllCells(schema, s.where, f)
    <2>1. ExecuteOn(schema, s, f) = Failed /\ ExecuteOn(schema, s, g) = Failed
      BY <1>3, <1>4, PassedIs
    <2>2. QED BY <2>1, SameItself
  <1>5. CASE Thrown \notin AllCells(schema, s.where, f) /\ s.group_by # <<>>
    <2>1. /\ ExecuteOn(schema, s, f) = ExecuteGrouped(schema, s, items, m)
          /\ ExecuteOn(schema, s, g) = ExecuteGrouped(schema, s, items, n)
      BY <1>1, <1>3, <1>5, PassedIs
    <2>2. ExecuteGrouped(schema, s, items, m) = ExecuteGrouped(schema, s, items, n)
      BY <1>1, <1>2, <1>5, AlikeGrouped
    <2>3. QED BY <2>1, <2>2, SameItself
  <1>6. CASE /\ Thrown \notin AllCells(schema, s.where, f) /\ s.group_by = <<>>
             /\ \E i \in DOMAIN items : IsAggregate(items[i])
    <2>1. \A i \in DOMAIN items : IsAggregate(items[i])
      BY <1>1, <1>6 DEF SelectBinds, ValidGrouping
    <2>2. /\ ExecuteOn(schema, s, f) = ExecuteGlobal(schema, items, m)
          /\ ExecuteOn(schema, s, g) = ExecuteGlobal(schema, items, n)
      BY <1>1, <1>3, <1>6, PassedIs
    <2>3. QED BY <1>1, <1>2, <2>1, <2>2, AlikeGlobal
  <1>7. CASE /\ Thrown \notin AllCells(schema, s.where, f) /\ s.group_by = <<>>
             /\ ~ \E i \in DOMAIN items : IsAggregate(items[i])
    <2>1. /\ ExecuteOn(schema, s, f) = ExecutePlain(schema, s, items, m)
          /\ ExecuteOn(schema, s, g) = ExecutePlain(schema, s, items, n)
      BY <1>1, <1>3, <1>7, PassedIs
    <2>2. QED BY <1>1, <1>2, <1>7, <2>1, AlikePlain
  <1>8. QED BY <1>4, <1>5, <1>6, <1>7

-----------------------------------------------------------------------------
(* The reads of the two engines.                                           *)

LEMMA SmallModulo ==
    ASSUME NEW m \in Nat, NEW w \in Nat, m < w
    PROVE  m % w = m
  <1>1. PICK d, r : d = m \div w /\ r = m % w
    OBVIOUS
  <1>2. d \in Int /\ r \in 0 .. w - 1 /\ m = w * d + r
    BY <1>1
  <1>3. ~(d >= 1)
    <2> SUFFICES ASSUME d >= 1 PROVE FALSE
      OBVIOUS
    <2>1. PICK p \in Nat : d = p + 1
      BY <1>2
    <2>2. w * p \in Nat /\ w * d = w * p + w
      BY <2>1
    <2>3. QED BY <1>2, <2>2
  <1>4. ~(d <= -1)
    <2> SUFFICES ASSUME d <= -1 PROVE FALSE
      OBVIOUS
    <2>1. PICK p \in Nat : -d = p + 1
      BY <1>2
    <2>2. w * p \in Nat /\ w * (-d) = w * p + w
      BY <2>1
    <2>3. w * d \in Int /\ w * (-d) = -(w * d)
      BY <1>2
    <2>4. QED BY <1>2, <2>2, <2>3
  <1>5. d = 0
    BY <1>2, <1>3, <1>4
  <1>6. w * 0 = 0
    OBVIOUS
  <1>7. QED BY <1>1, <1>2, <1>5, <1>6

(* One more than a number that is not the largest.                         *)
LEMMA NextKey ==
    ASSUME NEW k \in IntMin .. IntMax, k # IntMax
    PROVE  Wrap(k + 1) = k + 1
  <1>1. IntMin \in Int /\ IntMax \in Nat /\ IntMin = -IntMax - 1
    BY IntAssumption DEF IntMin
  <1>2. PICK m, w : m = (k + 1) - IntMin /\ w = 2 * IntMax + 2
    OBVIOUS
  <1>3. m \in Nat /\ w \in Nat /\ m < w
    BY <1>1, <1>2
  <1>4. m % w = m
    BY <1>3, SmallModulo
  <1>5. Wrap(k + 1) = (m % w) + IntMin
    BY <1>2 DEF Wrap
  <1>6. QED BY <1>1, <1>2, <1>4, <1>5

(* Both engines read the same range of keys.                               *)
LEMMA RangesAgree ==
    ASSUME NEW plan, plan.point # {IntMax},
           plan.point = {} \/ \E k \in IntMin .. IntMax : plan.point = {k}
    PROVE  MockRange(plan) = Plan!PlanRange(plan)
  <1>1. CASE plan.point = {}
    BY <1>1 DEF MockRange
  <1>2. CASE plan.point # {}
    <2>1. PICK k \in IntMin .. IntMax : plan.point = {k}
      BY <1>2
    <2>2. k # IntMax
      BY <2>1
    <2>3. Wrap(k + 1) = k + 1
      BY <2>2, NextKey
    <2>4. {Wrap(n + 1) : n \in plan.point} = {k + 1}
      BY <2>1, <2>3
    <2>5. {n + 1 : n \in plan.point \ {IntMax}} = {k + 1}
      BY <2>1, <2>2
    <2>6. MockRange(plan) = [from |-> plan.point, to |-> {k + 1}]
      BY <1>2, <2>4 DEF MockRange
    <2>7. Plan!PlanRange(plan) = [from |-> plan.point, to |-> {k + 1}]
      BY <1>2, <2>5 DEF Plan!PlanRange
    <2>8. QED BY <2>6, <2>7
  <1>3. QED BY <1>1, <1>2

(* What is asked for of the rows of the map.                               *)
MockKeys(mock, plan) == {k \in DOMAIN mock.data : InRange(MockRange(plan), mock.data[k])}

LEMMA ReadMockIs ==
    ASSUME NEW mock, NEW plan
    PROVE  ReadMock(mock, plan) = [k \in MockKeys(mock, plan) |-> mock.data[k]]
  BY Zenon DEF ReadMock, MockKeys, RestrictValues, Restrict

(* Rows of a tree in which every key stands once, and where the map has    *)
(* them.                                                                   *)
OneRowOfKey(tree) ==
    \A i, j \in DOMAIN RowsOf(tree) :
      KeyOf(RowsOf(tree)[i]) = KeyOf(RowsOf(tree)[j]) => i = j

LEMMA MockHasRow ==
    ASSUME NEW tree, IsTree(tree), NEW mock, IsMockOf(tree, mock), OneRowOfKey(tree)
    PROVE  /\ \A i \in DOMAIN RowsOf(tree) :
                /\ KeyOf(RowsOf(tree)[i]) \in DOMAIN mock.data
                /\ mock.data[KeyOf(RowsOf(tree)[i])] = RowsOf(tree)[i]
           /\ \A k \in DOMAIN mock.data :
                \E i \in DOMAIN RowsOf(tree) : KeyOf(RowsOf(tree)[i]) = k
  <1>1. PICK rows, data : rows = RowsOf(tree) /\ data = mock.data
    OBVIOUS
  <1>2. /\ DOMAIN data = {KeyOf(row) : row \in Range(rows)}
        /\ \A k \in DOMAIN data : data[k] \in Range(rows) /\ KeyOf(data[k]) = k
    BY <1>1 DEF IsMockOf
  <1>3. ASSUME NEW i \in DOMAIN rows
        PROVE  KeyOf(rows[i]) \in DOMAIN data /\ data[KeyOf(rows[i])] = rows[i]
    <2>1. PICK k : k = KeyOf(rows[i])
      OBVIOUS
    <2>2. k \in DOMAIN data
      BY <1>2, <2>1 DEF Range
    <2>3. PICK j \in DOMAIN rows : data[k] = rows[j]
      BY <1>2, <2>2 DEF Range
    <2>4. KeyOf(rows[j]) = KeyOf(rows[i])
      BY <1>2, <2>1, <2>2, <2>3
    <2>5. j = i
      BY <1>1, <2>4 DEF OneRowOfKey
    <2>6. QED BY <2>1, <2>2, <2>3, <2>5
  <1>4. ASSUME NEW k \in DOMAIN data PROVE \E i \in DOMAIN rows : KeyOf(rows[i]) = k
    <2>1. PICK i \in DOMAIN rows : data[k] = rows[i]
      BY <1>2 DEF Range
    <2>2. KeyOf(rows[i]) = k
      BY <1>2, <2>1
    <2>3. QED BY <2>2
  <1>5. QED BY <1>1, <1>3, <1>4

(* The cursor of either engine brings the rows of the range.               *)
LEMMA PlacesAgree ==
    ASSUME NEW tree, IsTree(tree), NEW mock, IsMockOf(tree, mock), OneRowOfKey(tree),
           NEW s, NEW plan, MockRange(plan) = Plan!PlanRange(plan),
           NEW i \in DOMAIN RowsOf(tree)
    PROVE  i \in ReadPlaces(tree, plan, Projection(tree.schema, s))
             <=> KeyOf(RowsOf(tree)[i]) \in MockKeys(mock, plan)
  <1>1. PICK row, shown, range, k :
          /\ row = RowsOf(tree)[i] /\ shown = Shown(tree, Projection(tree.schema, s))
          /\ range = Plan!PlanRange(plan) /\ k = KeyOf(row)
    OBVIOUS
  <1>2. i \in DOMAIN shown /\ LooksLike(tree.schema, s, shown[i], row)
    BY <1>1, ShownLike
  <1>3. shown[i][1] = row[1]
    BY <1>2 DEF LooksLike
  <1>4. KeyOf(shown[i]) = KeyOf(row)
    BY <1>3 DEF KeyOf
  <1>5. InRange(range, shown[i]) <=> InRange(range, row)
    BY <1>4 DEF InRange
  <1>6. k \in DOMAIN mock.data /\ mock.data[k] = row
    BY <1>1, MockHasRow
  <1>7. k \in MockKeys(mock, plan) <=> InRange(range, row)
    BY <1>1, <1>6 DEF MockKeys
  <1>8. i \in ReadPlaces(tree, plan, Projection(tree.schema, s)) <=> InRange(range, shown[i])
    BY <1>1, <1>2 DEF ReadPlaces
  <1>9. QED BY <1>1, <1>5, <1>7, <1>8

LEMMA ReadsAlike ==
    ASSUME NEW tree, IsTree(tree), NEW mock, IsMockOf(tree, mock), OneRowOfKey(tree),
           NEW s, IsSelect(s), SelectBinds(tree.schema, s),
           NEW plan, MockRange(plan) = Plan!PlanRange(plan)
    PROVE  \E h : Alike(tree.schema, s, ReadTree(tree, plan, Projection(tree.schema, s)),
                        ReadMock(mock, plan), h)
  <1>1. PICK schema, rows, shown, T, U :
          /\ schema = tree.schema /\ rows = RowsOf(tree)
          /\ shown = Shown(tree, Projection(schema, s))
          /\ T = ReadPlaces(tree, plan, Projection(schema, s)) /\ U = MockKeys(mock, plan)
    OBVIOUS
  <1>2. PICK f, g, h : /\ f = [i \in T |-> shown[i]] /\ g = [k \in U |-> mock.data[k]]
                       /\ h = [i \in T |-> KeyOf(rows[i])]
    OBVIOUS
  <1>3. /\ ReadTree(tree, plan, Projection(schema, s)) = f
        /\ ReadMock(mock, plan) = g
    BY <1>1, <1>2, ReadTreeIs, ReadMockIs
  <1>4. DOMAIN f = T /\ DOMAIN g = U
    BY <1>2
  <1>5. IsSchema(schema)
    BY <1>1, TreeIs
  <1>6. DOMAIN shown = DOMAIN rows /\ T \subseteq DOMAIN rows
    BY <1>1, ShownLike DEF ReadPlaces
  <1>7. \A i \in DOMAIN rows : /\ RowFits(schema, rows[i])
                               /\ LooksLike(schema, s, shown[i], rows[i])
    BY <1>1, ShownLike
  <1>8. Read(schema, s, f)
    BY <1>1, <1>3, ReadTreeRead
  <1>9. \A i \in DOMAIN rows : i \in T <=> KeyOf(rows[i]) \in U
    BY <1>1, PlacesAgree
  <1>10. \A i \in DOMAIN rows : mock.data[KeyOf(rows[i])] = rows[i]
    BY <1>1, MockHasRow
  <1>11. \A k \in U : \E i \in DOMAIN rows : KeyOf(rows[i]) = k
    BY <1>1, MockHasRow DEF MockKeys
  <1>12. \A i \in T : g[h[i]] = rows[i]
    BY <1>2, <1>6, <1>9, <1>10
  <1>13. h \in Bijection(T, U)
    <2>1. h \in [T -> U]
      BY <1>2, <1>6, <1>9
    <2>2. \A i, j \in T : h[i] = h[j] => i = j
      BY <1>1, <1>2, <1>6 DEF OneRowOfKey
    <2>3. \A k \in U : \E i \in T : h[i] = k
      BY <1>2, <1>9, <1>11
    <2>4. QED BY <2>1, <2>2, <2>3 DEF Bijection, Injection, Surjection, IsInjective
  <1>14. \A i \in T : SameValues(schema, s, f[i], g[h[i]])
    <2> TAKE i \in T
    <2>1. LooksLike(schema, s, shown[i], rows[i])
      BY <1>6, <1>7
    <2>2. SameValues(schema, s, shown[i], rows[i])
      BY <1>1, <1>5, <2>1, LikeValues DEF SameValues
    <2>3. f[i] = shown[i]
      BY <1>2
    <2>4. QED BY <1>12, <2>2, <2>3
  <1>15. Read(schema, s, g)
    <2>1. IsFiniteSet(U)
      <3>1. IsFiniteSet(T)
        BY <1>4, <1>8 DEF Read
      <3>2. QED BY <1>13, <3>1, FS_Bijection DEF ExistsBijection
    <2>2. ASSUME NEW k \in U PROVE k \in Int /\ Readable(schema, s, g[k])
      <3>1. PICK i \in DOMAIN rows : KeyOf(rows[i]) = k
        BY <1>11
      <3>2. g[k] = rows[i]
        BY <1>2, <1>10, <3>1
      <3>3. RowFits(schema, rows[i])
        BY <1>7
      <3>4. k \in Int
        BY <1>5, <3>1, <3>3, KeyIs
      <3>5. LooksLike(schema, s, rows[i], rows[i])
        BY DEF LooksLike
      <3>6. Readable(schema, s, rows[i])
        BY <1>1, <1>5, <3>3, <3>5, LikeFitting
      <3>7. QED BY <3>2, <3>4, <3>6
    <2>3. QED BY <1>4, <2>1, <2>2 DEF Read
  <1>16. Alike(schema, s, f, g, h)
    BY <1>4, <1>8, <1>13, <1>14, <1>15 DEF Alike
  <1>17. QED BY <1>1, <1>3, <1>16

(* Both engines answer a SELECT alike: a key stands once, a lookup is not  *)
(* of the largest key, and no first row decides.                           *)
LEMMA SelectAlike ==
    ASSUME NEW tree, IsTree(tree), NEW mock, IsMockOf(tree, mock), OneRowOfKey(tree),
           NEW s, IsSelect(s), SelectBinds(tree.schema, s),
           PlanOf(tree.schema, s).point # {IntMax}, ~FirstRowDecides(tree.schema, s)
    PROVE  SameOutcome(SelectFromTree(tree, s), SelectFromMock(mock, s))
  <1>1. PICK schema, plan, f, g :
          /\ schema = tree.schema /\ plan = PlanOf(schema, s)
          /\ f = ReadTree(tree, plan, Projection(schema, s)) /\ g = ReadMock(mock, plan)
    OBVIOUS
  <1>2. IsSchema(schema)
    BY <1>1, TreeIs
  <1>3. mock.schema = schema
    BY <1>1 DEF IsMockOf
  <1>4. ValidProjection(schema, Projection(schema, s))
    BY ColumnsInSchema DEF Projection, ValidProjection
  <1>5. SelectFromTree(tree, s) = IF plan.failed THEN Failed
                                  ELSE ExecuteOn(schema, s, IF plan.empty THEN <<>> ELSE f)
    BY <1>1, <1>4 DEF SelectFromTree
  <1>6. SelectFromMock(mock, s) = IF plan.failed THEN Failed
                                  ELSE ExecuteOn(schema, s, IF plan.empty THEN <<>> ELSE g)
    BY <1>1, <1>3 DEF SelectFromMock
  <1>7. CASE plan.failed \/ plan.empty
    <2>1. SelectFromTree(tree, s) = SelectFromMock(mock, s)
      BY <1>5, <1>6, <1>7
    <2>2. QED BY <2>1, SameItself
  <1>8. CASE ~plan.failed /\ ~plan.empty
    <2>1. plan.point = {} \/ \E k \in IntMin .. IntMax : plan.point = {k}
      BY <1>1, PlanOfFits DEF PlanFits
    <2>2. MockRange(plan) = Plan!PlanRange(plan)
      BY <1>1, <2>1, RangesAgree
    <2>3. PICK h : Alike(schema, s, f, g, h)
      BY <1>1, <2>2, ReadsAlike
    <2>4. SameOutcome(ExecuteOn(schema, s, f), ExecuteOn(schema, s, g))
      BY <1>1, <1>2, <2>3, AlikeExecute
    <2>5. /\ SelectFromTree(tree, s) = ExecuteOn(schema, s, f)
          /\ SelectFromMock(mock, s) = ExecuteOn(schema, s, g)
      BY <1>5, <1>6, <1>8
    <2>6. QED BY <2>4, <2>5
  <1>9. QED BY <1>7, <1>8

(* A SELECT returns the same rows from the LSM engine, with its rows in    *)
(* memory, in row blocks and in column blocks and only the projected       *)
(* columns loaded, as from the mock engine that keeps whole rows in a map. *)
THEOREM EnginesAnswerAlike == StmtSpec => []EnginesAgree
  <1>1. StmtInv => EnginesAgree
    <2> SUFFICES ASSUME StmtInv, SelectRan, ~KeyRepeated(last.request.table),
                        PlanOf(trees[last.request.table].schema, last.request).point
                          # {IntMax},
                        ~FirstRowDecides(trees[last.request.table].schema, last.request)
                 PROVE  SameOutcome(last.lsm, last.mock)
      BY DEF EnginesAgree
    <2>1. PICK s, tree, mock : /\ s = last.request /\ tree = trees[s.table]
                               /\ mock = mocks[s.table]
      OBVIOUS
    <2>2. /\ IsSelect(s) /\ IsTree(tree) /\ IsMockOf(tree, mock)
          /\ SelectBinds(tree.schema, s)
          /\ last.lsm = SelectFromTree(tree, s) /\ last.mock = SelectFromMock(mock, s)
      BY <2>1, SelectIs
    <2>3. OneRowOfKey(tree)
      BY <2>1 DEF KeyRepeated, OneRowOfKey
    <2>4. PlanOf(tree.schema, s).point # {IntMax} /\ ~FirstRowDecides(tree.schema, s)
      BY <2>1
    <2>5. QED BY <2>2, <2>3, <2>4, SelectAlike
  <1>2. QED BY <1>1, StatementsInvariant, PTL
=============================================================================
