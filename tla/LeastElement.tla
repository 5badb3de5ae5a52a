---------------------------- MODULE LeastElement ---------------------------
(***************************************************************************)
(* Lemmas that the other proofs share.  A finite set of integers that is   *)
(* not empty has a least element: lower bounds of maps, sources and heaps  *)
(* are what the cursors look for.  A sum does not depend on the order in   *)
(* which its values are added.                                             *)
(***************************************************************************)
EXTENDS Integers, FiniteSets, Sums, FiniteSetTheorems, WellFoundedInduction, TLAPS

(* Among the natural numbers this is well-foundedness.                     *)
LEMMA LeastNatural ==
    ASSUME NEW T, T \subseteq Nat, T # {}
    PROVE  \E x \in T : \A y \in T : x <= y
  <1>1. IsWellFoundedOn(OpToRel(<, Nat), Nat)
    BY NatLessThanWellFounded
  <1>2. PICK x \in T : \A y \in T : ~ (<<y, x>> \in OpToRel(<, Nat))
    BY <1>1, WFMin
  <1>3. \A y \in T : <<y, x>> \in OpToRel(<, Nat) <=> y < x
    BY DEF OpToRel
  <1>4. \A y \in T : ~ (y < x)
    <2> TAKE y \in T
    <2>1. ~ (<<y, x>> \in OpToRel(<, Nat))
      BY <1>2
    <2>2. <<y, x>> \in OpToRel(<, Nat) <=> y < x
      BY <1>3
    <2>3. QED BY <2>1, <2>2
  <1>5. QED BY <1>4

(* Otherwise take a smallest subset that has none, and drop an element.    *)
LEMMA LeastOfFinite ==
    ASSUME NEW S, S \subseteq Int, IsFiniteSet(S), S # {}
    PROVE  \E x \in S : \A y \in S : x <= y
  <1> DEFINE HasLeast(T) == \E x \in T : \A y \in T : x <= y
             Bad == {T \in SUBSET S : T # {} /\ ~HasLeast(T)}
             Sizes == {Cardinality(T) : T \in Bad}
  <1>1. SUFFICES ASSUME ~HasLeast(S) PROVE FALSE
    OBVIOUS
  <1>2. \A T \in Bad : IsFiniteSet(T) /\ Cardinality(T) \in Nat
    BY FS_Subset, FS_CardinalityType
  <1>3. Sizes \subseteq Nat /\ Sizes # {}
    BY <1>1, <1>2
  <1>4. PICK n \in Sizes : \A m \in Sizes : n <= m
    BY <1>3, LeastNatural
  <1>5. PICK T \in Bad : n = Cardinality(T)
    BY <1>4
  <1>6. PICK a \in T : TRUE
    BY <1>5
  <1>7. /\ IsFiniteSet(T \ {a})
        /\ Cardinality(T \ {a}) = Cardinality(T) - 1
    BY <1>2, <1>5, <1>6, FS_RemoveElement
  <1>8. T \ {a} \notin Bad
    <2> SUFFICES ASSUME T \ {a} \in Bad PROVE FALSE
      OBVIOUS
    <2>1. Cardinality(T \ {a}) \in Sizes
      OBVIOUS
    <2>2. Cardinality(T) <= Cardinality(T \ {a})
      BY <1>4, <1>5, <2>1
    <2>3. QED BY <1>2, <1>5, <1>7, <2>2
  <1>9. CASE T \ {a} = {}
    BY <1>5, <1>6, <1>9
  <1>10. CASE HasLeast(T \ {a})
    BY <1>5, <1>6, <1>10
  <1>11. QED BY <1>5, <1>8, <1>9, <1>10

(* A greatest element is the least of the upper bounds.                    *)
LEMMA GreatestOfBounded ==
    ASSUME NEW n \in Nat, NEW S, S \subseteq 0 .. n, S # {}
    PROVE  \E x \in S : \A y \in S : y <= x
  <1>1. PICK bounds : bounds = {u \in Nat : \A y \in S : y <= u}
    OBVIOUS
  <1>2. n \in bounds
    BY <1>1
  <1>3. PICK u \in bounds : \A v \in bounds : u <= v
    BY <1>1, <1>2, LeastNatural
  <1>4. SUFFICES ASSUME u \notin S PROVE FALSE
    BY <1>1, <1>3
  <1>5. \A y \in S : y \in Nat /\ y < u
    BY <1>1, <1>4
  <1>6. PICK z \in S : TRUE
    OBVIOUS
  <1>7. u \in Nat /\ z \in Nat /\ z < u
    BY <1>1, <1>5
  <1>8. u - 1 \in Nat /\ \A y \in S : y <= u - 1
    BY <1>5, <1>7
  <1>9. u - 1 \in bounds
    BY <1>1, <1>8
  <1>10. u <= u - 1
    BY <1>3, <1>9
  <1>11. QED BY <1>7, <1>10
-----------------------------------------------------------------------------
(* Sums over sets of rows.                                                 *)

(* Among sets of rows, one that is no longer there when any row is taken   *)
(* out.                                                                    *)
LEMMA SmallestSet ==
    ASSUME NEW D, IsFiniteSet(D), NEW Bad, Bad \subseteq SUBSET D, Bad # {}
    PROVE  \E S \in Bad : \A x \in S : S \ {x} \notin Bad
  <1> DEFINE Sizes == {Cardinality(S) : S \in Bad}
  <1>1. \A S \in Bad : IsFiniteSet(S) /\ Cardinality(S) \in Nat
    BY FS_Subset, FS_CardinalityType
  <1>2. Sizes \subseteq Nat /\ Sizes # {}
    BY <1>1
  <1>3. PICK n \in Sizes : \A m \in Sizes : n <= m
    BY <1>2, LeastNatural
  <1>4. PICK S \in Bad : n = Cardinality(S)
    BY <1>3
  <1>5. ASSUME NEW x \in S, S \ {x} \in Bad PROVE FALSE
    <2>1. Cardinality(S \ {x}) = Cardinality(S) - 1
      BY <1>1, <1>4, FS_RemoveElement
    <2>2. Cardinality(S \ {x}) \in Sizes
      BY <1>5
    <2>3. n <= Cardinality(S \ {x})
      BY <1>3, <2>2
    <2>4. n \in Nat
      BY <1>2, <1>3
    <2>5. QED BY <1>4, <2>1, <2>3, <2>4
  <1>6. QED BY <1>4, <1>5

SomeOf(rows) == CHOOSE x \in rows : TRUE

SumStep(of, sums, rows) ==
    IF rows = {} THEN 0
    ELSE Number(of[SomeOf(rows)]) + sums[rows \ {SomeOf(rows)}]

(* The sets of at most n rows.                                             *)
UpTo(D, n) == {rows \in SUBSET D : Cardinality(rows) <= n}

LEMMA SumsRecursion ==
    ASSUME NEW of, IsFiniteSet(DOMAIN of)
    PROVE  Sums(of) = [rows \in SUBSET DOMAIN of |-> SumStep(of, Sums(of), rows)]
  <1> DEFINE D == DOMAIN of
             SumsUpTo(n, g) == g = [rows \in UpTo(D, n) |-> SumStep(of, g, rows)]
             Bad == {n \in Nat : ~ \E g : SumsUpTo(n, g)}
  <1>1. \A rows \in SUBSET D : IsFiniteSet(rows) /\ Cardinality(rows) \in Nat
    BY FS_Subset, FS_CardinalityType
  <1>2. Bad = {}
    <2>1. SUFFICES ASSUME Bad # {} PROVE FALSE
      OBVIOUS
    <2>2. PICK n \in Bad : \A m \in Bad : n <= m
      <3>1. Bad \subseteq Nat
        OBVIOUS
      <3>2. QED BY <2>1, <3>1, LeastNatural
    <2>3. n # 0
      <3>1. UpTo(D, 0) = {{}}
        <4>1. \A rows \in SUBSET D : Cardinality(rows) <= 0 => rows = {}
          BY <1>1, FS_EmptySet
        <4>2. {} \in UpTo(D, 0)
          BY FS_EmptySet DEF UpTo
        <4>3. QED BY <4>1, <4>2 DEF UpTo
      <3>2. PICK g : g = [rows \in {{}} |-> 0]
        OBVIOUS
      <3>3. \A rows \in {{}} : SumStep(of, g, rows) = 0
        BY DEF SumStep
      <3>4. g = [rows \in {{}} |-> SumStep(of, g, rows)]
        BY <3>2, <3>3
      <3>5. SumsUpTo(0, g)
        BY <3>1, <3>4
      <3>6. QED BY <3>5
    <2>4. n - 1 \in Nat /\ n - 1 \notin Bad
      <3>1. n \in Nat
        OBVIOUS
      <3>2. n - 1 \in Nat /\ ~(n <= n - 1)
        BY <2>3, <3>1
      <3>3. QED BY <2>2, <3>2
    <2>5. PICK g : SumsUpTo(n - 1, g)
      BY <2>4
    <2>6. PICK h : h = [rows \in UpTo(D, n) |-> SumStep(of, g, rows)]
      OBVIOUS
    <2>7. \A rows \in UpTo(D, n - 1) : g[rows] = SumStep(of, g, rows)
      BY <2>5
    <2>8. UpTo(D, n - 1) \subseteq UpTo(D, n)
      BY <1>1, <2>4 DEF UpTo
    <2>9. \A rows \in UpTo(D, n - 1) : h[rows] = g[rows]
      BY <2>6, <2>7, <2>8
    <2>10. ASSUME NEW rows \in UpTo(D, n)
           PROVE  h[rows] = SumStep(of, h, rows)
      <3>1. h[rows] = SumStep(of, g, rows)
        BY <2>6
      <3>2. CASE rows = {}
        BY <3>1, <3>2 DEF SumStep
      <3>3. CASE rows # {}
        <4>1. PICK rest : rest = rows \ {SomeOf(rows)}
          OBVIOUS
        <4>2. SomeOf(rows) \in rows
          BY <3>3 DEF SomeOf
        <4>3. rows \subseteq D /\ rest \subseteq D /\ Cardinality(rows) <= n
          BY <4>1 DEF UpTo
        <4>4. Cardinality(rest) = Cardinality(rows) - 1
          BY <1>1, <4>1, <4>2, <4>3, FS_RemoveElement
        <4>5. Cardinality(rest) <= n - 1
          <5>1. Cardinality(rows) \in Nat /\ n \in Nat
            BY <1>1, <4>3
          <5>2. QED BY <4>3, <4>4, <5>1
        <4>6. rest \in UpTo(D, n - 1)
          BY <4>3, <4>5 DEF UpTo
        <4>7. h[rest] = g[rest]
          BY <2>9, <4>6
        <4>8. QED BY <3>1, <3>3, <4>1, <4>7 DEF SumStep
      <3>4. QED BY <3>2, <3>3
    <2>11. h = [rows \in UpTo(D, n) |-> h[rows]]
      BY <2>6
    <2>12. SumsUpTo(n, h)
      BY <2>10, <2>11
    <2>13. QED BY <2>12
  <1>3. UpTo(D, Cardinality(D)) = SUBSET D
    <2>1. \A rows \in SUBSET D : Cardinality(rows) <= Cardinality(D)
      BY FS_Subset
    <2>2. QED BY <2>1 DEF UpTo
  <1>4. Cardinality(D) \in Nat
    BY FS_CardinalityType
  <1>5. \E g : g = [rows \in SUBSET D |-> SumStep(of, g, rows)]
    <2>1. PICK n : n = Cardinality(D)
      OBVIOUS
    <2>2. n \notin Bad /\ n \in Nat
      BY <1>2, <1>4, <2>1
    <2>3. PICK g : SumsUpTo(n, g)
      BY <2>2
    <2>4. QED BY <1>3, <2>1, <2>3
  <1>6. Sums(of) = CHOOSE g : g = [rows \in SUBSET D |-> SumStep(of, g, rows)]
    BY DEF Sums, SumStep, SomeOf
  <1>7. QED BY <1>5, <1>6

(* The values of a column: at most one number each.                        *)
Amounts(of) ==
    /\ of = [r \in DOMAIN of |-> of[r]]
    /\ IsFiniteSet(DOMAIN of)
    /\ \A r \in DOMAIN of :
         of[r] \subseteq Int /\ (of[r] = {} \/ \E n \in of[r] : of[r] = {n})

LEMMA NumberIs ==
    ASSUME NEW of, Amounts(of), NEW r \in DOMAIN of
    PROVE  /\ Number(of[r]) \in Int
           /\ of[r] = {} => Number(of[r]) = 0
           /\ of[r] # {} => of[r] = {Number(of[r])}
  <1>1. of[r] \subseteq Int /\ (of[r] = {} \/ \E n \in of[r] : of[r] = {n})
    BY DEF Amounts
  <1>2. CASE of[r] = {}
    BY <1>2 DEF Number
  <1>3. CASE of[r] # {}
    <2>1. PICK n \in of[r] : of[r] = {n}
      BY <1>1, <1>3
    <2>2. (CHOOSE v \in of[r] : TRUE) = n
      BY <2>1
    <2>3. Number(of[r]) = n
      BY <1>3, <2>2 DEF Number
    <2>4. QED BY <1>1, <1>3, <2>1, <2>3
  <1>4. QED BY <1>2, <1>3

LEMMA SumsAreSteps ==
    ASSUME NEW of, Amounts(of), NEW rows \in SUBSET DOMAIN of
    PROVE  Sums(of)[rows] = SumStep(of, Sums(of), rows)
  <1>1. PICK sums, D : sums = Sums(of) /\ D = DOMAIN of
    OBVIOUS
  <1>2. sums = [S \in SUBSET D |-> SumStep(of, sums, S)]
    <2>1. IsFiniteSet(DOMAIN of)
      BY DEF Amounts
    <2>2. Sums(of) = [S \in SUBSET DOMAIN of |-> SumStep(of, Sums(of), S)]
      BY <2>1, SumsRecursion
    <2>3. QED BY <1>1, <2>2
  <1>3. rows \in SUBSET D
    BY <1>1
  <1>4. sums[rows] = SumStep(of, sums, rows)
    BY <1>2, <1>3
  <1>5. QED BY <1>1, <1>4

LEMMA SumsType ==
    ASSUME NEW of, Amounts(of), NEW rows \in SUBSET DOMAIN of
    PROVE  Sums(of)[rows] \in Int
  <1>1. PICK D, sums, Bad : /\ D = DOMAIN of /\ sums = Sums(of)
                            /\ Bad = {S \in SUBSET D : sums[S] \notin Int}
    OBVIOUS
  <1>2. Bad = {}
    <2>1. SUFFICES ASSUME Bad # {} PROVE FALSE
      OBVIOUS
    <2>2. PICK S \in Bad : \A x \in S : S \ {x} \notin Bad
      <3>1. Bad \subseteq SUBSET D /\ IsFiniteSet(D)
        BY <1>1 DEF Amounts
      <3>2. QED BY <2>1, <3>1, SmallestSet
    <2>3. S \in SUBSET D /\ sums[S] \notin Int
      BY <1>1, <2>2
    <2>4. sums[S] = SumStep(of, sums, S)
      BY <1>1, <2>3, SumsAreSteps
    <2>5. S # {}
      BY <2>3, <2>4 DEF SumStep
    <2>6. PICK c : c = SomeOf(S)
      OBVIOUS
    <2>7. c \in S
      BY <2>5, <2>6 DEF SomeOf
    <2>8. sums[S] = Number(of[c]) + sums[S \ {c}]
      BY <2>4, <2>5, <2>6 DEF SumStep
    <2>9. S \ {c} \in SUBSET D /\ S \ {c} \notin Bad
      BY <2>2, <2>3, <2>7
    <2>10. sums[S \ {c}] \in Int
      BY <1>1, <2>9
    <2>11. Number(of[c]) \in Int
      BY <1>1, <2>3, <2>7, NumberIs
    <2>12. QED BY <2>3, <2>8, <2>10, <2>11
  <1>3. QED BY <1>1, <1>2

(* The order in which rows are added does not matter.                      *)
LEMMA SumWithout ==
    ASSUME NEW of, Amounts(of), NEW rows \in SUBSET DOMAIN of, NEW row \in rows
    PROVE  Sums(of)[rows] = Number(of[row]) + Sums(of)[rows \ {row}]
  <1> DEFINE Good(sums, S) ==
               \A x \in S : sums[S] = Number(of[x]) + sums[S \ {x}]
  <1>1. PICK D, sums, Bad : /\ D = DOMAIN of /\ sums = Sums(of)
                            /\ Bad = {S \in SUBSET D : ~Good(sums, S)}
    OBVIOUS
  <1>2. Bad = {}
    <2>1. SUFFICES ASSUME Bad # {} PROVE FALSE
      OBVIOUS
    <2>2. PICK S \in Bad : \A x \in S : S \ {x} \notin Bad
      <3>1. Bad \subseteq SUBSET D /\ IsFiniteSet(D)
        BY <1>1 DEF Amounts
      <3>2. QED BY <2>1, <3>1, SmallestSet
    <2>3. S \in SUBSET D /\ ~Good(sums, S) /\ S # {}
      BY <1>1, <2>2
    <2>4. \A x \in S : Good(sums, S \ {x})
      BY <1>1, <2>2, <2>3
    <2>5. PICK c : c = SomeOf(S)
      OBVIOUS
    <2>6. c \in S
      BY <2>3, <2>5 DEF SomeOf
    <2>7. sums[S] = Number(of[c]) + sums[S \ {c}]
      <3>1. sums[S] = SumStep(of, sums, S)
        BY <1>1, <2>3, SumsAreSteps
      <3>2. QED BY <2>3, <2>5, <3>1 DEF SumStep
    <2>8. ASSUME NEW x \in S, x # c
          PROVE  sums[S] = Number(of[x]) + sums[S \ {x}]
      <3>1. PICK rest : rest = (S \ {c}) \ {x}
        OBVIOUS
      <3>2. rest = (S \ {x}) \ {c} /\ x \in S \ {c} /\ c \in S \ {x}
        BY <2>6, <2>8, <3>1
      <3>3. sums[S \ {c}] = Number(of[x]) + sums[rest]
        BY <2>4, <2>6, <3>1, <3>2
      <3>4. sums[S \ {x}] = Number(of[c]) + sums[rest]
        BY <2>4, <3>2
      <3>5. PICK a, b, s : a = Number(of[x]) /\ b = Number(of[c]) /\ s = sums[rest]
        OBVIOUS
      <3>6. x \in D /\ c \in D /\ rest \in SUBSET D
        BY <2>3, <2>6, <3>1
      <3>7. a \in Int /\ b \in Int
        BY <1>1, <3>5, <3>6, NumberIs
      <3>8. s \in Int
        BY <1>1, <3>5, <3>6, SumsType
      <3>9. b + (a + s) = a + (b + s)
        BY <3>7, <3>8
      <3>10. QED BY <2>7, <3>3, <3>4, <3>5, <3>9
    <2>9. QED BY <2>3, <2>7, <2>8
  <1>3. QED BY <1>1, <1>2

LEMMA SumOfNothing ==
    ASSUME NEW of, Amounts(of)
    PROVE  Sums(of)[{}] = 0
  BY SumsAreSteps DEF SumStep

(* One row more.                                                           *)
LEMMA SumWith ==
    ASSUME NEW of, Amounts(of), NEW rows \in SUBSET DOMAIN of,
           NEW row \in DOMAIN of, row \notin rows
    PROVE  Sums(of)[rows \cup {row}] = Sums(of)[rows] + Number(of[row])
  <1>1. PICK more : more = rows \cup {row}
    OBVIOUS
  <1>2. more \in SUBSET DOMAIN of /\ row \in more /\ more \ {row} = rows
    BY <1>1
  <1>3. Sums(of)[more] = Number(of[row]) + Sums(of)[rows]
    BY <1>2, SumWithout
  <1>4. Sums(of)[rows] \in Int /\ Number(of[row]) \in Int
    BY SumsType, NumberIs
  <1>5. QED BY <1>1, <1>3, <1>4
=============================================================================
