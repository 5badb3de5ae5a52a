------------------------ MODULE ComposedCursorProof ------------------------
(***************************************************************************)
(* Proofs about ComposedCursor: a chain and a merge return every row of    *)
(* every source exactly once, and a merge in the order of keys and         *)
(* sources.  For any number of sources of any length.                      *)
(***************************************************************************)
EXTENDS ComposedCursor, LeastElement, SequenceTheorems

-----------------------------------------------------------------------------
(* The rows of the sources.                                                *)

LEMMA RowInAllRows ==
    ASSUME NEW i \in 1 .. Len(cursors), NEW p \in 1 .. Len(cursors[i])
    PROVE  <<cursors[i][p], i, p>> \in AllRows
  <1>1. <<i, p>> \in UNION {{j} \X (1 .. Len(cursors[j])) : j \in 1 .. Len(cursors)}
    OBVIOUS
  <1>2. QED BY <1>1 DEF AllRows

LEMMA AllRowsAreRows ==
    ASSUME NEW row \in AllRows
    PROVE  /\ row[2] \in 1 .. Len(cursors)
           /\ row[3] \in 1 .. Len(cursors[row[2]])
           /\ row = <<cursors[row[2]][row[3]], row[2], row[3]>>
  BY DEF AllRows

LEMMA AllRowsUnchanged ==
    cursors' = cursors => AllRows' = AllRows
  BY DEF AllRows

LEMMA CursorTypes ==
    ASSUME ComposeTypeOK
    PROVE  /\ Len(cursors) \in Nat
           /\ \A i \in 1 .. Len(cursors) :
                /\ cursors[i] \in Seq(Int) /\ cursors[i] # <<>>
                /\ Len(cursors[i]) \in Nat /\ Len(cursors[i]) >= 1
                /\ \A p \in 1 .. Len(cursors[i]) : cursors[i][p] \in Int
                /\ pos[i] \in 1 .. Len(cursors[i]) + 1
  <1>1. cursors \in Seq(Seq(Int) \ {<<>>})
    BY DEF ComposeTypeOK
  <1>2. Len(cursors) \in Nat
    BY <1>1
  <1>3. ASSUME NEW i \in 1 .. Len(cursors)
        PROVE  /\ cursors[i] \in Seq(Int) /\ cursors[i] # <<>>
               /\ Len(cursors[i]) \in Nat /\ Len(cursors[i]) >= 1
               /\ \A p \in 1 .. Len(cursors[i]) : cursors[i][p] \in Int
               /\ pos[i] \in 1 .. Len(cursors[i]) + 1
    <2>1. cursors[i] \in Seq(Int) \ {<<>>}
      BY <1>1
    <2>2. Len(cursors[i]) \in Nat /\ Len(cursors[i]) # 0
      BY <2>1, EmptySeq
    <2>3. cursors[i] \in Seq(Int) /\ Len(cursors[i]) >= 1
      BY <2>1, <2>2
    <2>4. \A p \in 1 .. Len(cursors[i]) : cursors[i][p] \in Int
      BY <2>3
    <2>5. pos[i] \in 1 .. Len(cursors[i]) + 1
      BY DEF ComposeTypeOK
    <2>6. QED BY <2>1, <2>2, <2>3, <2>4, <2>5
  <1>4. QED BY <1>2, <1>3

(* The cursor i returns its current row and moves on.                      *)
LEMMA RowReturned ==
    ASSUME ComposeTypeOK, PassedInv,
           NEW i \in 1 .. Len(cursors), IsValid(cursors[i], pos[i]),
           NEW row, row = <<cursors[i][pos[i]], i, pos[i]>>,
           returned' = Append(returned, row),
           pos' = [pos EXCEPT ![i] = @ + 1],
           cursors' = cursors
    PROVE  /\ row \in AllRows \ RowsReturned
           /\ row \in Int \X Nat \X Nat
           /\ RowsReturned' = RowsReturned \cup {row}
           /\ PassedInv'
           /\ returned' \in Seq(Int \X Nat \X Nat)
           /\ pos' \in [1 .. Len(cursors) -> Nat]
           /\ \A j \in 1 .. Len(cursors) : pos'[j] \in 1 .. Len(cursors[j]) + 1
  <1>1. /\ returned \in Seq(Int \X Nat \X Nat)
        /\ pos \in [1 .. Len(cursors) -> Nat]
    BY DEF ComposeTypeOK
  <1>2. pos[i] \in 1 .. Len(cursors[i])
    BY CursorTypes DEF IsValid
  <1>3. row \in AllRows
    BY <1>2, RowInAllRows
  <1>4. row \notin RowsReturned
    BY <1>2, CursorTypes DEF PassedInv
  <1>5. row \in Int \X Nat \X Nat
    BY <1>2, CursorTypes
  <1>6. returned' \in Seq(Int \X Nat \X Nat) /\ Len(returned') = Len(returned) + 1
    BY <1>1, <1>5
  <1>7. RowsReturned' = RowsReturned \cup {row}
    <2>1. /\ \A n \in 1 .. Len(returned) : returned'[n] = returned[n]
          /\ returned'[Len(returned) + 1] = row
      BY <1>1, <1>5, AppendProperties
    <2>2. /\ Len(returned) \in Nat
          /\ 1 .. Len(returned') = 1 .. Len(returned) \cup {Len(returned) + 1}
      BY <1>1, <1>6, LenProperties
    <2>3. RowsReturned' = {returned'[n] : n \in 1 .. Len(returned')}
      BY DEF RowsReturned
    <2>4. QED BY <2>1, <2>2, <2>3 DEF RowsReturned
  <1>8. /\ pos' \in [1 .. Len(cursors) -> Nat]
        /\ \A j \in 1 .. Len(cursors) : pos'[j] = IF j = i THEN pos[i] + 1 ELSE pos[j]
    BY <1>1, CursorTypes
  <1>9. RowsReturned' = {other \in AllRows' : other[3] < pos'[other[2]]}
    <2>1. ASSUME NEW other \in AllRows
          PROVE  other \in RowsReturned \cup {row} <=> other[3] < pos'[other[2]]
      <3>1. /\ other[2] \in 1 .. Len(cursors)
            /\ other[3] \in 1 .. Len(cursors[other[2]])
            /\ other = <<cursors[other[2]][other[3]], other[2], other[3]>>
        BY AllRowsAreRows
      <3>2. other \in RowsReturned <=> other[3] < pos[other[2]]
        BY DEF PassedInv
      <3>3. other = row <=> other[2] = i /\ other[3] = pos[i]
        BY <3>1
      <3>4. CASE other[2] = i
        BY <3>1, <3>2, <3>3, <3>4, <1>2, <1>8, CursorTypes
      <3>5. CASE other[2] # i
        BY <3>1, <3>2, <3>3, <3>5, <1>8
      <3>6. QED BY <3>4, <3>5
    <2>2. RowsReturned \cup {row} \subseteq AllRows
      BY <1>3 DEF PassedInv
    <2>3. QED BY <2>1, <2>2, <1>7, AllRowsUnchanged
  <1>10. IsFiniteSet(RowsReturned') /\ Cardinality(RowsReturned') = Len(returned')
    <2>1. IsFiniteSet(RowsReturned) /\ Cardinality(RowsReturned) = Len(returned)
      BY DEF PassedInv
    <2>2. /\ IsFiniteSet(RowsReturned \cup {row})
          /\ Cardinality(RowsReturned \cup {row}) = Cardinality(RowsReturned) + 1
      BY <1>4, <2>1, FS_AddElement
    <2>3. QED BY <1>6, <1>7, <2>1, <2>2
  <1>11. PassedInv'
    BY <1>9, <1>10 DEF PassedInv
  <1>12. \A j \in 1 .. Len(cursors) : pos'[j] \in 1 .. Len(cursors[j]) + 1
    <2>1. \A j \in 1 .. Len(cursors) : pos[j] \in 1 .. Len(cursors[j]) + 1
      BY CursorTypes
    <2>2. pos[i] + 1 \in 1 .. Len(cursors[i]) + 1
      BY <1>2, CursorTypes
    <2>3. ASSUME NEW j \in 1 .. Len(cursors)
          PROVE  pos'[j] \in 1 .. Len(cursors[j]) + 1
      <3>1. pos'[j] = IF j = i THEN pos[i] + 1 ELSE pos[j]
        BY <1>8
      <3>2. CASE j = i
        BY <2>2, <3>1, <3>2
      <3>3. CASE j # i
        BY <2>1, <3>1, <3>3
      <3>4. QED BY <3>2, <3>3
    <2>4. QED BY <2>3
  <1>13. QED
    BY <1>3, <1>4, <1>5, <1>6, <1>7, <1>8, <1>11, <1>12

-----------------------------------------------------------------------------
(* A merge.                                                                *)

LEMMA HeapItems ==
    ASSUME HeapFresh, kind = "merge"
    PROVE  /\ \A i \in 1 .. Len(cursors) :
                IsValid(cursors[i], pos[i]) => <<cursors[i][pos[i]], i>> \in heap
           /\ \A item \in heap :
                /\ item[2] \in 1 .. Len(cursors)
                /\ IsValid(cursors[item[2]], pos[item[2]])
                /\ item = <<cursors[item[2]][pos[item[2]]], item[2]>>
  BY DEF HeapFresh

(* The row of the top of the heap is before every other row that is still  *)
(* to come: those of its own cursor are not smaller and come later, and    *)
(* the first of any other cursor has its item in the heap.                 *)
LEMMA TopIsNext ==
    ASSUME ComposeTypeOK, PassedInv, HeapFresh, kind = "merge",
           NEW item \in heap, IsTop(heap, item),
           NEW row, row = <<item[1], item[2], pos[item[2]]>>,
           NEW later \in AllRows \ RowsReturned, later # row
    PROVE  Lexicographic(row, later)
  <1> DEFINE i == item[2]
             j == later[2]
             p == later[3]
  <1>1. /\ i \in 1 .. Len(cursors) /\ IsValid(cursors[i], pos[i])
        /\ item[1] = cursors[i][pos[i]]
    BY HeapItems
  <1>2. /\ j \in 1 .. Len(cursors) /\ p \in 1 .. Len(cursors[j])
        /\ later = <<cursors[j][p], j, p>>
    BY AllRowsAreRows
  <1>3. p >= pos[j]
    <2>1. later \notin {other \in AllRows : other[3] < pos[other[2]]}
      BY DEF PassedInv
    <2>2. ~(p < pos[j])
      BY <2>1
    <2>3. p \in Int
      BY <1>2, CursorTypes
    <2>4. pos[j] \in Int
      BY <1>2, CursorTypes
    <2>5. QED BY <2>2, <2>3, <2>4
  <1>4. pos[i] \in 1 .. Len(cursors[i]) /\ pos[j] \in 1 .. Len(cursors[j])
    <2>1. pos[i] \in 1 .. Len(cursors[i])
      BY <1>1, CursorTypes DEF IsValid
    <2>2. pos[j] \in 1 .. Len(cursors[j]) + 1 /\ Len(cursors[j]) \in Nat
      BY <1>2, CursorTypes
    <2>3. PICK n, q : n = Len(cursors[j]) /\ q = pos[j]
      OBVIOUS
    <2>4. q \in 1 .. n
      BY <1>2, <1>3, <2>2, <2>3
    <2>5. QED BY <2>1, <2>3, <2>4
  <1>5. /\ cursors[i][pos[i]] \in Int /\ cursors[j][pos[j]] \in Int
        /\ cursors[j][p] \in Int
    BY <1>1, <1>2, <1>4, CursorTypes
  <1>6. cursors[j][pos[j]] <= cursors[j][p]
    <2>1. CASE p = pos[j]
      BY <1>5, <2>1
    <2>2. CASE pos[j] < p
      BY <1>2, <1>4, <2>2 DEF ComposeTypeOK
    <2>3. QED BY <1>2, <1>3, <1>4, <2>1, <2>2
  <1>7. row[1] = cursors[i][pos[i]] /\ row[2] = i /\ row[3] = pos[i]
    BY <1>1
  <1>8. later[1] = cursors[j][p]
    BY <1>2
  <1>9. CASE i = j
    <2>1. p # pos[i]
      BY <1>1, <1>2, <1>9
    <2>2. QED
      BY <1>2, <1>3, <1>4, <1>5, <1>6, <1>7, <1>8, <1>9, <2>1 DEF Lexicographic
  <1>10. CASE i # j
    <2>1. <<cursors[j][pos[j]], j>> \in heap
      BY <1>2, <1>4, HeapItems DEF IsValid
    <2>2. \/ cursors[i][pos[i]] < cursors[j][pos[j]]
          \/ cursors[i][pos[i]] = cursors[j][pos[j]] /\ i <= j
      BY <1>1, <2>1 DEF IsTop
    <2>3. QED
      BY <1>1, <1>2, <1>5, <1>6, <1>7, <1>8, <1>10, <2>2 DEF Lexicographic
  <1>11. QED BY <1>9, <1>10

LEMMA MergeNextKeeps ==
    ComposeInv /\ MergeNext => ComposeInv'
  <1> SUFFICES ASSUME ComposeInv, MergeNext PROVE ComposeInv'
    OBVIOUS
  <1> USE DEF ComposeInv
  <1>1. /\ kind = "merge" /\ kind' = "merge"
        /\ cursors' = cursors /\ given' = given /\ current' = current
    BY DEF MergeNext
  <1>2. PICK item \in heap :
          /\ IsTop(heap, item)
          /\ returned' = Append(returned, <<item[1], item[2], pos[item[2]]>>)
          /\ pos' = [pos EXCEPT ![item[2]] = @ + 1]
          /\ heap' = PushIfValid(heap \ {item}, cursors[item[2]], item[2],
                                 pos[item[2]] + 1)
    BY DEF MergeNext
  <1>3. PICK i, row : i = item[2] /\ row = <<item[1], i, pos[i]>>
    OBVIOUS
  <1>4. HeapFresh
    BY DEF MergeInv
  <1>5. /\ i \in 1 .. Len(cursors) /\ IsValid(cursors[i], pos[i])
        /\ item = <<cursors[i][pos[i]], i>>
    BY <1>1, <1>3, <1>4, HeapItems
  <1>6. row = <<cursors[i][pos[i]], i, pos[i]>>
    BY <1>3, <1>5
  <1>7. returned' = Append(returned, row) /\ pos' = [pos EXCEPT ![i] = @ + 1]
    BY <1>2, <1>3
  <1>8. /\ row \in AllRows \ RowsReturned
        /\ row \in Int \X Nat \X Nat
        /\ RowsReturned' = RowsReturned \cup {row}
        /\ PassedInv'
        /\ returned' \in Seq(Int \X Nat \X Nat)
        /\ pos' \in [1 .. Len(cursors) -> Nat]
        /\ \A j \in 1 .. Len(cursors) : pos'[j] \in 1 .. Len(cursors[j]) + 1
    BY <1>1, <1>5, <1>6, <1>7, RowReturned
  <1>9. pos \in [1 .. Len(cursors) -> Nat] /\ returned \in Seq(Int \X Nat \X Nat)
    BY DEF ComposeTypeOK
  <1>10. /\ pos'[i] = pos[i] + 1
         /\ \A j \in 1 .. Len(cursors) : j # i => pos'[j] = pos[j]
    BY <1>5, <1>7, <1>9
  <1>11. HeapFresh'
    <2>1. PICK fresh : fresh = {<<cursors[j][pos'[j]], j>> :
                       j \in {n \in 1 .. Len(cursors) :
                                IsValid(cursors[n], pos'[n])}}
      OBVIOUS
    <2>2. heap' = IF IsValid(cursors[i], pos'[i])
                    THEN (heap \ {item}) \cup {<<cursors[i][pos'[i]], i>>}
                    ELSE heap \ {item}
      BY <1>2, <1>3, <1>10 DEF PushIfValid
    <2>3. \A x \in heap : x = item <=> x[2] = i
      BY <1>1, <1>4, <1>5, HeapItems
    <2>4. ASSUME NEW x \in heap' PROVE x \in fresh
      <3>1. CASE x \in heap \ {item}
        <4>1. /\ x[2] \in 1 .. Len(cursors) /\ x[2] # i
              /\ IsValid(cursors[x[2]], pos[x[2]])
              /\ x = <<cursors[x[2]][pos[x[2]]], x[2]>>
          BY <1>1, <1>4, <2>3, <3>1, HeapItems
        <4>2. QED BY <1>10, <2>1, <4>1
      <3>2. CASE IsValid(cursors[i], pos'[i]) /\ x = <<cursors[i][pos'[i]], i>>
        BY <1>5, <2>1, <3>2
      <3>3. QED BY <2>2, <2>4, <3>1, <3>2
    <2>5. ASSUME NEW x \in fresh PROVE x \in heap'
      <3>1. PICK j \in 1 .. Len(cursors) :
              IsValid(cursors[j], pos'[j]) /\ x = <<cursors[j][pos'[j]], j>>
        BY <2>1
      <3>2. CASE j = i
        BY <2>2, <3>1, <3>2
      <3>3. CASE j # i
        <4>1. x \in heap /\ x # item
          BY <1>1, <1>4, <1>5, <1>10, <3>1, <3>3, HeapItems
        <4>2. QED BY <2>2, <4>1
      <3>4. QED BY <3>2, <3>3
    <2>6. heap' = fresh
      BY <2>4, <2>5
    <2>7. QED BY <1>1, <2>1, <2>6 DEF HeapFresh
  <1>12. MergeDeterministic'
    <2>1. /\ Len(returned) \in Nat /\ Len(returned') = Len(returned) + 1
          /\ \A n \in 1 .. Len(returned) : returned'[n] = returned[n]
          /\ returned'[Len(returned) + 1] = row
      BY <1>7, <1>8, <1>9, AppendProperties
    <2>2. ASSUME NEW a \in 1 .. Len(returned'), NEW b \in 1 .. Len(returned'),
                 a < b
          PROVE  Lexicographic(returned'[a], returned'[b])
      <3>1. a \in 1 .. Len(returned) /\ returned'[a] = returned[a]
        BY <2>1, <2>2
      <3>2. CASE b \in 1 .. Len(returned)
        BY <1>1, <2>1, <2>2, <3>1, <3>2 DEF MergeInv, MergeDeterministic
      <3>3. CASE b = Len(returned) + 1
        <4>1. returned[a] \in RowsReturned
          BY <3>1 DEF RowsReturned
        <4>2. Lexicographic(returned[a], row)
          BY <1>1, <1>8, <4>1 DEF MergeInv
        <4>3. QED BY <2>1, <3>1, <3>3, <4>2
      <3>4. QED BY <2>1, <3>2, <3>3
    <2>3. QED BY <2>2 DEF MergeDeterministic
  <1>13. ASSUME NEW before \in RowsReturned', NEW later \in AllRows' \ RowsReturned'
         PROVE  Lexicographic(before, later)
    <2>1. later \in AllRows \ RowsReturned /\ later # row
      BY <1>1, <1>8, AllRowsUnchanged
    <2>2. CASE before \in RowsReturned
      BY <1>1, <2>1, <2>2 DEF MergeInv
    <2>3. CASE before = row
      BY <1>1, <1>2, <1>3, <1>4, <2>1, <2>3, TopIsNext
    <2>4. QED BY <1>8, <2>2, <2>3
  <1>14. MergeInv'
    BY <1>11, <1>12, <1>13 DEF MergeInv
  <1>15. heap' \subseteq Int \X Nat
    <2>1. heap \subseteq Int \X Nat
      BY DEF ComposeTypeOK
    <2>2. IsValid(cursors[i], pos[i] + 1) =>
            cursors[i][pos[i] + 1] \in Int
      <3>1. IsValid(cursors[i], pos[i] + 1) => pos[i] + 1 \in 1 .. Len(cursors[i])
        BY <1>5, CursorTypes DEF IsValid
      <3>2. QED BY <1>5, <3>1, CursorTypes
    <2>3. i \in Nat
      BY <1>5, CursorTypes
    <2>4. QED BY <1>2, <1>3, <2>1, <2>2, <2>3 DEF PushIfValid
  <1>16. ComposeTypeOK'
    BY <1>1, <1>8, <1>15 DEF ComposeTypeOK
  <1>17. ChainInv'
    BY <1>1 DEF ChainInv
  <1>18. QED BY <1>8, <1>14, <1>16, <1>17

-----------------------------------------------------------------------------
(* A chain.                                                                *)

LEMMA SkipsToValid ==
    ASSUME Len(cursors) \in Nat, NEW c \in 1 .. Len(cursors), NEW ps,
           NEW next, next = SkipInvalid(c, ps)
    PROVE  /\ next \in c .. Len(cursors) + 1
           /\ \A i \in c .. next - 1 : ~IsValid(cursors[i], ps[i])
           /\ next <= Len(cursors) => IsValid(cursors[next], ps[next])
  <1>1. PICK valid : valid = {i \in c .. Len(cursors) : IsValid(cursors[i], ps[i])}
    OBVIOUS
  <1>2. next = IF valid = {} THEN Len(cursors) + 1
               ELSE CHOOSE i \in valid : \A j \in valid : i <= j
    BY <1>1 DEF SkipInvalid
  <1>3. CASE valid = {}
    BY <1>1, <1>2, <1>3
  <1>4. CASE valid # {}
    <2>1. IsFiniteSet(c .. Len(cursors))
      BY FS_Interval
    <2>2. valid \subseteq Int /\ IsFiniteSet(valid)
      BY <1>1, <2>1, FS_Subset
    <2>3. \E i \in valid : \A j \in valid : i <= j
      BY <1>4, <2>2, LeastOfFinite
    <2>4. next \in valid /\ \A j \in valid : next <= j
      BY <1>2, <1>4, <2>3
    <2>5. QED BY <1>1, <2>4
  <1>5. QED BY <1>3, <1>4

LEMMA ChainNextKeeps ==
    ComposeInv /\ ChainNext => ComposeInv'
  <1> SUFFICES ASSUME ComposeInv, ChainNext PROVE ComposeInv'
    OBVIOUS
  <1> USE DEF ComposeInv
  <1>1. /\ kind \in {"chain", "single"} /\ kind' = kind
        /\ cursors' = cursors /\ given' = given /\ heap' = heap
        /\ current' = SkipInvalid(current, pos')
    BY DEF ChainNext
  <1>2. current \in 1 .. Len(cursors) /\ IsValid(cursors[current], pos[current])
    BY <1>1, CursorTypes DEF ChainNext, ComposeTypeOK, ChainInv
  <1>3. PICK row : row = <<cursors[current][pos[current]], current, pos[current]>>
    OBVIOUS
  <1>4. /\ returned' = Append(returned, row)
        /\ pos' = [pos EXCEPT ![current] = @ + 1]
    BY <1>3 DEF ChainNext
  <1>5. /\ PassedInv'
        /\ returned' \in Seq(Int \X Nat \X Nat)
        /\ pos' \in [1 .. Len(cursors) -> Nat]
        /\ \A j \in 1 .. Len(cursors) : pos'[j] \in 1 .. Len(cursors[j]) + 1
    BY <1>1, <1>2, <1>3, <1>4, RowReturned
  <1>6. /\ current' \in current .. Len(cursors) + 1
        /\ \A i \in current .. current' - 1 : ~IsValid(cursors[i], pos'[i])
        /\ current' <= Len(cursors) => IsValid(cursors[current'], pos'[current'])
    BY <1>1, <1>2, CursorTypes, SkipsToValid
  <1>7. \A i \in 1 .. current - 1 : ~IsValid(cursors[i], pos'[i])
    <2>1. pos \in [1 .. Len(cursors) -> Nat]
      BY DEF ComposeTypeOK
    <2>2. \A i \in 1 .. current - 1 : pos'[i] = pos[i]
      BY <1>2, <1>4, <2>1, CursorTypes
    <2>3. QED BY <1>1, <2>2 DEF ChainInv
  <1>8. ChainInv'
    BY <1>1, <1>2, <1>6, <1>7, CursorTypes DEF ChainInv
  <1>9. MergeInv'
    BY <1>1 DEF MergeInv, HeapFresh, MergeDeterministic
  <1>10. ComposeTypeOK'
    <2>1. current' \in 1 .. Len(cursors) + 1
      BY <1>2, <1>6, CursorTypes
    <2>2. kind' \notin {"none", "empty"}
      BY <1>1
    <2>3. QED BY <1>1, <1>5, <2>1, <2>2 DEF ComposeTypeOK
  <1>11. QED BY <1>5, <1>8, <1>9, <1>10

-----------------------------------------------------------------------------
(* The composition.                                                        *)

LEMMA ValidCursorsTypes ==
    ASSUME given \in Sources, NEW cs \in ValidCursors
    PROVE  /\ cs \in Seq(Seq(Int) \ {<<>>})
           /\ \A i \in 1 .. Len(cs) : \A a, b \in 1 .. Len(cs[i]) :
                a < b => cs[i][a] <= cs[i][b]
  <1>1. PICK valid : valid = {i \in 1 .. Len(given) : given[i] # <<>>}
    OBVIOUS
  <1>2. PICK f \in [1 .. Cardinality(valid) -> valid] :
          cs = [i \in DOMAIN f |-> given[f[i]]]
    BY <1>1 DEF ValidCursors
  <1>3. /\ given \in Seq(Seq(Int))
        /\ \A i \in 1 .. Len(given) : \A a, b \in 1 .. Len(given[i]) :
             a < b => given[i][a] <= given[i][b]
    BY SourcesAssumption
  <1>4. IsFiniteSet(valid)
    <2>1. Len(given) \in Nat
      BY <1>3
    <2>2. IsFiniteSet(1 .. Len(given))
      BY <2>1, FS_Interval
    <2>3. QED BY <1>1, <2>2, FS_Subset
  <1>5. PICK n \in Nat : n = Cardinality(valid)
    BY <1>4, FS_CardinalityType
  <1>6. cs = [i \in 1 .. n |-> given[f[i]]]
    BY <1>2, <1>5
  <1>7. \A i \in 1 .. n : f[i] \in 1 .. Len(given) /\ given[f[i]] # <<>>
    BY <1>1, <1>2, <1>5
  <1>8. \A i \in 1 .. n : cs[i] = given[f[i]] /\ cs[i] \in Seq(Int) \ {<<>>}
    BY <1>3, <1>6, <1>7
  <1>9. cs \in Seq(Seq(Int) \ {<<>>}) /\ Len(cs) = n
    <2>1. cs \in [1 .. n -> Seq(Int) \ {<<>>}]
      BY <1>6, <1>8
    <2>2. QED BY <2>1, SeqDef, LenProperties
  <1>10. QED BY <1>3, <1>7, <1>8, <1>9

(* A composed cursor starts at the first row of every cursor.              *)
LEMMA ComposedStarts ==
    ASSUME ComposeInv, kind = "none",
           cursors' \in ValidCursors,
           kind' \in {"empty", "single", "chain", "merge"},
           kind' = "empty" => cursors' = <<>>,
           pos' = [i \in 1 .. Len(cursors') |-> 1],
           heap' = IF kind' = "merge" THEN InitialHeap(cursors') ELSE {},
           given' = given, current' = current, returned' = returned
    PROVE  ComposeInv'
  <1> USE DEF ComposeInv
  <1>1. /\ given \in Sources /\ cursors = <<>> /\ returned = <<>>
        /\ current = 1
    BY DEF ComposeTypeOK
  <1>2. /\ cursors' \in Seq(Seq(Int) \ {<<>>})
        /\ \A i \in 1 .. Len(cursors') : \A a, b \in 1 .. Len(cursors'[i]) :
             a < b => cursors'[i][a] <= cursors'[i][b]
    BY <1>1, ValidCursorsTypes
  <1>3. Len(cursors') \in Nat
    BY <1>2
  <1>4. \A i \in 1 .. Len(cursors') :
          /\ cursors'[i] \in Seq(Int)
          /\ Len(cursors'[i]) \in Nat /\ Len(cursors'[i]) >= 1
          /\ cursors'[i][1] \in Int
          /\ pos'[i] = 1
    <2> TAKE i \in 1 .. Len(cursors')
    <2>1. cursors'[i] \in Seq(Int) \ {<<>>}
      BY <1>2
    <2>2. Len(cursors'[i]) \in Nat /\ Len(cursors'[i]) # 0
      BY <2>1, EmptySeq
    <2>3. QED BY <2>1, <2>2
  <1>5. InitialHeap(cursors') =
          {<<cursors'[i][1], i>> : i \in 1 .. Len(cursors')}
    <2>1. \A i \in 1 .. Len(cursors') : cursors'[i] # <<>>
      BY <1>2
    <2>2. QED BY <2>1 DEF InitialHeap
  <1>6. heap' \subseteq Int \X Nat
    BY <1>3, <1>4, <1>5
  <1>7. ComposeTypeOK'
    <2>1. \A i \in 1 .. Len(cursors') : pos'[i] \in 1 .. Len(cursors'[i]) + 1
      BY <1>4
    <2>2. pos' \in [1 .. Len(cursors') -> Nat]
      OBVIOUS
    <2>3. kind' \in {"none", "empty"} => cursors' = <<>> /\ returned' = <<>>
      BY <1>1
    <2>4. current' \in 1 .. Len(cursors') + 1
      BY <1>1, <1>3
    <2>5. returned' \in Seq(Int \X Nat \X Nat)
      BY DEF ComposeTypeOK
    <2>6. QED BY <1>1, <1>2, <1>6, <2>1, <2>2, <2>3, <2>4, <2>5 DEF ComposeTypeOK
  <1>8. RowsReturned' = {} /\ Len(returned') = 0
    BY <1>1 DEF RowsReturned
  <1>9. PassedInv'
    <2>1. ASSUME NEW row \in AllRows' PROVE ~(row[3] < pos'[row[2]])
      <3>1. row[2] \in 1 .. Len(cursors') /\ row[3] \in 1 .. Len(cursors'[row[2]])
        BY DEF AllRows
      <3>2. QED BY <1>4, <3>1
    <2>2. IsFiniteSet({}) /\ Cardinality({}) = 0
      BY FS_EmptySet
    <2>3. QED BY <1>8, <2>1, <2>2 DEF PassedInv
  <1>10. MergeInv'
    <2>1. \A i \in 1 .. Len(cursors') : IsValid(cursors'[i], pos'[i])
      BY <1>4 DEF IsValid
    <2>2. kind' = "merge" =>
            heap' = {<<cursors'[i][pos'[i]], i>> : i \in 1 .. Len(cursors')}
      BY <1>4, <1>5
    <2>3. HeapFresh'
      BY <2>1, <2>2 DEF HeapFresh
    <2>4. MergeDeterministic'
      BY <1>8 DEF MergeDeterministic
    <2>5. QED BY <1>8, <2>3, <2>4 DEF MergeInv
  <1>11. ChainInv'
    BY <1>1, <1>3, <1>4 DEF ChainInv, IsValid
  <1>12. QED BY <1>7, <1>9, <1>10, <1>11

-----------------------------------------------------------------------------
(* The theorems.                                                           *)

LEMMA ComposeInitInv ==
    ComposeInit => ComposeInv
  <1> SUFFICES ASSUME ComposeInit PROVE ComposeInv
    OBVIOUS
  <1>1. /\ given \in Sources /\ cursors = <<>> /\ kind = "none" /\ pos = <<>>
        /\ heap = {} /\ current = 1 /\ returned = <<>>
        /\ Len(cursors) = 0 /\ Len(returned) = 0
    BY DEF ComposeInit
  <1>2. ComposeTypeOK
    BY <1>1 DEF ComposeTypeOK
  <1>3. RowsReturned = {} /\ AllRows = {}
    BY <1>1 DEF RowsReturned, AllRows
  <1>4. PassedInv
    BY <1>1, <1>3, FS_EmptySet DEF PassedInv
  <1>5. MergeInv /\ ChainInv
    BY <1>1 DEF MergeInv, HeapFresh, MergeDeterministic, ChainInv
  <1>6. QED BY <1>2, <1>4, <1>5 DEF ComposeInv

LEMMA ComposeNextInv ==
    ComposeInv /\ [ComposeNext]_compose_vars => ComposeInv'
  <1> SUFFICES ASSUME ComposeInv, [ComposeNext]_compose_vars
               PROVE  ComposeInv'
    OBVIOUS
  <1>1. ASSUME NEW order \in {"Unordered", "KeyAscending"}, Compose(order)
        PROVE  ComposeInv'
    <2>1. cursors' \in Seq(Seq(Int) \ {<<>>})
      BY <1>1, ValidCursorsTypes DEF Compose, ComposeInv, ComposeTypeOK
    <2>2. /\ kind' \in {"empty", "single", "chain", "merge"}
          /\ kind' = "empty" => cursors' = <<>>
      BY <1>1, <2>1, EmptySeq DEF Compose
    <2>3. QED BY <1>1, <2>2, ComposedStarts DEF Compose
  <1>2. CASE ComposeMerge
    BY <1>2, ComposedStarts DEF ComposeMerge
  <1>3. CASE UNCHANGED compose_vars
    <2>1. RowsReturned' = RowsReturned /\ AllRows' = AllRows
      BY <1>3 DEF compose_vars, RowsReturned, AllRows
    <2>2. QED
      BY <1>3, <2>1 DEF compose_vars, ComposeInv, ComposeTypeOK, PassedInv,
                        MergeInv, HeapFresh, MergeDeterministic, ChainInv
  <1>4. QED
    BY <1>1, <1>2, <1>3, MergeNextKeeps, ChainNextKeeps DEF ComposeNext

(* The places of the cursors, the heap and the rows returned fit together  *)
(* at all times.                                                           *)
THEOREM ComposeInvariant == ComposeSpec => []ComposeInv
  <1>1. QED BY ComposeInitInv, ComposeNextInv, PTL DEF ComposeSpec

(* heap_ holds exactly the current key of every valid cursor, so key() and *)
(* value() of a merge speak of the same row.                               *)
THEOREM HeapIsFresh == ComposeSpec => []HeapFresh
  <1>1. ComposeInv => HeapFresh
    BY DEF ComposeInv, MergeInv
  <1>2. QED BY <1>1, ComposeInvariant, PTL

(* A merge returns rows by key, then by source, then by their place in it: *)
(* its result depends on nothing else.                                     *)
THEOREM MergeIsDeterministic == ComposeSpec => []MergeDeterministic
  <1>1. ComposeInv => MergeDeterministic
    BY DEF ComposeInv, MergeInv
  <1>2. QED BY <1>1, ComposeInvariant, PTL

(* A composed cursor never returns a row twice, and when it is no longer   *)
(* valid it has returned every row of every cursor.                        *)
THEOREM EveryRowOnce == ComposeSpec => []AllRowsOnce
  <1>1. ASSUME ComposeInv PROVE AllRowsOnce
    <2>1. /\ RowsReturned \subseteq AllRows
          /\ Cardinality(RowsReturned) = Len(returned)
      BY <1>1 DEF ComposeInv, PassedInv
    <2>2. ASSUME kind # "none", ~ComposedValid,
                 NEW i \in 1 .. Len(cursors)
          PROVE  ~IsValid(cursors[i], pos[i])
      <3>1. CASE kind = "merge"
        BY <1>1, <2>2, <3>1, HeapItems DEF ComposeInv, MergeInv, ComposedValid
      <3>2. CASE kind \in {"single", "chain"}
        <4>1. ~(current <= Len(cursors))
          BY <2>2, <3>2 DEF ComposedValid
        <4>2. current \in 1 .. Len(cursors) + 1 /\ Len(cursors) \in Nat
          BY <1>1, CursorTypes DEF ComposeInv, ComposeTypeOK
        <4>3. i \in 1 .. current - 1
          BY <4>1, <4>2
        <4>4. QED BY <1>1, <3>2, <4>3 DEF ComposeInv, ChainInv
      <3>3. CASE kind = "empty"
        <4>1. Len(cursors) = 0
          BY <1>1, <3>3 DEF ComposeInv, ComposeTypeOK
        <4>2. QED BY <4>1
      <3>4. QED BY <1>1, <2>2, <3>1, <3>2, <3>3 DEF ComposeInv, ComposeTypeOK
    <2>3. ASSUME kind # "none", ~ComposedValid, NEW row \in AllRows
          PROVE  row \in RowsReturned
      <3>1. /\ row[2] \in 1 .. Len(cursors)
            /\ row[3] \in 1 .. Len(cursors[row[2]])
        BY AllRowsAreRows
      <3>2. row[3] < pos[row[2]]
        BY <1>1, <2>2, <2>3, <3>1, CursorTypes DEF IsValid, ComposeInv
      <3>3. QED BY <1>1, <3>2 DEF ComposeInv, PassedInv
    <2>4. QED BY <2>1, <2>3 DEF AllRowsOnce, RowsReturned
  <1>2. QED BY <1>1, ComposeInvariant, PTL
=============================================================================
