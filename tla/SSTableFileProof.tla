-------------------------- MODULE SSTableFileProof -------------------------
(***************************************************************************)
(* Proofs about SSTableFile: a cursor returns the rows of its range, in    *)
(* order and each once, unless the rows of the lower bound's key run over  *)
(* the end of a block.  For every number, size and key of the rows, every  *)
(* target of the blocks and every choice of the index step.                *)
(***************************************************************************)
EXTENDS SSTableFile, LeastElement, SequenceTheorems

-----------------------------------------------------------------------------
(* Minimum and maximum.                                                    *)

LEMMA MinIsLeast ==
    ASSUME NEW S, S \subseteq Int, IsFiniteSet(S), S # {}
    PROVE  Min(S) \in S /\ \A y \in S : Min(S) <= y
  BY LeastOfFinite DEF Min

LEMMA PartOfInterval ==
    ASSUME NEW lo \in Int, NEW hi \in Int, NEW S, S \subseteq lo .. hi
    PROVE  IsFiniteSet(S) /\ S \subseteq Int
  <1>1. IsFiniteSet(lo .. hi)
    BY FS_Interval
  <1>2. IsFiniteSet(S)
    BY <1>1, FS_Subset
  <1>3. lo .. hi \subseteq Int
    OBVIOUS
  <1>4. QED BY <1>2, <1>3

LEMMA MaxIsMember ==
    ASSUME NEW n \in Nat, NEW S, S \subseteq 0 .. n, S # {}
    PROVE  Max(S) \in S
  BY GreatestOfBounded DEF Max

LEMMA MaxOfTwo ==
    ASSUME NEW a \in Int, NEW b \in Int
    PROVE  Max({a, b}) \in {a, b} /\ Max({a, b}) >= a /\ Max({a, b}) >= b
  <1>1. \E x \in {a, b} : \A y \in {a, b} : x >= y
    OBVIOUS
  <1>2. QED BY <1>1 DEF Max

-----------------------------------------------------------------------------
(* Types.                                                                  *)

LEMMA RowTypes ==
    ASSUME NEW r \in Row
    PROVE  r.key \in Keys /\ r.key \in Int /\ r.seq \in Nat
  <1>1. r.key \in Keys /\ r.seq \in 1 .. MaxFileRows
    BY DEF Row
  <1>2. Keys \subseteq Int /\ MaxFileRows \in Nat
    BY FileAssumption
  <1>3. r.key \in Int
    BY <1>1, <1>2
  <1>4. r.seq \in Nat
    BY <1>1, <1>2
  <1>5. QED BY <1>1, <1>3, <1>4

LEMMA SeqTypes ==
    ASSUME NEW S, NEW s \in Seq(S)
    PROVE  Len(s) \in Nat /\ \A n \in 1 .. Len(s) : s[n] \in S
  OBVIOUS

LEMMA FunctionIsSeq ==
    ASSUME NEW S, NEW n \in Nat, NEW s, s \in [1 .. n -> S]
    PROVE  s \in Seq(S) /\ Len(s) = n
  <1>1. s \in Seq(S)
    BY SeqDef
  <1>2. Len(s) \in Nat /\ DOMAIN s = 1 .. Len(s)
    BY <1>1, LenProperties
  <1>3. 1 .. Len(s) = 1 .. n
    BY <1>2
  <1>4. QED BY <1>1, <1>2, <1>3

LEMMA BlockTypes ==
    ASSUME NEW all \in Seq(Seq(Row) \ {<<>>})
    PROVE  /\ Len(all) \in Nat
           /\ \A i \in 1 .. Len(all) :
                /\ all[i] \in Seq(Row)
                /\ Len(all[i]) \in Nat /\ Len(all[i]) >= 1
                /\ \A p \in 1 .. Len(all[i]) : all[i][p] \in Row
  <1>1. Len(all) \in Nat /\ \A i \in 1 .. Len(all) : all[i] \in Seq(Row) \ {<<>>}
    OBVIOUS
  <1>2. ASSUME NEW i \in 1 .. Len(all)
        PROVE  /\ all[i] \in Seq(Row)
               /\ Len(all[i]) \in Nat /\ Len(all[i]) >= 1
               /\ \A p \in 1 .. Len(all[i]) : all[i][p] \in Row
    <2>1. all[i] \in Seq(Row) /\ all[i] # <<>>
      BY <1>1
    <2>2. Len(all[i]) \in Nat /\ Len(all[i]) # 0
      BY <2>1, EmptySeq
    <2>3. \A p \in 1 .. Len(all[i]) : all[i][p] \in Row
      BY <2>1
    <2>4. QED BY <2>1, <2>2, <2>3
  <1>3. QED BY <1>1, <1>2

LEMMA FileTypes ==
    ASSUME FileTypeOK
    PROVE  /\ Len(added) \in Nat /\ Len(buffer) \in Nat /\ Len(blocks) \in Nat
           /\ \A n \in 1 .. Len(added) : added[n] \in Row
           /\ \A p \in 1 .. Len(buffer) : buffer[p] \in Row
           /\ \A i \in 1 .. Len(blocks) :
                /\ blocks[i] \in Seq(Row)
                /\ Len(blocks[i]) \in Nat /\ Len(blocks[i]) >= 1
                /\ \A p \in 1 .. Len(blocks[i]) : blocks[i][p] \in Row
  <1>1. /\ added \in Seq(Row) /\ buffer \in Seq(Row)
        /\ blocks \in Seq(Seq(Row) \ {<<>>})
    BY DEF FileTypeOK
  <1>2. QED BY <1>1, SeqTypes, BlockTypes

-----------------------------------------------------------------------------
(* Runs of rows.                                                           *)

LEMMA RunExtends ==
    ASSUME NEW all \in Seq(Row), NEW row \in Row, NEW block,
           IsRun(all, block)
    PROVE  IsRun(Append(all, row), block)
  <1>1. /\ Len(all) \in Nat /\ Len(Append(all, row)) = Len(all) + 1
        /\ \A n \in 1 .. Len(all) : Append(all, row)[n] = all[n]
    BY AppendProperties
  <1>2. QED BY <1>1 DEF IsRun

LEMMA RunAppended ==
    ASSUME NEW all \in Seq(Row), NEW row \in Row, NEW block \in Seq(Row),
           IsRun(all, block), row.seq = Len(all) + 1
    PROVE  IsRun(Append(all, row), Append(block, row))
  <1>1. /\ Len(all) \in Nat /\ Len(Append(all, row)) = Len(all) + 1
        /\ \A n \in 1 .. Len(all) : Append(all, row)[n] = all[n]
        /\ Append(all, row)[Len(all) + 1] = row
    BY AppendProperties
  <1>2. /\ Len(block) \in Nat /\ Len(Append(block, row)) = Len(block) + 1
        /\ \A p \in 1 .. Len(block) : Append(block, row)[p] = block[p]
        /\ Append(block, row)[Len(block) + 1] = row
    BY AppendProperties
  <1>3. PICK longer : longer = Append(block, row)
    OBVIOUS
  <1>4. ASSUME NEW p \in 1 .. Len(longer)
        PROVE  /\ longer[p].seq \in 1 .. Len(all) + 1
               /\ longer[p] = Append(all, row)[longer[p].seq]
               /\ p <= Len(block) => longer[p].seq \in 1 .. Len(all)
    <2>1. CASE p \in 1 .. Len(block)
      BY <1>1, <1>2, <1>3, <2>1 DEF IsRun
    <2>2. CASE p = Len(block) + 1
      BY <1>1, <1>2, <1>3, <2>2
    <2>3. QED BY <1>2, <1>3, <2>1, <2>2
  <1>5. ASSUME NEW p \in 1 .. Len(longer), NEW q \in 1 .. Len(longer), p < q
        PROVE  longer[p].seq < longer[q].seq
    <2>1. p \in 1 .. Len(block) /\ longer[p].seq \in 1 .. Len(all)
      BY <1>2, <1>3, <1>4, <1>5
    <2>2. CASE q \in 1 .. Len(block)
      BY <1>2, <1>3, <1>5, <2>1, <2>2 DEF IsRun
    <2>3. CASE q = Len(block) + 1
      BY <1>1, <1>2, <1>3, <2>1, <2>3
    <2>4. QED BY <1>2, <1>3, <2>2, <2>3
  <1>6. QED BY <1>1, <1>3, <1>4, <1>5 DEF IsRun

LEMMA RunBeforeNew ==
    ASSUME NEW all \in Seq(Row), NEW row \in Row, NEW block, NEW next \in Seq(Row),
           IsRun(all, block), IsBefore(block, next), row.seq = Len(all) + 1
    PROVE  IsBefore(block, Append(next, row))
  <1>1. Len(all) \in Nat
    OBVIOUS
  <1>2. /\ Len(next) \in Nat /\ Len(Append(next, row)) = Len(next) + 1
        /\ \A q \in 1 .. Len(next) : Append(next, row)[q] = next[q]
        /\ Append(next, row)[Len(next) + 1] = row
    BY AppendProperties
  <1>3. ASSUME NEW p \in 1 .. Len(block), NEW q \in 1 .. Len(next) + 1
        PROVE  block[p].seq < Append(next, row)[q].seq
    <2>1. CASE q \in 1 .. Len(next)
      BY <1>2, <2>1 DEF IsBefore
    <2>2. CASE q = Len(next) + 1
      <3>1. block[p].seq \in 1 .. Len(all)
        BY DEF IsRun
      <3>2. QED BY <1>1, <1>2, <2>2, <3>1
    <2>3. QED BY <1>2, <2>1, <2>2
  <1>4. QED BY <1>2, <1>3 DEF IsBefore

LEMMA NothingIsRun ==
    ASSUME NEW all, NEW block
    PROVE  IsRun(all, <<>>) /\ IsBefore(block, <<>>) /\ IsBefore(<<>>, block)
  BY DEF IsRun, IsBefore

(* The rows of the table are ordered like their places.                    *)
LEMMA SeqOrder ==
    ASSUME FileTypeOK, BlocksInv,
           NEW i \in 1 .. Len(blocks), NEW p \in 1 .. Len(blocks[i]),
           NEW j \in 1 .. Len(blocks), NEW q \in 1 .. Len(blocks[j])
    PROVE  /\ blocks[i][p].seq \in 1 .. Len(added)
           /\ blocks[i][p] = added[blocks[i][p].seq]
           /\ i < j \/ (i = j /\ p < q) =>
                blocks[i][p].seq < blocks[j][q].seq
           /\ i = j /\ p = q <=> blocks[i][p] = blocks[j][q]
  <1>1. /\ IsRun(added, blocks[i])
        /\ i < j => IsBefore(blocks[i], blocks[j])
        /\ j < i => IsBefore(blocks[j], blocks[i])
    BY DEF BlocksInv
  <1>2. /\ Len(blocks) \in Nat /\ Len(blocks[i]) \in Nat /\ Len(blocks[j]) \in Nat
        /\ blocks[i][p].seq \in Nat /\ blocks[j][q].seq \in Nat
    BY FileTypes, RowTypes
  <1>3. /\ blocks[i][p].seq \in 1 .. Len(added)
        /\ blocks[i][p] = added[blocks[i][p].seq]
    BY <1>1 DEF IsRun
  <1>4. i < j => blocks[i][p].seq < blocks[j][q].seq
    BY <1>1 DEF IsBefore
  <1>5. j < i => blocks[j][q].seq < blocks[i][p].seq
    BY <1>1 DEF IsBefore
  <1>6. i = j => /\ p < q => blocks[i][p].seq < blocks[j][q].seq
                 /\ q < p => blocks[j][q].seq < blocks[i][p].seq
    BY <1>1 DEF IsRun
  <1>7. i = j /\ p = q <=> blocks[i][p] = blocks[j][q]
    BY <1>2, <1>4, <1>5, <1>6
  <1>8. QED BY <1>3, <1>4, <1>6, <1>7

LEMMA KeyOrder ==
    ASSUME FileTypeOK, AddedInv, BlocksInv,
           NEW i \in 1 .. Len(blocks), NEW p \in 1 .. Len(blocks[i]),
           NEW j \in 1 .. Len(blocks), NEW q \in 1 .. Len(blocks[j]),
           i < j \/ (i = j /\ p <= q)
    PROVE  blocks[i][p].key <= blocks[j][q].key
  <1>1. blocks[i][p].key \in Int /\ blocks[j][q].key \in Int
    BY FileTypes, RowTypes
  <1>2. CASE i = j /\ p = q
    BY <1>1, <1>2
  <1>3. CASE ~(i = j /\ p = q)
    <2>1. i < j \/ (i = j /\ p < q)
      BY <1>3
    <2>2. blocks[i][p].seq < blocks[j][q].seq
      BY <2>1, SeqOrder
    <2>3. /\ blocks[i][p].seq \in 1 .. Len(added)
          /\ blocks[i][p] = added[blocks[i][p].seq]
          /\ blocks[j][q].seq \in 1 .. Len(added)
          /\ blocks[j][q] = added[blocks[j][q].seq]
      BY SeqOrder
    <2>4. QED BY <2>2, <2>3 DEF AddedInv
  <1>4. QED BY <1>2, <1>3

-----------------------------------------------------------------------------
(* The builder.                                                            *)

LEMMA FileInitInv ==
    FileInit => FileInv
  <1> SUFFICES ASSUME FileInit PROVE FileInv
    OBVIOUS
  <1> USE DEF FileInit
  <1>1. /\ Len(added) = 0 /\ Len(buffer) = 0 /\ Len(blocks) = 0
        /\ Len(index) = 0 /\ Len(rows) = 0 /\ Len(out) = 0
    OBVIOUS
  <1>2. FileTypeOK
    BY <1>1 DEF FileTypeOK, OptKeys
  <1>3. AddedInv
    BY <1>1, FileAssumption DEF AddedInv
  <1>4. BlocksInv
    BY <1>1 DEF BlocksInv, IsRun, IsBefore
  <1>5. IndexInv
    BY <1>1 DEF IndexInv
  <1>6. PositionInv
    BY <1>1 DEF PositionInv, Valid
  <1>7. SelectionInv
    BY DEF SelectionInv
  <1>8. QED BY <1>2, <1>3, <1>4, <1>5, <1>6, <1>7 DEF FileInv

LEMMA AddRowKeeps ==
    ASSUME FileInv, NEW row \in Row, AddRow(row)
    PROVE  FileInv'
  <1> USE DEF FileInv
  <1>1. /\ phase = "building" /\ phase' = "building"
        /\ row.seq = Len(added) + 1 /\ Len(added) < MaxFileRows
        /\ added' = Append(added, row)
        /\ layout' = layout /\ options' = options /\ index' = index
        /\ range' = range /\ selected' = selected /\ next_block' = next_block
        /\ rows' = rows /\ row_idx' = row_idx /\ out' = out
    BY DEF AddRow, cursor
  <1>2. /\ added \in Seq(Row) /\ buffer \in Seq(Row)
        /\ blocks \in Seq(Seq(Row) \ {<<>>})
    BY DEF FileTypeOK
  <1>3. /\ Len(added) \in Nat /\ Len(added') = Len(added) + 1
        /\ \A n \in 1 .. Len(added) : added'[n] = added[n]
        /\ added'[Len(added) + 1] = row
    BY <1>1, <1>2, AppendProperties
  <1>4. /\ IsRun(added, buffer)
        /\ \A i \in 1 .. Len(blocks) :
             IsRun(added, blocks[i]) /\ IsBefore(blocks[i], buffer)
        /\ \A i, j \in 1 .. Len(blocks) : i < j => IsBefore(blocks[i], blocks[j])
    BY DEF BlocksInv
  <1>5. \A block : IsRun(added, block) => IsRun(added', block)
    BY <1>1, <1>2, RunExtends
  <1>6. AddedInv'
    <2>1. \A n \in 1 .. Len(added') : added'[n].seq = n
      BY <1>1, <1>3 DEF AddedInv
    <2>2. \A n \in 1 .. Len(added) : added[n].key <= row.key
      <3> TAKE n \in 1 .. Len(added)
      <3>1. added # <<>>
        BY <1>2
      <3>2. row.key >= added[Len(added)].key
        BY <1>1, <3>1 DEF AddRow, InOrder, Last
      <3>3. /\ added[n].key \in Int /\ added[Len(added)].key \in Int
            /\ row.key \in Int
        BY <1>2, FileTypes, RowTypes
      <3>4. added[n].key <= added[Len(added)].key
        BY <1>3, <3>3 DEF AddedInv
      <3>5. QED BY <3>2, <3>3, <3>4
    <2>3. ASSUME NEW m \in 1 .. Len(added'), NEW n \in 1 .. Len(added'), m < n
          PROVE  added'[m].key <= added'[n].key
      <3>1. m \in 1 .. Len(added)
        BY <1>3, <2>3
      <3>2. CASE n \in 1 .. Len(added)
        BY <1>3, <2>3, <3>1, <3>2 DEF AddedInv
      <3>3. CASE n = Len(added) + 1
        BY <1>3, <2>2, <3>1, <3>3
      <3>4. QED BY <1>3, <3>2, <3>3
    <2>4. Len(added') <= MaxFileRows
      BY <1>1, <1>3, FileAssumption
    <2>5. QED BY <2>1, <2>3, <2>4 DEF AddedInv
  <1>7. CASE Full(buffer)
    <2>1. blocks' = Append(blocks, buffer) /\ buffer' = <<row>> /\ buffer # <<>>
      BY <1>1, <1>7 DEF AddRow, Full
    <2>2. /\ blocks' \in Seq(Seq(Row) \ {<<>>})
          /\ Len(blocks) \in Nat /\ Len(blocks') = Len(blocks) + 1
          /\ \A i \in 1 .. Len(blocks) : blocks'[i] = blocks[i]
          /\ blocks'[Len(blocks) + 1] = buffer
      BY <1>2, <2>1, AppendProperties
    <2>3. /\ buffer' \in Seq(Row) /\ buffer' = Append(<<>>, row)
          /\ Len(buffer') = 1 /\ buffer'[1] = row
      BY <2>1
    <2>4. FileTypeOK'
      <3>1. /\ selected' \subseteq 0 .. Len(blocks') - 1
            /\ next_block' \in 0 .. Len(blocks')
        BY <1>1, <2>2 DEF FileTypeOK
      <3>2. added' \in Seq(Row)
        BY <1>1, <1>2
      <3>3. QED BY <1>1, <2>2, <2>3, <3>1, <3>2 DEF FileTypeOK
    <2>5. \A i \in 1 .. Len(blocks') :
            /\ IsRun(added, blocks'[i])
            /\ IsRun(added', blocks'[i]) /\ IsBefore(blocks'[i], buffer')
      <3> TAKE i \in 1 .. Len(blocks')
      <3>1. IsRun(added, blocks'[i])
        BY <1>4, <2>2
      <3>2. IsBefore(blocks'[i], <<>>)
        BY NothingIsRun
      <3>3. <<>> \in Seq(Row)
        OBVIOUS
      <3>4. IsBefore(blocks'[i], buffer')
        BY <1>1, <1>2, <2>3, <3>1, <3>2, <3>3, RunBeforeNew
      <3>5. QED BY <1>5, <3>1, <3>4
    <2>6. IsRun(added', buffer')
      <3>1. IsRun(added, <<>>) /\ <<>> \in Seq(Row)
        BY NothingIsRun
      <3>2. QED BY <1>1, <1>2, <2>3, <3>1, RunAppended
    <2>7. ASSUME NEW i \in 1 .. Len(blocks'), NEW j \in 1 .. Len(blocks'), i < j
          PROVE  IsBefore(blocks'[i], blocks'[j])
      <3>1. i \in 1 .. Len(blocks)
        BY <2>2, <2>7
      <3>2. CASE j \in 1 .. Len(blocks)
        BY <1>4, <2>2, <2>7, <3>1, <3>2
      <3>3. CASE j = Len(blocks) + 1
        BY <1>4, <2>2, <3>1, <3>3
      <3>4. QED BY <2>2, <3>2, <3>3
    <2>8. ASSUME NEW n \in 1 .. Len(added')
          PROVE  \/ \E p \in 1 .. Len(buffer') : buffer'[p] = added'[n]
                 \/ \E i \in 1 .. Len(blocks') :
                      \E p \in 1 .. Len(blocks'[i]) : blocks'[i][p] = added'[n]
      <3>1. CASE n = Len(added) + 1
        BY <1>3, <2>3, <3>1
      <3>2. CASE n \in 1 .. Len(added)
        <4>1. \/ \E p \in 1 .. Len(buffer) : buffer[p] = added[n]
              \/ \E i \in 1 .. Len(blocks) :
                   \E p \in 1 .. Len(blocks[i]) : blocks[i][p] = added[n]
          BY <3>2 DEF BlocksInv
        <4>2. Len(blocks) + 1 \in 1 .. Len(blocks')
          BY <2>2
        <4>3. 1 .. Len(blocks) \subseteq 1 .. Len(blocks')
          BY <2>2
        <4>4. QED BY <1>3, <2>2, <3>2, <4>1, <4>2, <4>3
      <3>3. QED BY <1>3, <3>1, <3>2
    <2>9. BlocksInv'
      BY <2>1, <2>5, <2>6, <2>7, <2>8 DEF BlocksInv
    <2>10. IndexInv'
      <3>1. ASSUME NEW i \in 1 .. Len(index')
            PROVE  /\ index'[i].block_id \in 0 .. Len(blocks') - 1
                   /\ index'[i].min_key = blocks'[index'[i].block_id + 1][1].key
        <4>1. /\ index[i].block_id \in 0 .. Len(blocks) - 1
              /\ index[i].min_key = blocks[index[i].block_id + 1][1].key
          BY <1>1 DEF IndexInv
        <4>2. PICK b : b = index[i].block_id + 1
          OBVIOUS
        <4>3. b \in 1 .. Len(blocks)
          <5>1. PICK id : id = index[i].block_id
            OBVIOUS
          <5>2. id \in 0 .. Len(blocks) - 1 /\ b = id + 1 /\ Len(blocks) \in Nat
            BY <2>2, <4>1, <4>2, <5>1
          <5>3. QED BY <5>2
        <4>4. blocks'[b] = blocks[b] /\ index[i].min_key = blocks[b][1].key
          BY <2>2, <4>1, <4>2, <4>3
        <4>5. index[i].block_id \in 0 .. Len(blocks') - 1
          BY <2>2, <4>1
        <4>6. QED BY <1>1, <4>2, <4>4, <4>5
      <3>2. QED BY <1>1, <3>1 DEF IndexInv
    <2>11. PositionInv'
      BY <1>1 DEF PositionInv, Valid
    <2>12. SelectionInv'
      BY <1>1 DEF SelectionInv
    <2>13. QED BY <1>6, <2>4, <2>9, <2>10, <2>11, <2>12
  <1>8. CASE ~Full(buffer)
    <2>1. blocks' = blocks /\ buffer' = Append(buffer, row)
      BY <1>1, <1>8 DEF AddRow
    <2>2. /\ buffer' \in Seq(Row) /\ buffer' # <<>>
          /\ Len(buffer) \in Nat /\ Len(buffer') = Len(buffer) + 1
          /\ \A p \in 1 .. Len(buffer) : buffer'[p] = buffer[p]
          /\ buffer'[Len(buffer) + 1] = row
      BY <1>2, <2>1, AppendProperties
    <2>3. FileTypeOK'
      <3>1. added' \in Seq(Row)
        BY <1>1, <1>2
      <3>2. QED BY <1>1, <2>1, <2>2, <3>1 DEF FileTypeOK
    <2>4. \A i \in 1 .. Len(blocks) :
            IsRun(added', blocks[i]) /\ IsBefore(blocks[i], buffer')
      BY <1>1, <1>2, <1>4, <1>5, <2>1, RunBeforeNew
    <2>5. IsRun(added', buffer')
      BY <1>1, <1>2, <1>4, <2>1, RunAppended
    <2>6. ASSUME NEW n \in 1 .. Len(added')
          PROVE  \/ \E p \in 1 .. Len(buffer') : buffer'[p] = added'[n]
                 \/ \E i \in 1 .. Len(blocks) :
                      \E p \in 1 .. Len(blocks[i]) : blocks[i][p] = added'[n]
      <3>1. CASE n = Len(added) + 1
        <4>1. Len(buffer) + 1 \in 1 .. Len(buffer')
          BY <2>2
        <4>2. QED BY <1>3, <2>2, <3>1, <4>1
      <3>2. CASE n \in 1 .. Len(added)
        <4>1. \/ \E p \in 1 .. Len(buffer) : buffer[p] = added[n]
              \/ \E i \in 1 .. Len(blocks) :
                   \E p \in 1 .. Len(blocks[i]) : blocks[i][p] = added[n]
          BY <3>2 DEF BlocksInv
        <4>2. 1 .. Len(buffer) \subseteq 1 .. Len(buffer')
          BY <2>2
        <4>3. QED BY <1>3, <2>2, <3>2, <4>1, <4>2
      <3>3. QED BY <1>3, <3>1, <3>2
    <2>7. BlocksInv'
      BY <1>4, <2>1, <2>2, <2>4, <2>5, <2>6 DEF BlocksInv
    <2>8. IndexInv'
      BY <1>1, <2>1 DEF IndexInv
    <2>9. PositionInv'
      BY <1>1 DEF PositionInv, Valid
    <2>10. SelectionInv'
      BY <1>1 DEF SelectionInv
    <2>11. QED BY <1>6, <2>3, <2>7, <2>8, <2>9, <2>10
  <1>9. QED BY <1>7, <1>8

-----------------------------------------------------------------------------
(* The index.                                                              *)

LEMMA IndexStep ==
    ASSUME FileTypeOK, NEW n \in Nat
    PROVE  ChooseSparseIndexStep(n) \in Nat \ {0}
  <1>1. /\ options.fixed_step \in Nat /\ options.target_index_bytes \in Nat
        /\ options.min_step \in Nat \ {0} /\ options.max_step \in Nat \ {0}
    <2>1. options \in [fixed_step : Nat, target_index_bytes : Nat,
                       min_step : Nat \ {0}, max_step : Nat \ {0}]
      BY FileAssumption DEF FileTypeOK
    <2>2. QED BY <2>1
  <1>2. PICK most : most = Max({options.min_step, options.max_step})
    OBVIOUS
  <1>3. most \in Nat \ {0} /\ most >= options.min_step
    <2>1. PICK lo, hi : lo = options.min_step /\ hi = options.max_step
      OBVIOUS
    <2>2. lo \in Nat \ {0} /\ hi \in Nat \ {0} /\ most = Max({lo, hi})
      BY <1>1, <1>2, <2>1
    <2>3. most \in {lo, hi} /\ most >= lo
      BY <2>2, MaxOfTwo
    <2>4. QED BY <2>1, <2>2, <2>3
  <1>4. PICK share : share = options.target_index_bytes \div IndexEntryBytes
    OBVIOUS
  <1>5. share \in Int
    BY <1>1, <1>4, FileAssumption
  <1>6. PICK entries : entries = Max({1, share})
    OBVIOUS
  <1>7. entries \in Nat \ {0}
    BY <1>5, <1>6, MaxOfTwo
  <1>8. (n + entries - 1) \div entries \in Int
    BY <1>7
  <1>9. \A m \in Int : Clamp(m, options.min_step, most) \in Nat \ {0}
    BY <1>1, <1>3 DEF Clamp
  <1>10. ChooseSparseIndexStep(n) =
           IF options.fixed_step # 0
             THEN Clamp(options.fixed_step, options.min_step, most)
           ELSE IF options.target_index_bytes < IndexEntryBytes THEN most
           ELSE Clamp((n + entries - 1) \div entries, options.min_step, most)
    BY <1>2, <1>4, <1>6 DEF ChooseSparseIndexStep
  <1>11. QED BY <1>1, <1>3, <1>8, <1>9, <1>10

LEMMA IndexPlace ==
    ASSUME NEW n \in Nat, NEW step \in Nat \ {0},
           NEW i \in 1 .. (n + step - 1) \div step
    PROVE  (i - 1) * step \in 0 .. n - 1
  <1>1. PICK q : q = (n + step - 1) \div step
    OBVIOUS
  <1>2. q \in Nat /\ q * step <= n + step - 1
    BY <1>1
  <1>3. i \in Nat /\ i - 1 \in Nat /\ i - 1 <= q - 1
    BY <1>1, <1>2
  <1>4. (i - 1) * step <= (q - 1) * step
    BY <1>2, <1>3
  <1>5. (q - 1) * step = q * step - step
    BY <1>2
  <1>6. (i - 1) * step \in Nat
    BY <1>3
  <1>7. q * step \in Nat
    BY <1>2
  <1>8. QED BY <1>2, <1>4, <1>5, <1>6, <1>7

(* Entries of the sparse index: blocks by the key of their first row.      *)
IsIndexOf(entries, all) ==
    /\ entries \in Seq([min_key : Keys, block_id : Nat])
    /\ \A i \in 1 .. Len(entries) :
         /\ entries[i].block_id \in 0 .. Len(all) - 1
         /\ entries[i].min_key = all[entries[i].block_id + 1][1].key

LEMMA IndexEntries ==
    ASSUME FileTypeOK, NEW all \in Seq(Seq(Row) \ {<<>>}),
           NEW entries, entries = SparseIndex(all)
    PROVE  IsIndexOf(entries, all)
  <1>1. PICK step : step = ChooseSparseIndexStep(Len(all))
    OBVIOUS
  <1>2. Len(all) \in Nat /\ step \in Nat \ {0}
    BY <1>1, IndexStep, BlockTypes
  <1>3. PICK count : count = (Len(all) + step - 1) \div step
    OBVIOUS
  <1>4. count \in Nat
    BY <1>2, <1>3
  <1>5. entries = [i \in 1 .. count |->
                     [min_key |-> all[(i - 1) * step + 1][1].key,
                      block_id |-> (i - 1) * step]]
    BY <1>1, <1>3 DEF SparseIndex
  <1>6. ASSUME NEW i \in 1 .. count
        PROVE  /\ entries[i] \in [min_key : Keys, block_id : Nat]
               /\ entries[i].block_id \in 0 .. Len(all) - 1
               /\ entries[i].min_key = all[entries[i].block_id + 1][1].key
    <2>1. PICK b : b = (i - 1) * step
      OBVIOUS
    <2>2. b \in 0 .. Len(all) - 1
      BY <1>2, <1>3, <2>1, IndexPlace
    <2>3. entries[i] = [min_key |-> all[b + 1][1].key, block_id |-> b]
      BY <1>5, <2>1
    <2>4. b + 1 \in 1 .. Len(all)
      BY <1>2, <2>2
    <2>5. 1 \in 1 .. Len(all[b + 1])
      BY <2>4, BlockTypes
    <2>6. all[b + 1][1] \in Row
      BY <2>4, <2>5, BlockTypes
    <2>7. all[b + 1][1].key \in Keys
      BY <2>6, RowTypes
    <2>8. QED BY <2>2, <2>3, <2>7
  <1>7. entries \in Seq([min_key : Keys, block_id : Nat]) /\ Len(entries) = count
    <2>1. entries \in [1 .. count -> [min_key : Keys, block_id : Nat]]
      BY <1>5, <1>6
    <2>2. QED BY <1>4, <2>1, FunctionIsSeq
  <1>8. QED BY <1>6, <1>7 DEF IsIndexOf

LEMMA FinishKeeps ==
    FileInv /\ Finish => FileInv'
  <1> SUFFICES ASSUME FileInv, Finish PROVE FileInv'
    OBVIOUS
  <1> USE DEF FileInv
  <1>1. /\ phase = "building" /\ phase' = "built" /\ added # <<>>
        /\ blocks' = Append(blocks, buffer) /\ buffer' = <<>>
        /\ index' = SparseIndex(blocks')
        /\ layout' = layout /\ options' = options /\ added' = added
        /\ range' = range /\ selected' = selected /\ next_block' = next_block
        /\ rows' = rows /\ row_idx' = row_idx /\ out' = out
    BY DEF Finish, cursor
  <1>2. /\ added \in Seq(Row) /\ buffer \in Seq(Row) /\ buffer # <<>>
        /\ blocks \in Seq(Seq(Row) \ {<<>>})
    BY <1>1 DEF FileTypeOK, BlocksInv
  <1>3. /\ blocks' \in Seq(Seq(Row) \ {<<>>}) /\ blocks' # <<>>
        /\ Len(blocks) \in Nat /\ Len(blocks') = Len(blocks) + 1
        /\ \A i \in 1 .. Len(blocks) : blocks'[i] = blocks[i]
        /\ blocks'[Len(blocks) + 1] = buffer
    BY <1>1, <1>2, AppendProperties
  <1>4. /\ index' \in Seq([min_key : Keys, block_id : Nat])
        /\ \A i \in 1 .. Len(index') :
             /\ index'[i].block_id \in 0 .. Len(blocks') - 1
             /\ index'[i].min_key = blocks'[index'[i].block_id + 1][1].key
    <2>1. PICK all, entries : all = blocks' /\ entries = SparseIndex(all)
      OBVIOUS
    <2>2. FileTypeOK /\ all \in Seq(Seq(Row) \ {<<>>})
      BY <1>3, <2>1
    <2>3. IsIndexOf(entries, all)
      BY <2>1, <2>2, IndexEntries
    <2>4. index' = entries
      BY <1>1, <2>1
    <2>5. QED BY <2>1, <2>3, <2>4 DEF IsIndexOf
  <1>5. FileTypeOK'
    <2>1. /\ selected' \subseteq 0 .. Len(blocks') - 1
          /\ next_block' \in 0 .. Len(blocks')
      BY <1>1, <1>3 DEF FileTypeOK
    <2>2. buffer' \in Seq(Row)
      BY <1>1
    <2>3. QED BY <1>1, <1>3, <1>4, <2>1, <2>2 DEF FileTypeOK
  <1>6. AddedInv'
    BY <1>1 DEF AddedInv
  <1>7. BlocksInv'
    <2>1. \A i \in 1 .. Len(blocks') : IsRun(added, blocks'[i])
      BY <1>3 DEF BlocksInv
    <2>2. ASSUME NEW i \in 1 .. Len(blocks'), NEW j \in 1 .. Len(blocks'), i < j
          PROVE  IsBefore(blocks'[i], blocks'[j])
      <3>1. i \in 1 .. Len(blocks)
        BY <1>3, <2>2
      <3>2. CASE j \in 1 .. Len(blocks)
        BY <1>3, <2>2, <3>1, <3>2 DEF BlocksInv
      <3>3. CASE j = Len(blocks) + 1
        BY <1>3, <3>1, <3>3 DEF BlocksInv
      <3>4. QED BY <1>3, <3>2, <3>3
    <2>3. ASSUME NEW n \in 1 .. Len(added)
          PROVE  \E i \in 1 .. Len(blocks') :
                   \E p \in 1 .. Len(blocks'[i]) : blocks'[i][p] = added[n]
      <3>1. \/ \E p \in 1 .. Len(buffer) : buffer[p] = added[n]
            \/ \E i \in 1 .. Len(blocks) :
                 \E p \in 1 .. Len(blocks[i]) : blocks[i][p] = added[n]
        BY DEF BlocksInv
      <3>2. /\ Len(blocks) + 1 \in 1 .. Len(blocks')
            /\ 1 .. Len(blocks) \subseteq 1 .. Len(blocks')
        BY <1>3
      <3>3. CASE \E p \in 1 .. Len(buffer) : buffer[p] = added[n]
        BY <1>3, <3>2, <3>3
      <3>4. CASE \E i \in 1 .. Len(blocks) :
                   \E p \in 1 .. Len(blocks[i]) : blocks[i][p] = added[n]
        <4>1. PICK i \in 1 .. Len(blocks) :
                \E p \in 1 .. Len(blocks[i]) : blocks[i][p] = added[n]
          BY <3>4
        <4>2. i \in 1 .. Len(blocks') /\ blocks'[i] = blocks[i]
          BY <1>3
        <4>3. QED BY <4>1, <4>2
      <3>5. QED BY <3>1, <3>3, <3>4
    <2>4. IsRun(added, <<>>)
      BY NothingIsRun
    <2>5. \A i \in 1 .. Len(blocks') : IsBefore(blocks'[i], <<>>)
      BY NothingIsRun
    <2>6. phase' # "building"
      BY <1>1
    <2>7. /\ IsRun(added', buffer')
          /\ \A i \in 1 .. Len(blocks') :
               IsRun(added', blocks'[i]) /\ IsBefore(blocks'[i], buffer')
      BY <1>1, <2>1, <2>4, <2>5
    <2>8. QED BY <1>1, <2>2, <2>3, <2>6, <2>7 DEF BlocksInv
  <1>8. IndexInv'
    BY <1>1, <1>3, <1>4 DEF IndexInv
  <1>9. PositionInv' /\ SelectionInv'
    BY <1>1 DEF PositionInv, SelectionInv, Valid
  <1>10. QED BY <1>5, <1>6, <1>7, <1>8, <1>9

-----------------------------------------------------------------------------
(* The cursor.                                                             *)

(* load_next_non_empty_block finds no block with a row in range, ...       *)
AtEnd(rng, ids, first) ==
    /\ next_block' = Len(blocks) /\ rows' = <<>> /\ row_idx' = 1
    /\ \A id \in ids : id >= first => Hits(rng, blocks[id + 1], 1) = {}

(* ... or it stands at the first row in range of the first one, b.         *)
StandsIn(rng, ids, first, b) ==
    /\ b >= first
    /\ next_block' = b + 1 /\ rows' = blocks[b + 1]
    /\ row_idx' \in Hits(rng, blocks[b + 1], 1)
    /\ \A p \in Hits(rng, blocks[b + 1], 1) : row_idx' <= p
    /\ \A id \in ids :
         id >= first /\ id < b => Hits(rng, blocks[id + 1], 1) = {}

LEMMA HitsAre ==
    ASSUME NEW rng, NEW block, NEW idx, NEW p
    PROVE  p \in Hits(rng, block, idx) <=>
             p \in idx .. Len(block) /\ InKeyRange(rng, block[p].key)
  BY DEF Hits

LEMMA RowsOfAre ==
    ASSUME NEW rng, NEW ids
    PROVE  /\ \A id \in ids : \A p \in Hits(rng, blocks[id + 1], 1) :
                blocks[id + 1][p] \in RowsOf(rng, ids)
           /\ \A r \in RowsOf(rng, ids) :
                \E id \in ids : \E p \in Hits(rng, blocks[id + 1], 1) :
                  r = blocks[id + 1][p]
  BY DEF RowsOf

LEMMA HitsFinite ==
    ASSUME NEW rng, NEW block, Len(block) \in Nat, NEW idx \in Nat,
           Hits(rng, block, idx) # {}
    PROVE  /\ Min(Hits(rng, block, idx)) \in Hits(rng, block, idx)
           /\ \A p \in Hits(rng, block, idx) : Min(Hits(rng, block, idx)) <= p
  <1>1. Hits(rng, block, idx) \subseteq idx .. Len(block)
    BY DEF Hits
  <1>2. IsFiniteSet(Hits(rng, block, idx)) /\ Hits(rng, block, idx) \subseteq Int
    BY <1>1, PartOfInterval
  <1>3. QED BY <1>1, <1>2, MinIsLeast

LEMMA LoadReads ==
    ASSUME FileTypeOK, NEW rng, NEW ids, ids \subseteq 0 .. Len(blocks) - 1,
           NEW first \in Nat, LoadFrom(rng, ids, first)
    PROVE  \/ AtEnd(rng, ids, first)
           \/ \E b \in ids : StandsIn(rng, ids, first, b)
  <1>1. PICK loads :
          loads = {id \in ids : id >= first /\ Hits(rng, blocks[id + 1], 1) # {}}
    OBVIOUS
  <1>2. Len(blocks) \in Nat
    BY FileTypes
  <1>3. CASE loads = {}
    <2>1. next_block' = Len(blocks) /\ rows' = <<>> /\ row_idx' = 1
      BY <1>1, <1>3 DEF LoadFrom
    <2>2. QED BY <1>1, <1>3, <2>1 DEF AtEnd
  <1>4. CASE loads # {}
    <2>1. loads \subseteq 0 .. Len(blocks) - 1
      BY <1>1
    <2>2. IsFiniteSet(loads) /\ loads \subseteq Int
      <3>1. PICK hi : hi = Len(blocks) - 1
        OBVIOUS
      <3>2. hi \in Int /\ 0 \in Int /\ loads \subseteq 0 .. hi
        BY <1>2, <2>1, <3>1
      <3>3. QED BY <3>2, PartOfInterval
    <2>3. PICK b : b = Min(loads)
      OBVIOUS
    <2>4. b \in loads /\ \A id \in loads : b <= id
      BY <1>4, <2>1, <2>2, <2>3, MinIsLeast
    <2>5. /\ next_block' = b + 1 /\ rows' = blocks[b + 1]
          /\ row_idx' = Min(Hits(rng, rows', 1))
      BY <1>1, <1>4, <2>3 DEF LoadFrom
    <2>6. b \in ids /\ b >= first /\ Hits(rng, blocks[b + 1], 1) # {}
      BY <1>1, <2>4
    <2>7. b + 1 \in 1 .. Len(blocks)
      BY <1>2, <2>6
    <2>8. Len(blocks[b + 1]) \in Nat
      BY <2>7, FileTypes
    <2>9. /\ row_idx' \in Hits(rng, blocks[b + 1], 1)
          /\ \A p \in Hits(rng, blocks[b + 1], 1) : row_idx' <= p
      BY <2>5, <2>6, <2>8, HitsFinite
    <2>10. \A id \in ids :
             id >= first /\ id < b => Hits(rng, blocks[id + 1], 1) = {}
      BY <1>1, <1>2, <2>4, <2>6
    <2>11. QED BY <2>5, <2>6, <2>9, <2>10 DEF StandsIn
  <1>5. QED BY <1>3, <1>4

(* ... and when the rows returned are those of the blocks before, they are *)
(* the rows before the one it stands at.                                   *)
LEMMA LoadPosition ==
    ASSUME FileInv, NEW rng, NEW ids, ids \subseteq 0 .. Len(blocks) - 1,
           NEW first \in Nat, LoadFrom(rng, ids, first),
           NEW done, done \subseteq RowsOf(rng, ids),
           \A id \in ids : \A p \in Hits(rng, blocks[id + 1], 1) :
             blocks[id + 1][p] \in done <=> id < first
    PROVE  /\ next_block' \in 0 .. Len(blocks)
           /\ rows' \in Seq(Row) /\ row_idx' \in Nat \ {0}
           /\ row_idx' <= Len(rows') =>
                /\ next_block' - 1 \in ids
                /\ rows' = blocks[next_block']
                /\ InKeyRange(rng, rows'[row_idx'].key)
           /\ done = {r \in RowsOf(rng, ids) :
                        row_idx' <= Len(rows') => r.seq < rows'[row_idx'].seq}
  <1>1. FileTypeOK /\ BlocksInv
    BY DEF FileInv
  <1>2. Len(blocks) \in Nat
    BY <1>1, FileTypes
  <1>3. CASE AtEnd(rng, ids, first)
    <2> USE <1>3 DEF AtEnd
    <2>1. ~(row_idx' <= Len(rows')) /\ rows' \in Seq(Row)
      BY <1>3
    <2>2. ASSUME NEW r \in RowsOf(rng, ids) PROVE r \in done
      <3>1. PICK id \in ids : \E p \in Hits(rng, blocks[id + 1], 1) :
                               r = blocks[id + 1][p]
        BY DEF RowsOf
      <3>2. PICK p \in Hits(rng, blocks[id + 1], 1) : r = blocks[id + 1][p]
        BY <3>1
      <3>3. id < first
        BY <1>2, <1>3
      <3>4. QED BY <3>2, <3>3
    <2>3. QED BY <1>2, <1>3, <2>1, <2>2
  <1>4. ASSUME NEW b \in ids, StandsIn(rng, ids, first, b)
        PROVE  /\ next_block' \in 0 .. Len(blocks)
               /\ rows' \in Seq(Row) /\ row_idx' \in Nat \ {0}
               /\ row_idx' <= Len(rows') =>
                    /\ next_block' - 1 \in ids
                    /\ rows' = blocks[next_block']
                    /\ InKeyRange(rng, rows'[row_idx'].key)
               /\ done = {r \in RowsOf(rng, ids) :
                            row_idx' <= Len(rows') => r.seq < rows'[row_idx'].seq}
    <2>1. /\ b >= first
          /\ next_block' = b + 1 /\ rows' = blocks[b + 1]
          /\ row_idx' \in Hits(rng, blocks[b + 1], 1)
          /\ \A p \in Hits(rng, blocks[b + 1], 1) : row_idx' <= p
          /\ \A id \in ids :
               id >= first /\ id < b => Hits(rng, blocks[id + 1], 1) = {}
      BY <1>4 DEF StandsIn
    <2>2. b \in 0 .. Len(blocks) - 1 /\ b + 1 \in 1 .. Len(blocks)
      BY <1>2
    <2>3. /\ blocks[b + 1] \in Seq(Row) /\ Len(blocks[b + 1]) \in Nat
      BY <1>1, <2>2, FileTypes
    <2>4. /\ row_idx' \in 1 .. Len(blocks[b + 1])
          /\ InKeyRange(rng, blocks[b + 1][row_idx'].key)
      BY <2>1, HitsAre
    <2>5. ASSUME NEW r \in RowsOf(rng, ids)
          PROVE  r \in done <=> r.seq < blocks[b + 1][row_idx'].seq
      <3>1. PICK id \in ids : \E p \in Hits(rng, blocks[id + 1], 1) :
                               r = blocks[id + 1][p]
        BY DEF RowsOf
      <3>2. PICK p \in Hits(rng, blocks[id + 1], 1) : r = blocks[id + 1][p]
        BY <3>1
      <3>3. r \in done <=> id < first
        BY <3>2
      <3>4. id \in 0 .. Len(blocks) - 1 /\ id + 1 \in 1 .. Len(blocks)
        BY <1>2
      <3>5. p \in 1 .. Len(blocks[id + 1])
        BY HitsAre
      <3>6. PICK i, j, q : i = id + 1 /\ j = b + 1 /\ q = row_idx'
        OBVIOUS
      <3>7. /\ i \in 1 .. Len(blocks) /\ p \in 1 .. Len(blocks[i])
            /\ j \in 1 .. Len(blocks) /\ q \in 1 .. Len(blocks[j])
        BY <2>2, <2>4, <3>4, <3>5, <3>6
      <3>8. r.seq \in Nat /\ blocks[j][q].seq \in Nat
        BY <1>1, <3>2, <3>6, <3>7, FileTypes, RowTypes
      <3>9. CASE id < b
        <4>1. r.seq < blocks[j][q].seq
          BY <1>1, <2>2, <3>2, <3>4, <3>6, <3>7, <3>9, SeqOrder
        <4>2. id < first
          <5>1. Hits(rng, blocks[id + 1], 1) # {}
            OBVIOUS
          <5>2. ~(id >= first)
            BY <2>1, <3>9, <5>1
          <5>3. QED BY <3>4, <5>2
        <4>3. QED BY <3>3, <3>6, <4>1, <4>2
      <3>10. CASE id >= b
        <4>1. ~(id < first)
          BY <2>1, <2>2, <3>4, <3>10
        <4>2. CASE id = b /\ p = q
          BY <3>2, <3>3, <3>6, <3>8, <4>1, <4>2
        <4>3. CASE id > b \/ (id = b /\ p # q)
          <5>1. id = b => q <= p
            <6> SUFFICES ASSUME id = b PROVE row_idx' <= p
              BY <3>6
            <6>1. p \in Hits(rng, blocks[b + 1], 1)
              OBVIOUS
            <6>2. QED BY <2>1, <6>1
          <5>2. j < i \/ (j = i /\ q < p)
            BY <2>2, <3>4, <3>5, <3>6, <3>7, <4>3, <5>1
          <5>3. blocks[j][q].seq < r.seq
            BY <1>1, <3>2, <3>6, <3>7, <5>2, SeqOrder
          <5>4. QED BY <3>3, <3>6, <3>8, <4>1, <5>3
        <4>4. QED BY <2>2, <3>4, <3>10, <4>2, <4>3
      <3>11. QED BY <2>2, <3>4, <3>9, <3>10
    <2>6. next_block' \in 0 .. Len(blocks) /\ next_block' - 1 = b
      BY <1>2, <2>1, <2>2
    <2>7. row_idx' \in Nat \ {0} /\ rows' \in Seq(Row)
      BY <2>1, <2>3, <2>4
    <2>8. QED BY <2>1, <2>3, <2>4, <2>5, <2>6, <2>7
  <1>5. \/ AtEnd(rng, ids, first)
        \/ \E b \in ids : StandsIn(rng, ids, first, b)
    BY <1>1, LoadReads
  <1>6. QED BY <1>3, <1>4, <1>5

LEMMA FirstBlockIs ==
    ASSUME FileInv, NEW from \in OptKeys, NEW first, first = FirstBlock(from)
    PROVE  /\ first \in Nat
           /\ first = 0 \/ (/\ first + 1 \in 1 .. Len(blocks)
                            /\ from # {}
                            /\ \A f \in from : blocks[first + 1][1].key <= f)
  <1>1. /\ index \in Seq([min_key : Keys, block_id : Nat])
        /\ Len(blocks) \in Nat
    BY FileTypes DEF FileInv, FileTypeOK
  <1>2. PICK below :
          below = {i \in DOMAIN index : \A f \in from : index[i].min_key <= f}
    OBVIOUS
  <1>3. CASE from = {} \/ below = {}
    BY <1>2, <1>3 DEF FirstBlock
  <1>4. CASE from # {} /\ below # {}
    <2>1. first = index[Max(below)].block_id
      BY <1>2, <1>4 DEF FirstBlock
    <2>2. Len(index) \in Nat /\ DOMAIN index = 1 .. Len(index)
      BY <1>1
    <2>3. below \subseteq 0 .. Len(index)
      BY <1>2, <2>2
    <2>4. PICK i : i = Max(below)
      OBVIOUS
    <2>5. i \in below
      BY <1>4, <2>2, <2>3, <2>4, MaxIsMember
    <2>6. i \in 1 .. Len(index) /\ \A f \in from : index[i].min_key <= f
      BY <1>2, <2>2, <2>5
    <2>7. /\ first \in 0 .. Len(blocks) - 1
          /\ index[i].min_key = blocks[first + 1][1].key
      BY <2>1, <2>4, <2>6 DEF FileInv, IndexInv
    <2>8. QED BY <1>1, <1>4, <2>6, <2>7
  <1>5. QED BY <1>3, <1>4

LEMMA EndBlockIs ==
    ASSUME FileInv, NEW to \in OptKeys, NEW last, last = EndBlock(to)
    PROVE  /\ last \in 0 .. Len(blocks)
           /\ last = Len(blocks) \/
                (/\ last + 1 \in 1 .. Len(blocks)
                 /\ to # {}
                 /\ \A t \in to : blocks[last + 1][1].key >= t)
  <1>1. /\ index \in Seq([min_key : Keys, block_id : Nat])
        /\ Len(blocks) \in Nat
    BY FileTypes DEF FileInv, FileTypeOK
  <1>2. PICK above :
          above = {i \in DOMAIN index : \A t \in to : index[i].min_key >= t}
    OBVIOUS
  <1>3. CASE to = {} \/ above = {}
    BY <1>1, <1>2, <1>3 DEF EndBlock
  <1>4. CASE to # {} /\ above # {}
    <2>1. last = index[Min(above)].block_id
      BY <1>2, <1>4 DEF EndBlock
    <2>2. Len(index) \in Nat /\ DOMAIN index = 1 .. Len(index)
      BY <1>1
    <2>3. above \subseteq 1 .. Len(index)
      BY <1>2, <2>2
    <2>4. PICK i : i = Min(above)
      OBVIOUS
    <2>5. IsFiniteSet(above) /\ above \subseteq Int
      <3>1. PICK hi : hi = Len(index)
        OBVIOUS
      <3>2. hi \in Int /\ 1 \in Int /\ above \subseteq 1 .. hi
        BY <2>2, <2>3, <3>1
      <3>3. QED BY <3>2, PartOfInterval
    <2>6. i \in above
      BY <1>4, <2>4, <2>5, MinIsLeast
    <2>7. i \in 1 .. Len(index) /\ \A t \in to : index[i].min_key >= t
      BY <1>2, <2>2, <2>6
    <2>8. /\ last \in 0 .. Len(blocks) - 1
          /\ index[i].min_key = blocks[last + 1][1].key
      BY <2>1, <2>4, <2>7 DEF FileInv, IndexInv
    <2>9. QED BY <1>1, <1>4, <2>7, <2>8
  <1>5. QED BY <1>3, <1>4

LEMMA SelectedBlocks ==
    ASSUME FileInv, NEW rng \in [from : OptKeys, to : OptKeys]
    PROVE  SelectBlocks(rng) \subseteq 0 .. Len(blocks) - 1
  <1>1. PICK first, last : first = FirstBlock(rng.from) /\ last = EndBlock(rng.to)
    OBVIOUS
  <1>2. rng.from \in OptKeys /\ rng.to \in OptKeys
    OBVIOUS
  <1>3. first \in Nat /\ last \in 0 .. Len(blocks) /\ Len(blocks) \in Nat
    BY <1>1, <1>2, FirstBlockIs, EndBlockIs, FileTypes DEF FileInv
  <1>4. SelectBlocks(rng) \subseteq first .. last - 1
    BY <1>1 DEF SelectBlocks
  <1>5. QED BY <1>3, <1>4

(* The index and the metadata leave out no block with a row in range.      *)
LEMMA NoBlockLeftOut ==
    ASSUME FileInv, NEW rng \in [from : OptKeys, to : OptKeys],
           NEW i \in 1 .. Len(blocks), Hits(rng, blocks[i], 1) # {},
           ~ \E j \in 2 .. Len(blocks) :
               \E f \in rng.from :
                 Last(blocks[j - 1]).key = f /\ blocks[j][1].key = f
    PROVE  i - 1 \in SelectBlocks(rng)
  <1>1. FileTypeOK /\ AddedInv /\ BlocksInv
    BY DEF FileInv
  <1>2. PICK p \in 1 .. Len(blocks[i]) : InKeyRange(rng, blocks[i][p].key)
    BY DEF Hits
  <1>3. PICK first, last : first = FirstBlock(rng.from) /\ last = EndBlock(rng.to)
    OBVIOUS
  <1>4. rng.from \in OptKeys /\ rng.to \in OptKeys
    OBVIOUS
  <1>5. /\ \A f \in rng.from : f \in Int
        /\ \A t \in rng.to : t \in Int
    BY <1>4, FileAssumption DEF OptKeys
  <1>6. /\ Len(blocks) \in Nat
        /\ \A j \in 1 .. Len(blocks) :
             /\ Len(blocks[j]) \in Nat /\ Len(blocks[j]) >= 1
             /\ \A q \in 1 .. Len(blocks[j]) : blocks[j][q].key \in Int
    BY <1>1, FileTypes, RowTypes
  <1>7. /\ \A f \in rng.from : blocks[i][p].key >= f
        /\ \A t \in rng.to : blocks[i][p].key < t
    BY <1>2 DEF InKeyRange
  <1>8. Intersects(blocks[i], rng)
    <2>1. 1 \in 1 .. Len(blocks[i]) /\ Len(blocks[i]) \in 1 .. Len(blocks[i])
      BY <1>6
    <2>2. blocks[i][1].key <= blocks[i][p].key
      BY <1>1, <2>1, KeyOrder
    <2>3. blocks[i][p].key <= blocks[i][Len(blocks[i])].key
      BY <1>1, <2>1, KeyOrder
    <2>4. \A f \in rng.from : blocks[i][Len(blocks[i])].key >= f
      BY <1>5, <1>6, <1>7, <2>1, <2>3
    <2>5. \A t \in rng.to : blocks[i][1].key < t
      BY <1>5, <1>6, <1>7, <2>1, <2>2
    <2>6. QED BY <2>4, <2>5 DEF Intersects, Last
  <1>9. i - 1 <= last - 1
    <2>1. SUFFICES ASSUME i > last PROVE FALSE
      <3>1. last \in 0 .. Len(blocks)
        BY <1>3, <1>4, EndBlockIs
      <3>2. QED BY <1>6, <2>1, <3>1
    <2>2. last # Len(blocks)
      BY <1>6, <2>1
    <2>3. /\ last \in Nat /\ last + 1 \in 1 .. Len(blocks) /\ rng.to # {}
          /\ \A t \in rng.to : blocks[last + 1][1].key >= t
      BY <1>3, <1>4, <2>2, EndBlockIs
    <2>4. PICK t \in rng.to : blocks[last + 1][1].key >= t
      BY <2>3
    <2>5. PICK j : j = last + 1
      OBVIOUS
    <2>6. j \in 1 .. Len(blocks) /\ j <= i /\ 1 \in 1 .. Len(blocks[j])
      BY <1>6, <2>1, <2>3, <2>5
    <2>7. j < i \/ (j = i /\ 1 <= p)
      BY <1>6, <2>6
    <2>8. blocks[j][1].key <= blocks[i][p].key
      BY <1>1, <2>6, <2>7, KeyOrder
    <2>9. blocks[i][p].key < t /\ blocks[j][1].key >= t
      BY <1>7, <2>4, <2>5
    <2>10. QED BY <1>5, <1>6, <2>6, <2>8, <2>9
  <1>10. first <= i - 1
    <2>1. SUFFICES ASSUME i <= first PROVE FALSE
      <3>1. first \in Nat
        BY <1>3, <1>4, FirstBlockIs
      <3>2. QED BY <1>6, <2>1, <3>1
    <2>2. first # 0
      BY <1>6, <2>1
    <2>3. /\ first \in Nat /\ first + 1 \in 1 .. Len(blocks) /\ rng.from # {}
          /\ \A f \in rng.from : blocks[first + 1][1].key <= f
      BY <1>3, <1>4, <2>2, FirstBlockIs
    <2>4. PICK f \in rng.from : blocks[first + 1][1].key <= f
      BY <2>3
    <2>5. PICK j, q : j = first + 1 /\ q = Len(blocks[first])
      OBVIOUS
    <2>6. /\ first \in 1 .. Len(blocks) /\ q \in 1 .. Len(blocks[first])
          /\ j \in 2 .. Len(blocks) /\ 1 \in 1 .. Len(blocks[j])
          /\ j - 1 = first /\ first < j /\ j \in 1 .. Len(blocks)
      BY <1>6, <2>2, <2>3, <2>5
    <2>7. i < first \/ (i = first /\ p <= q)
      BY <1>6, <2>1, <2>5, <2>6
    <2>8. blocks[i][p].key <= blocks[first][q].key
      BY <1>1, <2>6, <2>7, KeyOrder
    <2>9. blocks[first][q].key <= blocks[j][1].key
      BY <1>1, <2>6, KeyOrder
    <2>10. blocks[i][p].key >= f /\ blocks[j][1].key <= f
      BY <1>7, <2>4, <2>5
    <2>11. blocks[first][q].key = f /\ blocks[j][1].key = f
      <3>1. PICK a, b, c :
              a = blocks[i][p].key /\ b = blocks[first][q].key /\ c = blocks[j][1].key
        OBVIOUS
      <3>2. f \in Int /\ a \in Int
        BY <1>5, <1>6, <3>1
      <3>3. b \in Int /\ c \in Int
        BY <1>6, <2>6, <3>1
      <3>4. a <= b /\ b <= c /\ a >= f /\ c <= f
        BY <2>8, <2>9, <2>10, <3>1
      <3>5. b = f /\ c = f
        BY <3>2, <3>3, <3>4
      <3>6. QED BY <3>1, <3>5
    <2>12. Last(blocks[j - 1]).key = f
      BY <2>5, <2>6, <2>11 DEF Last
    <2>13. QED BY <2>6, <2>11, <2>12
  <1>11. i - 1 \in first .. last - 1
    <2>1. first \in Nat /\ last \in Int
      BY <1>3, <1>4, <1>6, FirstBlockIs, EndBlockIs
    <2>2. QED BY <1>6, <1>9, <1>10, <2>1
  <1>12. (i - 1) + 1 = i
    BY <1>6
  <1>13. QED BY <1>3, <1>8, <1>11, <1>12 DEF SelectBlocks

LEMMA OpenCursorKeeps ==
    ASSUME FileInv, NEW rng \in [from : OptKeys, to : OptKeys], OpenCursor(rng)
    PROVE  FileInv'
  <1> USE DEF FileInv
  <1>1. /\ phase = "built" /\ phase' = "reading" /\ range' = rng
        /\ selected' = SelectBlocks(rng)
        /\ LoadFrom(rng, SelectBlocks(rng), 0)
        /\ layout' = layout /\ options' = options /\ added' = added
        /\ buffer' = buffer /\ blocks' = blocks /\ index' = index /\ out' = out
    BY DEF OpenCursor, building
  <1>2. SelectBlocks(rng) \subseteq 0 .. Len(blocks) - 1 /\ Len(blocks) \in Nat
    BY SelectedBlocks, FileTypes
  <1>3. out = <<>>
    BY <1>1 DEF PositionInv
  <1>4. PICK ids : ids = SelectBlocks(rng)
    OBVIOUS
  <1>5. \A id \in ids : \A p \in Hits(rng, blocks[id + 1], 1) :
          blocks[id + 1][p] \in {} <=> id < 0
    BY <1>2, <1>4
  <1>6. /\ next_block' \in 0 .. Len(blocks)
        /\ rows' \in Seq(Row) /\ row_idx' \in Nat \ {0}
        /\ row_idx' <= Len(rows') =>
             /\ next_block' - 1 \in ids
             /\ rows' = blocks[next_block']
             /\ InKeyRange(rng, rows'[row_idx'].key)
        /\ {} = {r \in RowsOf(rng, ids) :
                   row_idx' <= Len(rows') => r.seq < rows'[row_idx'].seq}
    <2>1. {} \subseteq RowsOf(rng, ids) /\ 0 \in Nat
      OBVIOUS
    <2>2. ids \subseteq 0 .. Len(blocks) - 1 /\ LoadFrom(rng, ids, 0)
      BY <1>1, <1>2, <1>4
    <2>3. QED BY <1>5, <2>1, <2>2, LoadPosition
  <1>7. FileTypeOK'
    BY <1>1, <1>2, <1>6 DEF FileTypeOK
  <1>8. AddedInv' /\ BlocksInv' /\ IndexInv'
    <2>1. AddedInv'
      BY <1>1 DEF AddedInv
    <2>2. BlocksInv'
      BY <1>1 DEF BlocksInv
    <2>3. IndexInv'
      BY <1>1 DEF IndexInv
    <2>4. QED BY <2>1, <2>2, <2>3
  <1>9. PositionInv'
    <2>1. RowsOf(rng, ids)' = RowsOf(rng, ids)
      BY <1>1 DEF RowsOf
    <2>2. Valid' <=> row_idx' <= Len(rows')
      BY DEF Valid
    <2>3. Returned' = {} /\ out' = <<>> /\ Len(out') = 0
      BY <1>1, <1>3 DEF Returned
    <2>4. RowsOf(range, selected)' = RowsOf(rng, ids)
      BY <1>1, <1>4 DEF RowsOf
    <2>5. Valid' => /\ next_block' - 1 \in selected'
                    /\ rows' = blocks'[next_block']
                    /\ InKeyRange(range', rows'[row_idx'].key)
      BY <1>1, <1>4, <1>6, <2>2
    <2>6. Returned' = {r \in RowsOf(range, selected)' :
                        Valid' => r.seq < rows'[row_idx'].seq}
      BY <1>6, <2>2, <2>3, <2>4
    <2>7. \A m, n \in 1 .. Len(out') : m < n => out'[m].seq < out'[n].seq
      BY <2>3
    <2>8. QED BY <1>1, <2>5, <2>6, <2>7 DEF PositionInv
  <1>10. SelectionInv'
    BY <1>1, NoBlockLeftOut DEF SelectionInv, SplitAtLowerBound, Hits
  <1>11. QED BY <1>7, <1>8, <1>9, <1>10

LEMMA NextRowKeeps ==
    ASSUME FileInv, NextRow
    PROVE  FileInv'
  <1> USE DEF FileInv
  <1>1. /\ phase = "reading" /\ phase' = "reading" /\ Valid
        /\ out' = Append(out, rows[row_idx])
        /\ layout' = layout /\ options' = options /\ added' = added
        /\ buffer' = buffer /\ blocks' = blocks /\ index' = index
        /\ range' = range /\ selected' = selected
    BY DEF NextRow, building
  <1>2. PICK b, rest : b = next_block /\ rest = Hits(range, rows, row_idx + 1)
    OBVIOUS
  <1>3. /\ b - 1 \in selected /\ rows = blocks[b]
        /\ InKeyRange(range, rows[row_idx].key)
        /\ \A m, n \in 1 .. Len(out) : m < n => out[m].seq < out[n].seq
        /\ Returned = {r \in RowsOf(range, selected) : r.seq < rows[row_idx].seq}
    BY <1>1, <1>2 DEF PositionInv
  <1>4. /\ selected \subseteq 0 .. Len(blocks) - 1 /\ Len(blocks) \in Nat
        /\ b \in 1 .. Len(blocks)
    <2>1. selected \subseteq 0 .. Len(blocks) - 1 /\ b \in 0 .. Len(blocks)
      BY <1>2 DEF FileTypeOK
    <2>2. Len(blocks) \in Nat
      BY FileTypes
    <2>3. QED BY <1>3, <2>1, <2>2
  <1>5. row_idx \in 1 .. Len(blocks[b]) /\ Len(blocks[b]) \in Nat
    BY <1>1, <1>3, <1>4, FileTypes DEF FileTypeOK, Valid
  <1>6. PICK c : c = rows[row_idx]
    OBVIOUS
  <1>7. /\ c = blocks[b][row_idx] /\ c \in Row /\ c.seq \in Nat
        /\ c \in RowsOf(range, selected)
    <2>1. c = blocks[b][row_idx] /\ c \in Row
      BY <1>3, <1>4, <1>5, <1>6, FileTypes
    <2>2. row_idx \in Hits(range, blocks[b], 1)
      BY <1>3, <1>5, HitsAre
    <2>3. (b - 1) + 1 = b
      BY <1>4
    <2>4. blocks[b][row_idx] \in RowsOf(range, selected)
      BY <1>3, <2>2, <2>3 DEF RowsOf
    <2>5. QED BY <2>1, <2>4, RowTypes
  (* The rows in range and their blocks. *)
  <1>8. ASSUME NEW id \in selected, NEW p \in Hits(range, blocks[id + 1], 1)
        PROVE  /\ id + 1 \in 1 .. Len(blocks)
               /\ p \in 1 .. Len(blocks[id + 1])
               /\ blocks[id + 1][p] \in RowsOf(range, selected)
               /\ blocks[id + 1][p].seq \in Nat
               /\ blocks[id + 1][p].seq <= c.seq <=>
                    id + 1 < b \/ (id + 1 = b /\ p <= row_idx)
    <2>1. id + 1 \in 1 .. Len(blocks)
      BY <1>4
    <2>2. p \in 1 .. Len(blocks[id + 1])
      BY HitsAre
    <2>3. blocks[id + 1][p] \in RowsOf(range, selected)
      BY DEF RowsOf
    <2>4. PICK i : i = id + 1
      OBVIOUS
    <2>5. blocks[i][p].seq \in Nat
      BY <2>1, <2>2, <2>4, FileTypes, RowTypes
    <2>6. i < b \/ (i = b /\ p < row_idx) => blocks[i][p].seq < c.seq
      BY <1>4, <1>5, <1>7, <2>1, <2>2, <2>4, SeqOrder
    <2>7. b < i \/ (b = i /\ row_idx < p) => c.seq < blocks[i][p].seq
      BY <1>4, <1>5, <1>7, <2>1, <2>2, <2>4, SeqOrder
    <2>8. i = b /\ p = row_idx => blocks[i][p].seq = c.seq
      BY <1>7
    <2>9. i \in Nat /\ b \in Nat /\ p \in Nat /\ row_idx \in Nat
      BY <1>4, <1>5, <2>1, <2>2, <2>4
    <2>10. blocks[i][p].seq <= c.seq <=> i < b \/ (i = b /\ p <= row_idx)
      BY <1>7, <2>5, <2>6, <2>7, <2>8, <2>9
    <2>11. QED BY <2>1, <2>2, <2>3, <2>4, <2>5, <2>10
  (* The rows returned and their order. *)
  <1>9. out \in Seq(Row) /\ out' \in Seq(Row)
    BY <1>1, <1>6, <1>7 DEF FileTypeOK
  <1>10. /\ Len(out) \in Nat /\ Len(out') = Len(out) + 1
         /\ \A n \in 1 .. Len(out) : out'[n] = out[n]
         /\ out'[Len(out) + 1] = c
    BY <1>1, <1>6, <1>7, <1>9, AppendProperties
  <1>11. Returned' = Returned \cup {c}
    BY <1>10 DEF Returned
  <1>12. ASSUME NEW m \in 1 .. Len(out'), NEW n \in 1 .. Len(out'), m < n
         PROVE  out'[m].seq < out'[n].seq
    <2>1. m \in 1 .. Len(out) /\ out'[m] = out[m]
      BY <1>10, <1>12
    <2>2. CASE n \in 1 .. Len(out)
      BY <1>3, <1>10, <1>12, <2>1, <2>2
    <2>3. CASE n = Len(out) + 1
      <3>1. out[m] \in Returned
        BY <2>1 DEF Returned
      <3>2. out[m].seq < c.seq
        BY <1>3, <1>6, <3>1
      <3>3. QED BY <1>10, <2>1, <2>3, <3>2
    <2>4. QED BY <1>10, <2>2, <2>3
  (* All rows up to the current one have been returned. *)
  <1>13. ASSUME NEW id \in selected, NEW p \in Hits(range, blocks[id + 1], 1)
         PROVE  blocks[id + 1][p] \in Returned' <=>
                  id + 1 < b \/ (id + 1 = b /\ p <= row_idx)
    <2>1. PICK r : r = blocks[id + 1][p]
      OBVIOUS
    <2>2. r \in RowsOf(range, selected) /\ r.seq \in Nat
      BY <1>8, <2>1
    <2>3. r.seq = c.seq <=> r = c
      <3>1. PICK i : i = id + 1
        OBVIOUS
      <3>2. /\ i \in 1 .. Len(blocks) /\ p \in 1 .. Len(blocks[i])
            /\ r = blocks[i][p]
        BY <1>8, <2>1, <3>1
      <3>3. r = added[r.seq] /\ c = added[c.seq]
        BY <1>4, <1>5, <1>7, <3>2, SeqOrder
      <3>4. QED BY <3>3
    <2>4. r \in Returned <=> r.seq < c.seq
      BY <1>3, <1>6, <2>2
    <2>5. r \in Returned' <=> r.seq <= c.seq
      BY <1>7, <1>11, <2>2, <2>3, <2>4
    <2>6. QED BY <1>8, <2>1, <2>5
  <1>14. Returned' \subseteq RowsOf(range, selected)
    BY <1>3, <1>7, <1>11
  <1>15. /\ AddedInv' /\ BlocksInv' /\ IndexInv'
         /\ RowsOf(range, selected)' = RowsOf(range, selected)
    <2>1. AddedInv'
      BY <1>1 DEF AddedInv
    <2>2. BlocksInv'
      BY <1>1 DEF BlocksInv
    <2>3. IndexInv'
      BY <1>1 DEF IndexInv
    <2>4. RowsOf(range, selected)' = RowsOf(range, selected)
      BY <1>1 DEF RowsOf
    <2>5. QED BY <2>1, <2>2, <2>3, <2>4
  <1>16. SelectionInv'
    BY <1>1 DEF SelectionInv, SplitAtLowerBound, Hits
  <1>17. /\ next_block' \in 0 .. Len(blocks)
         /\ rows' \in Seq(Row) /\ row_idx' \in Nat \ {0}
         /\ row_idx' <= Len(rows') =>
              /\ next_block' - 1 \in selected
              /\ rows' = blocks[next_block']
              /\ InKeyRange(range, rows'[row_idx'].key)
         /\ Returned' = {r \in RowsOf(range, selected) :
                           row_idx' <= Len(rows') => r.seq < rows'[row_idx'].seq}
    <2>1. CASE rest # {}
      <3>1. row_idx' = Min(rest) /\ next_block' = next_block /\ rows' = rows
        BY <1>2, <2>1 DEF NextRow
      <3>2. PICK n : n = row_idx'
        OBVIOUS
      <3>3. n \in rest /\ \A p \in rest : n <= p
        <4>1. Len(rows) \in Nat /\ row_idx + 1 \in Nat
          BY <1>3, <1>5
        <4>2. QED BY <1>2, <2>1, <3>1, <3>2, <4>1, HitsFinite
      <3>4. /\ n \in row_idx + 1 .. Len(blocks[b])
            /\ InKeyRange(range, blocks[b][n].key)
        BY <1>2, <1>3, <3>3, HitsAre
      <3>5. n \in 1 .. Len(blocks[b]) /\ n > row_idx
        BY <1>5, <3>4
      <3>6. ASSUME NEW r \in RowsOf(range, selected)
            PROVE  r \in Returned' <=> r.seq < blocks[b][n].seq
        <4>1. PICK id \in selected :
                \E p \in Hits(range, blocks[id + 1], 1) : r = blocks[id + 1][p]
          BY DEF RowsOf
        <4>2. PICK p \in Hits(range, blocks[id + 1], 1) : r = blocks[id + 1][p]
          BY <4>1
        <4>3. PICK i : i = id + 1
          OBVIOUS
        <4>4. /\ i \in 1 .. Len(blocks) /\ p \in 1 .. Len(blocks[i])
              /\ r = blocks[i][p] /\ InKeyRange(range, blocks[i][p].key)
          BY <1>8, <4>2, <4>3, HitsAre
        <4>5. r \in Returned' <=> i < b \/ (i = b /\ p <= row_idx)
          BY <1>13, <4>2, <4>3
        <4>6. r.seq \in Nat /\ blocks[b][n].seq \in Nat
          BY <1>4, <3>5, <4>4, FileTypes, RowTypes
        <4>7. i = b /\ p > row_idx => n <= p
          <5> SUFFICES ASSUME i = b, p > row_idx PROVE n <= p
            OBVIOUS
          <5>1. p \in row_idx + 1 .. Len(rows)
            BY <1>3, <1>5, <4>4
          <5>2. p \in rest
            BY <1>2, <1>3, <4>4, <5>1, HitsAre
          <5>3. QED BY <3>3, <5>2
        <4>8. i < b \/ (i = b /\ p < n) => r.seq < blocks[b][n].seq
          BY <1>4, <3>5, <4>4, SeqOrder
        <4>9. b < i \/ (b = i /\ n < p) => blocks[b][n].seq < r.seq
          BY <1>4, <3>5, <4>4, SeqOrder
        <4>10. i = b /\ p = n => r.seq = blocks[b][n].seq
          BY <4>4
        <4>11. /\ i \in Nat /\ b \in Nat /\ p \in Nat
               /\ n \in Nat /\ row_idx \in Nat
          BY <1>4, <1>5, <3>5, <4>4
        <4>12. i < b \/ (i = b /\ p <= row_idx) <=> i < b \/ (i = b /\ p < n)
          BY <3>5, <4>7, <4>11
        <4>13. QED
          BY <3>5, <4>5, <4>6, <4>8, <4>9, <4>10, <4>11, <4>12
      <3>7. next_block' \in 0 .. Len(blocks) /\ rows' \in Seq(Row)
        BY <3>1 DEF FileTypeOK
      <3>8. row_idx' \in Nat \ {0}
        BY <3>2, <3>5, <1>5
      <3>9. /\ next_block' - 1 \in selected /\ rows' = blocks[next_block']
            /\ InKeyRange(range, rows'[row_idx'].key)
        BY <1>2, <1>3, <3>1, <3>2, <3>4
      <3>10. row_idx' <= Len(rows')
        BY <1>3, <1>5, <3>1, <3>2, <3>5
      <3>11. \A r \in RowsOf(range, selected) :
               r \in Returned' <=> r.seq < rows'[row_idx'].seq
        BY <1>3, <3>1, <3>2, <3>6
      <3>12. QED BY <1>14, <3>7, <3>8, <3>9, <3>10, <3>11
    <2>2. CASE rest = {}
      <3>1. LoadFrom(range, selected, next_block)
        BY <1>2, <2>2 DEF NextRow
      <3>2. ASSUME NEW id \in selected, NEW p \in Hits(range, blocks[id + 1], 1)
            PROVE  blocks[id + 1][p] \in Returned' <=> id < next_block
        <4>1. id + 1 = b => p <= row_idx
          <5> SUFFICES ASSUME id + 1 = b, p > row_idx PROVE FALSE
            BY <1>5, <1>8
          <5>1. /\ p \in 1 .. Len(rows) /\ InKeyRange(range, rows[p].key)
            BY <1>3, HitsAre
          <5>2. p \in row_idx + 1 .. Len(rows)
            BY <1>3, <1>5, <5>1
          <5>3. p \in rest
            BY <1>2, <5>1, <5>2, HitsAre
          <5>4. QED BY <2>2, <5>3
        <4>2. id \in 0 .. Len(blocks) - 1
          BY <1>4
        <4>3. blocks[id + 1][p] \in Returned' <=>
                id + 1 < b \/ (id + 1 = b /\ p <= row_idx)
          BY <1>13
        <4>4. id < next_block <=> id + 1 < b \/ id + 1 = b
          BY <1>2, <1>4, <4>2
        <4>5. QED BY <4>1, <4>3, <4>4
      <3>3. PICK done : done = Returned'
        OBVIOUS
      <3>4. next_block \in Nat
        BY <1>2, <1>4
      <3>5. /\ done \subseteq RowsOf(range, selected)
            /\ \A id \in selected : \A p \in Hits(range, blocks[id + 1], 1) :
                 blocks[id + 1][p] \in done <=> id < next_block
        BY <1>14, <3>2, <3>3
      <3>6. done = {r \in RowsOf(range, selected) :
                     row_idx' <= Len(rows') => r.seq < rows'[row_idx'].seq}
        BY <1>4, <3>1, <3>4, <3>5, LoadPosition
      <3>7. /\ next_block' \in 0 .. Len(blocks)
            /\ rows' \in Seq(Row) /\ row_idx' \in Nat \ {0}
            /\ row_idx' <= Len(rows') =>
                 /\ next_block' - 1 \in selected
                 /\ rows' = blocks[next_block']
                 /\ InKeyRange(range, rows'[row_idx'].key)
        BY <1>4, <3>1, <3>4, <3>5, LoadPosition
      <3>8. QED BY <3>3, <3>6, <3>7
    <2>3. QED BY <2>1, <2>2
  <1>18. FileTypeOK'
    BY <1>1, <1>9, <1>17 DEF FileTypeOK
  <1>19. PositionInv'
    <2>1. Valid' <=> row_idx' <= Len(rows')
      BY DEF Valid
    <2>2. Valid' => /\ next_block' - 1 \in selected'
                    /\ rows' = blocks'[next_block']
                    /\ InKeyRange(range', rows'[row_idx'].key)
      BY <1>1, <1>17, <2>1
    <2>3. Returned' = {r \in RowsOf(range, selected)' :
                        Valid' => r.seq < rows'[row_idx'].seq}
      BY <1>15, <1>17, <2>1
    <2>4. QED BY <1>1, <1>12, <2>2, <2>3 DEF PositionInv
  <1>20. QED BY <1>15, <1>16, <1>18, <1>19

LEMMA CloseCursorKeeps ==
    FileInv /\ CloseCursor => FileInv'
  <1> SUFFICES ASSUME FileInv, CloseCursor PROVE FileInv'
    OBVIOUS
  <1> USE DEF FileInv
  <1>1. /\ phase = "reading" /\ phase' = "built"
        /\ range' = [from |-> {}, to |-> {}]
        /\ selected' = {} /\ next_block' = 0
        /\ rows' = <<>> /\ row_idx' = 1 /\ out' = <<>>
        /\ layout' = layout /\ options' = options /\ added' = added
        /\ buffer' = buffer /\ blocks' = blocks /\ index' = index
    BY DEF CloseCursor, building
  <1>2. Len(blocks) \in Nat /\ Len(rows') = 0
    BY <1>1, FileTypes
  <1>3. range' \in [from : OptKeys, to : OptKeys]
    BY <1>1 DEF OptKeys
  <1>4. FileTypeOK'
    BY <1>1, <1>2, <1>3 DEF FileTypeOK
  <1>5. AddedInv'
    BY <1>1 DEF AddedInv
  <1>6. BlocksInv'
    BY <1>1 DEF BlocksInv
  <1>7. IndexInv'
    BY <1>1 DEF IndexInv
  <1>8. PositionInv' /\ SelectionInv'
    BY <1>1, <1>2 DEF PositionInv, SelectionInv, Valid
  <1>9. QED BY <1>4, <1>5, <1>6, <1>7, <1>8

LEMMA FileStutterKeeps ==
    FileInv /\ UNCHANGED file_vars => FileInv'
  <1> SUFFICES ASSUME FileInv, UNCHANGED file_vars PROVE FileInv'
    OBVIOUS
  <1> USE DEF FileInv, file_vars, building, cursor
  <1>1. FileTypeOK'
    BY DEF FileTypeOK
  <1>2. AddedInv'
    BY DEF AddedInv
  <1>3. BlocksInv'
    BY DEF BlocksInv
  <1>4. IndexInv'
    BY DEF IndexInv
  <1>5. PositionInv'
    BY DEF PositionInv, Returned, RowsOf, Valid
  <1>6. SelectionInv'
    BY DEF SelectionInv, SplitAtLowerBound
  <1>7. QED BY <1>1, <1>2, <1>3, <1>4, <1>5, <1>6

-----------------------------------------------------------------------------
(* Theorems.                                                               *)

(* The inductive invariant: SSTableBuilder, the index and the cursor agree *)
(* on which row is in which block.                                         *)
THEOREM FileInvariant == FileSpec => []FileInv
  <1>1. FileInit => FileInv
    BY FileInitInv
  <1>2. FileInv /\ [FileNext]_file_vars => FileInv'
    <2> SUFFICES ASSUME FileInv, [FileNext]_file_vars PROVE FileInv'
      OBVIOUS
    <2>1. CASE \E row \in Row : AddRow(row)
      BY <2>1, AddRowKeeps
    <2>2. CASE Finish
      BY <2>2, FinishKeeps
    <2>3. CASE \E from, to \in OptKeys : OpenCursor([from |-> from, to |-> to])
      BY <2>3, OpenCursorKeeps
    <2>4. CASE NextRow
      BY <2>4, NextRowKeeps
    <2>5. CASE CloseCursor
      BY <2>5, CloseCursorKeeps
    <2>6. CASE UNCHANGED file_vars
      BY <2>6, FileStutterKeeps
    <2>7. QED BY <2>1, <2>2, <2>3, <2>4, <2>5, <2>6 DEF FileNext
  <1>3. QED BY <1>1, <1>2, PTL DEF FileSpec

(* Every row that was added is in a block of the finished table.           *)
LEMMA NoRowLeftOut ==
    ASSUME FileInv, phase = "reading", NEW n \in 1 .. Len(added)
    PROVE  \E i \in 1 .. Len(blocks) :
             \E p \in 1 .. Len(blocks[i]) : blocks[i][p] = added[n]
  <1>1. buffer = <<>> /\ Len(buffer) = 0
    BY DEF FileInv, IndexInv
  <1>2. QED BY <1>1 DEF FileInv, BlocksInv

(* scan "[from, to)" (storage_engine_interface.hpp) on one table: the      *)
(* cursor of make_sstable_cursor returns the rows of the range, in their   *)
(* order and each once, unless the rows of the lower bound's key run over  *)
(* the end of a block.                                                     *)
THEOREM ScanIsExactUnlessSplit == FileSpec => []ScanExactUnlessSplit
  <1>1. FileInv => ScanExactUnlessSplit
    <2> SUFFICES ASSUME FileInv, phase = "reading", ~SplitAtLowerBound
                 PROVE  ReturnsExpected
      BY DEF ScanExactUnlessSplit
    <2>1. /\ FileTypeOK /\ AddedInv /\ BlocksInv
          /\ \A m, n \in 1 .. Len(out) : m < n => out[m].seq < out[n].seq
          /\ Returned = {r \in RowsOf(range, selected) :
                           Valid => r.seq < rows[row_idx].seq}
      BY DEF FileInv, PositionInv
    <2>2. Len(blocks) \in Nat /\ selected \subseteq 0 .. Len(blocks) - 1
      BY <2>1, FileTypes DEF FileTypeOK
    <2>3. RowsOf(range, selected) = Expected
      <3>1. ASSUME NEW r \in RowsOf(range, selected) PROVE r \in Expected
        <4>1. PICK id \in selected :
                \E p \in Hits(range, blocks[id + 1], 1) : r = blocks[id + 1][p]
          BY DEF RowsOf
        <4>2. PICK p \in Hits(range, blocks[id + 1], 1) : r = blocks[id + 1][p]
          BY <4>1
        <4>3. PICK i : i = id + 1
          OBVIOUS
        <4>4. /\ i \in 1 .. Len(blocks) /\ p \in 1 .. Len(blocks[i])
              /\ r = blocks[i][p] /\ InKeyRange(range, r.key)
          BY <2>2, <4>2, <4>3, HitsAre
        <4>5. r.seq \in 1 .. Len(added) /\ r = added[r.seq]
          BY <2>1, <4>4, SeqOrder
        <4>6. QED BY <4>4, <4>5 DEF Expected
      <3>2. ASSUME NEW r \in Expected PROVE r \in RowsOf(range, selected)
        <4>1. PICK n \in 1 .. Len(added) :
                r = added[n] /\ InKeyRange(range, added[n].key)
          BY DEF Expected
        <4>2. PICK i \in 1 .. Len(blocks) :
                \E p \in 1 .. Len(blocks[i]) : blocks[i][p] = added[n]
          BY NoRowLeftOut
        <4>3. PICK p \in 1 .. Len(blocks[i]) : blocks[i][p] = added[n]
          BY <4>2
        <4>4. p \in Hits(range, blocks[i], 1)
          BY <4>1, <4>3, HitsAre
        <4>5. i - 1 \in selected
          BY <4>4 DEF FileInv, SelectionInv
        <4>6. (i - 1) + 1 = i
          BY <2>2
        <4>7. blocks[i][p] \in RowsOf(range, selected)
          BY <4>4, <4>5, <4>6 DEF RowsOf
        <4>8. QED BY <4>1, <4>3, <4>7
      <3>3. QED BY <3>1, <3>2
    <2>4. ASSUME NEW r \in Returned, NEW later \in Expected \ Returned
          PROVE  r.seq < later.seq
      <3>1. Valid /\ r.seq < rows[row_idx].seq /\ ~(later.seq < rows[row_idx].seq)
        BY <2>1, <2>3
      <3>2. r \in Expected /\ later \in Expected
        BY <2>1, <2>3
      <3>3. \A s \in Expected : s.seq \in Nat
        BY <2>1, FileTypes, RowTypes DEF Expected
      <3>4. rows[row_idx].seq \in Nat
        <4>1. rows \in Seq(Row) /\ row_idx \in 1 .. Len(rows)
          BY <2>1, <3>1 DEF FileTypeOK, Valid
        <4>2. QED BY <4>1, SeqTypes, RowTypes
      <3>5. QED BY <3>1, <3>2, <3>3, <3>4
    <2>5. ~Valid => Returned = Expected
      BY <2>1, <2>3
    <2>6. Returned \subseteq Expected
      BY <2>1, <2>3
    <2>7. QED BY <2>1, <2>4, <2>5, <2>6 DEF ReturnsExpected
  <1>2. QED BY <1>1, FileInvariant, PTL

(* CompactionJob reads its candidates from the start: it reads them whole, *)
(* with every repetition of a key.                                         *)
THEOREM ReadFromStartExact ==
    FileSpec => [](range.from = {} => ScanExact)
  <1>1. ScanExactUnlessSplit => (range.from = {} => ScanExact)
    BY DEF ScanExactUnlessSplit, ScanExact, SplitAtLowerBound
  <1>2. QED BY <1>1, ScanIsExactUnlessSplit, PTL

DistinctKeys ==
    \A m, n \in 1 .. Len(added) : m # n => added[m].key # added[n].key

(* A flush writes every key once: any range of its table is read exactly.  *)
THEOREM FlushedTableExact == FileSpec => [](DistinctKeys => ScanExact)
  <1>1. FileInv /\ DistinctKeys => ~SplitAtLowerBound
    <2> SUFFICES ASSUME FileInv, DistinctKeys, SplitAtLowerBound PROVE FALSE
      OBVIOUS
    <2>1. PICK i \in 2 .. Len(blocks) :
            Last(blocks[i - 1]).key = blocks[i][1].key
      BY DEF SplitAtLowerBound
    <2>2. FileTypeOK /\ BlocksInv
      BY DEF FileInv
    <2>3. PICK h, p : h = i - 1 /\ p = Len(blocks[i - 1])
      OBVIOUS
    <2>4. /\ i \in 1 .. Len(blocks) /\ 1 \in 1 .. Len(blocks[i])
          /\ h \in 1 .. Len(blocks) /\ p \in 1 .. Len(blocks[h]) /\ h < i
      BY <2>2, <2>3, FileTypes
    <2>5. /\ blocks[h][p].seq \in 1 .. Len(added)
          /\ blocks[h][p] = added[blocks[h][p].seq]
          /\ blocks[i][1].seq \in 1 .. Len(added)
          /\ blocks[i][1] = added[blocks[i][1].seq]
          /\ blocks[h][p].seq < blocks[i][1].seq
      BY <2>2, <2>4, SeqOrder
    <2>6. blocks[h][p].seq # blocks[i][1].seq
      BY <2>2, <2>4, <2>5, FileTypes, RowTypes
    <2>7. blocks[h][p].key = blocks[i][1].key
      BY <2>1, <2>3 DEF Last
    <2>8. QED BY <2>5, <2>6, <2>7 DEF DistinctKeys
  <1>2. FileInv /\ ScanExactUnlessSplit => (DistinctKeys => ScanExact)
    BY <1>1 DEF ScanExactUnlessSplit, ScanExact
  <1>3. QED BY <1>2, FileInvariant, ScanIsExactUnlessSplit, PTL
=============================================================================
