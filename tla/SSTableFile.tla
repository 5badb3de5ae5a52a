---------------------------- MODULE SSTableFile ----------------------------
(***************************************************************************)
(* One SSTable: a builder cuts a sorted run of rows into blocks and writes *)
(* a sparse index, and a cursor reads a key range back through the index,  *)
(* the block metadata and the blocks.                                      *)
(*                                                                         *)
(* A row is [key, seq, size]; size stands for the bytes the row adds to    *)
(* its block (ROW) or to its widest column block (COLUMN).  A block is the *)
(* sequence of its rows; a COLUMN block is the group of the column blocks  *)
(* with one block_id, which are written, selected and loaded together.     *)
(* Block ids count from 0, TLA+ sequences from 1.                          *)
(***************************************************************************)
EXTENDS Integers, Sequences, FiniteSets, SequencesExt, FiniteSetsExt

CONSTANTS
    Keys,             \* the keys in use
    RowSizes,         \* the sizes of rows
    MaxFileRows,          \* bound on the rows of the table
    TargetRows,       \* column_block_target_rows
    TargetBytes,      \* row_block_target_bytes, column_block_target_bytes
    IndexOptions,     \* the SparseIndexOptions to choose from
    IndexEntryBytes        \* SPARSE_INDEX_ENTRY_ON_DISK_SIZE

ASSUME FileAssumption ==
    /\ Keys \subseteq Int
    /\ RowSizes \subseteq Nat \ {0}
    /\ MaxFileRows \in Nat
    /\ TargetRows \in Nat \ {0} /\ TargetBytes \in Nat \ {0}
    /\ IndexOptions \subseteq [fixed_step : Nat, target_index_bytes : Nat,
                               min_step : Nat \ {0}, max_step : Nat \ {0}]
    /\ IndexEntryBytes \in Nat \ {0}

VARIABLES
    layout,     \* ROW or COLUMN
    options,    \* SparseIndexOptions
    added,      \* history: the rows given to the builder, in order
    buffer,     \* the rows of the unfinished block
    blocks,     \* data.bin and meta: the finished blocks
    index,      \* sparse.idx
    phase,      \* "building", "built", "reading"
    range,      \* the cursor's range_: [from, to], each a set of <= 1 key
    selected,   \* the cursor's blocks_: block ids, read in their order
    next_block, \* next_block_idx_, as the first block id not read yet
    rows,       \* current_rows_
    row_idx,    \* current_row_idx_, from 1
    out         \* history: the rows the cursor has returned

building == <<layout, options, added, buffer, blocks>>
cursor == <<range, selected, next_block, rows, row_idx, out>>
file_vars == <<building, index, phase, cursor>>

Row == [key : Keys, seq : 1 .. MaxFileRows, size : RowSizes]

OptKeys == {{}} \cup {{k} : k \in Keys}

-----------------------------------------------------------------------------
(* The builder.                                                            *)

BlockBytes(block) == FoldSeq(LAMBDA r, total : r.size + total, 0, block)

(* full(), any_col_builder_full(): an add() has reached the target.        *)
Full(block) ==
    /\ block # <<>>
    /\ \/ BlockBytes(block) >= TargetBytes
       \/ layout = "COLUMN" /\ Len(block) >= TargetRows

FileInit ==
    /\ layout \in {"ROW", "COLUMN"}
    /\ options \in IndexOptions
    /\ added = <<>> /\ buffer = <<>> /\ blocks = <<>> /\ index = <<>>
    /\ phase = "building"
    /\ range = [from |-> {}, to |-> {}]
    /\ selected = {} /\ next_block = 0
    /\ rows = <<>> /\ row_idx = 1
    /\ out = <<>>

(* The builder's test of the order; a compaction adds a key repeatedly.    *)
InOrder(key) == added # <<>> => key >= Last(added).key

(* add(row): a full block is flushed by the next row.                      *)
AddRow(row) ==
    /\ phase = "building"
    /\ Len(added) < MaxFileRows
    /\ row.seq = Len(added) + 1
    /\ InOrder(row.key)
    /\ added' = Append(added, row)
    /\ IF Full(buffer)
         THEN blocks' = Append(blocks, buffer) /\ buffer' = <<row>>
         ELSE blocks' = blocks /\ buffer' = Append(buffer, row)
    /\ UNCHANGED <<layout, options, index, phase, cursor>>

Clamp(n, lo, hi) == IF n < lo THEN lo ELSE IF n > hi THEN hi ELSE n

(* choose_sparse_index_step: a fixed step, or the smallest step whose      *)
(* index fits the budget.                                                  *)
ChooseSparseIndexStep(num_blocks) ==
    LET max_step == Max({options.min_step, options.max_step})
        entries == Max({1, options.target_index_bytes \div IndexEntryBytes})
    IN  IF options.fixed_step # 0
          THEN Clamp(options.fixed_step, options.min_step, max_step)
        ELSE IF options.target_index_bytes < IndexEntryBytes THEN max_step
        ELSE Clamp((num_blocks + entries - 1) \div entries,
                   options.min_step, max_step)

(* write_sparse_index_file: an entry for every step-th block.              *)
SparseIndex(all) ==
    LET step == ChooseSparseIndexStep(Len(all))
    IN  [i \in 1 .. (Len(all) + step - 1) \div step |->
           [min_key |-> all[(i - 1) * step + 1][1].key,
            block_id |-> (i - 1) * step]]

(* finish(): the last block, then the index.  An empty table is refused.   *)
Finish ==
    /\ phase = "building"
    /\ added # <<>>
    /\ blocks' = Append(blocks, buffer)
    /\ buffer' = <<>>
    /\ index' = SparseIndex(blocks')
    /\ phase' = "built"
    /\ UNCHANGED <<layout, options, added, cursor>>

-----------------------------------------------------------------------------
(* The cursor.                                                             *)

InKeyRange(rng, key) ==
    (\A f \in rng.from : key >= f) /\ (\A t \in rng.to : key < t)

(* select_metadata_range, lower bound: the last indexed block whose        *)
(* min_key is not above `from'.                                            *)
FirstBlock(from) ==
    LET below == {i \in DOMAIN index : \A f \in from : index[i].min_key <= f}
    IN  IF from = {} \/ below = {} THEN 0 ELSE index[Max(below)].block_id

(* The upper bound taken one index entry too early.                        *)
EndBlockEarly(to) ==
    LET above == {i \in DOMAIN index : \A t \in to : index[i].min_key >= t}
    IN  IF to = {} THEN Len(blocks)
        ELSE index[Max({1, Min(above \cup {Len(index) + 1}) - 1})].block_id

(* ... upper bound: the first indexed block whose min_key is not below     *)
(* `to'.                                                                   *)
EndBlock(to) ==
    LET above == {i \in DOMAIN index : \A t \in to : index[i].min_key >= t}
    IN  IF to = {} \/ above = {} THEN Len(blocks) ELSE index[Min(above)].block_id

(* filter_candidate_blocks: [min_key, max_key] of the block meets range.   *)
Intersects(block, rng) ==
    /\ \A f \in rng.from : Last(block).key >= f
    /\ \A t \in rng.to : block[1].key < t

(* The blocks that make_sstable_cursor hands to the cursor.                *)
SelectBlocks(rng) ==
    {id \in FirstBlock(rng.from) .. EndBlock(rng.to) - 1 :
       Intersects(blocks[id + 1], rng)}

(* The rows of a block in range, from the idx-th on.                       *)
Hits(rng, block, idx) ==
    {i \in idx .. Len(block) : InKeyRange(rng, block[i].key)}

(* load_next_non_empty_block, from block id `first' of the selection on.   *)
LoadFrom(rng, ids, first) ==
    LET loads == {id \in ids : /\ id >= first
                              /\ Hits(rng, blocks[id + 1], 1) # {}}
    IN  IF loads = {}
          THEN /\ next_block' = Len(blocks)
               /\ rows' = <<>> /\ row_idx' = 1
          ELSE /\ next_block' = Min(loads) + 1
               /\ rows' = blocks[Min(loads) + 1]
               /\ row_idx' = Min(Hits(rng, rows', 1))

(* make_sstable_cursor on a finished table.  nullptr, returned when no     *)
(* block is selected, is a cursor that is not valid.                       *)
OpenCursor(rng) ==
    /\ phase = "built"
    /\ phase' = "reading"
    /\ range' = rng
    /\ selected' = SelectBlocks(rng)
    /\ LoadFrom(rng, SelectBlocks(rng), 0)
    /\ UNCHANGED <<building, index, out>>

Valid == row_idx <= Len(rows)

(* value() of the current row, then next().                                *)
NextRow ==
    /\ phase = "reading"
    /\ Valid
    /\ out' = Append(out, rows[row_idx])
    /\ LET rest == Hits(range, rows, row_idx + 1)
       IN  IF rest # {}
             THEN row_idx' = Min(rest) /\ UNCHANGED <<next_block, rows>>
             ELSE LoadFrom(range, selected, next_block)
    /\ UNCHANGED <<building, index, phase, range, selected>>

(* The cursor is destroyed; the table can be read again.                   *)
CloseCursor ==
    /\ phase = "reading"
    /\ phase' = "built"
    /\ range' = [from |-> {}, to |-> {}]
    /\ selected' = {} /\ next_block' = 0
    /\ rows' = <<>> /\ row_idx' = 1
    /\ out' = <<>>
    /\ UNCHANGED <<building, index>>

FileNext ==
    \/ \E row \in Row : AddRow(row)
    \/ Finish
    \/ \E from, to \in OptKeys : OpenCursor([from |-> from, to |-> to])
    \/ NextRow
    \/ CloseCursor

FileSpec == FileInit /\ [][FileNext]_file_vars

-----------------------------------------------------------------------------
(* Properties.                                                             *)

Returned == {out[n] : n \in 1 .. Len(out)}

(* The rows of [from, to).                                                 *)
Expected ==
    {added[n] : n \in {m \in 1 .. Len(added) :
                        InKeyRange(range, added[m].key)}}

(* The rows returned are the first of the expected ones, in the order in   *)
(* which they were added, and all of them when the cursor is at its end.   *)
ReturnsExpected ==
    /\ \A m, n \in 1 .. Len(out) : m < n => out[m].seq < out[n].seq
    /\ Returned \subseteq Expected
    /\ \A r \in Returned, later \in Expected \ Returned : r.seq < later.seq
    /\ ~Valid => Returned = Expected

(* scan "[from, to)" (storage_engine_interface.hpp): whatever the blocks,  *)
(* the step of the index and the bounds, the cursor returns the rows of    *)
(* the range, in order, each once.                                         *)
ScanExact == phase = "reading" => ReturnsExpected

(* The rows of the lower bound's key run over the end of a block.          *)
SplitAtLowerBound ==
    \E i \in 2 .. Len(blocks) :
      \E f \in range.from : Last(blocks[i - 1]).key = f /\ blocks[i][1].key = f

(* The same for every table, with repeated keys too, unless the lower      *)
(* bound splits.  So a flushed table can be read from anywhere, and        *)
(* CompactionJob, which reads its candidates from the start, loses and     *)
(* repeats nothing.                                                        *)
ScanExactUnlessSplit ==
    phase = "reading" /\ ~SplitAtLowerBound => ReturnsExpected

-----------------------------------------------------------------------------
(* The inductive invariant.                                                *)

FileTypeOK ==
    /\ layout \in {"ROW", "COLUMN"}
    /\ options \in IndexOptions
    /\ added \in Seq(Row)
    /\ buffer \in Seq(Row)
    /\ blocks \in Seq(Seq(Row) \ {<<>>})
    /\ index \in Seq([min_key : Keys, block_id : Nat])
    /\ phase \in {"building", "built", "reading"}
    /\ range \in [from : OptKeys, to : OptKeys]
    /\ selected \subseteq 0 .. Len(blocks) - 1
    /\ next_block \in 0 .. Len(blocks)
    /\ rows \in Seq(Row)
    /\ row_idx \in Nat \ {0}
    /\ out \in Seq(Row)

(* The rows added are numbered and sorted.                                 *)
AddedInv ==
    /\ Len(added) <= MaxFileRows
    /\ \A n \in 1 .. Len(added) : added[n].seq = n
    /\ \A m, n \in 1 .. Len(added) : m < n => added[m].key <= added[n].key

(* Some of the rows that were added, in their order.                       *)
IsRun(all, block) ==
    /\ \A p \in 1 .. Len(block) :
         /\ block[p].seq \in 1 .. Len(all)
         /\ block[p] = all[block[p].seq]
    /\ \A p, q \in 1 .. Len(block) : p < q => block[p].seq < block[q].seq

IsBefore(block, next) ==
    \A p \in 1 .. Len(block), q \in 1 .. Len(next) : block[p].seq < next[q].seq

(* The blocks and then the buffer have every row that was added, in order. *)
BlocksInv ==
    /\ IsRun(added, buffer)
    /\ \A i \in 1 .. Len(blocks) :
         IsRun(added, blocks[i]) /\ IsBefore(blocks[i], buffer)
    /\ \A i, j \in 1 .. Len(blocks) : i < j => IsBefore(blocks[i], blocks[j])
    /\ \A n \in 1 .. Len(added) :
         \/ \E p \in 1 .. Len(buffer) : buffer[p] = added[n]
         \/ \E i \in 1 .. Len(blocks) :
              \E p \in 1 .. Len(blocks[i]) : blocks[i][p] = added[n]
    /\ phase = "building" /\ added # <<>> => buffer # <<>>

(* An entry of the index has the first key of its block.                   *)
IndexInv ==
    /\ phase # "building" => buffer = <<>> /\ blocks # <<>>
    /\ \A i \in 1 .. Len(index) :
         /\ index[i].block_id \in 0 .. Len(blocks) - 1
         /\ index[i].min_key = blocks[index[i].block_id + 1][1].key

(* The rows in range of some blocks.                                       *)
RowsOf(rng, ids) ==
    UNION {{blocks[id + 1][p] : p \in Hits(rng, blocks[id + 1], 1)} :
             id \in ids}

(* The cursor stands at a row in range of the block read last, or at the   *)
(* end, and has returned the selected rows before it.                      *)
PositionInv ==
    /\ phase # "reading" => rows = <<>> /\ row_idx = 1 /\ out = <<>>
    /\ Valid =>
         /\ next_block - 1 \in selected
         /\ rows = blocks[next_block]
         /\ InKeyRange(range, rows[row_idx].key)
    /\ phase = "reading" =>
         /\ \A m, n \in 1 .. Len(out) : m < n => out[m].seq < out[n].seq
         /\ Returned =
              {r \in RowsOf(range, selected) :
                 Valid => r.seq < rows[row_idx].seq}

(* No block that was left out has a row in range.                          *)
SelectionInv ==
    phase = "reading" /\ ~SplitAtLowerBound =>
      \A i \in 1 .. Len(blocks) :
        Hits(range, blocks[i], 1) # {} => i - 1 \in selected

FileInv ==
    /\ FileTypeOK
    /\ AddedInv
    /\ BlocksInv
    /\ IndexInv
    /\ PositionInv
    /\ SelectionInv
=============================================================================
