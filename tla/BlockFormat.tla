---------------------------- MODULE BlockFormat ----------------------------
(***************************************************************************)
(* The files of one SSTable, byte by byte: what the builders write to the  *)
(* data, metadata and statistics files, and what SSTableReader and the two *)
(* cursors make of them.                                                   *)
(*                                                                         *)
(* A byte has Bits bits, an integer of the format Word32 or Word64 bytes:  *)
(* small numbers in place of 8, 4 and 8 bring the second byte of a null    *)
(* bitmap and of a length within reach.  A cell is {} for NULL or {value}; *)
(* a string is the sequence of its bytes, and a DOUBLE, which is copied    *)
(* bit by bit, the number its bits make (of doubles that are not negative  *)
(* the order is that of the numbers; NaN is left out).                     *)
(***************************************************************************)
EXTENDS Integers, Sequences, FiniteSets
LOCAL INSTANCE SequencesExt
LOCAL INSTANCE FiniteSetsExt

CONSTANTS
    Bits,        \* of a byte
    Word32,      \* bytes of a uint32_t
    Word64,      \* bytes of an int64_t, a uint64_t and a double
    Tables       \* [layout, types, blocks]: the tables to write

ASSUME FormatAssumption ==
    /\ Bits \in Nat \ {0} /\ Word32 \in Nat \ {0} /\ Word64 \in Nat \ {0}
    /\ \A t \in Tables : t.blocks # <<>> /\ Head(t.types) = "INT64"

VARIABLES
    table,        \* what is written: layout, column types, rows per block
    data_file,    \* data_file_
    meta_file,    \* meta_file_
    stats_file,   \* the file of write_stats_file, empty before finish()
    block_id,     \* block_id_: the blocks written
    outcome       \* history: the read made of the finished table

format_vars == <<table, data_file, meta_file, stats_file, block_id, outcome>>

NotRead == [what |-> "none"]
Columns == DOMAIN table.types

-----------------------------------------------------------------------------
(* BinaryWriter and memcpy.                                                *)

Base == 2 ^ Bits

(* Little endian, two's complement.                                        *)
Little(n, width) == [i \in 1 .. width |-> (n \div Base ^ (i - 1)) % Base]
U8(n) == Little(n, 1)
U32(n) == Little(n, Word32)
I64(n) == Little(n, Word64)

Unsigned(bytes) ==
    MapThenSumSet(LAMBDA i : bytes[i] * Base ^ (i - 1), DOMAIN bytes)

Signed(bytes) ==
    LET n == Unsigned(bytes)
        range == Base ^ Len(bytes)
    IN  IF 2 * n >= range THEN n - range ELSE n

Number(type, bytes) == IF type = "INT64" THEN Signed(bytes) ELSE Unsigned(bytes)

(* size bytes of a file from an offset on.                                 *)
Bytes(file, offset, size) == SubSeq(file, offset + 1, offset + size)

(* A null bitmap with the bits of these positions set, and one of its bits.*)
Bitmap(nulls, size) ==
    [b \in 1 .. size |->
       MapThenSumSet(LAMBDA i : 2 ^ (i % Bits),
                     {i \in nulls : i \div Bits = b - 1})]

IsNull(bitmap, i) == (bitmap[i \div Bits + 1] \div 2 ^ (i % Bits)) % 2 = 1

BitmapSize(count) == (count + Bits - 1) \div Bits

-----------------------------------------------------------------------------
(* Writing.                                                                *)

Value(cell) == CHOOSE v \in cell : TRUE

(* write_value_by_type, encode_value: nothing for NULL.                    *)
EncodeValue(type, cell) ==
    IF cell = {} THEN <<>>
    ELSE IF type = "STRING" THEN U32(Len(Value(cell))) \o Value(cell)
    ELSE I64(Value(cell))

(* RowSSTBlockBuilder::encode_row: key, null bitmap of the other columns,  *)
(* their values.                                                           *)
EncodeRow(row) ==
    I64(Value(row[1]))
      \o Bitmap({c - 2 : c \in {d \in Columns \ {1} : row[d] = {}}},
                BitmapSize(Len(row) - 1))
      \o FlattenSeq([i \in 1 .. Len(row) - 1 |->
                       EncodeValue(table.types[i + 1], row[i + 1])])

EncodeRowBlock(rows) == FlattenSeq([r \in DOMAIN rows |-> EncodeRow(rows[r])])

(* ColumnSSTBlockBuilder: the bitmap grows with the rows, and goes first.  *)
EncodeColumnBlock(rows, c) ==
    Bitmap({r - 1 : r \in {s \in DOMAIN rows : rows[s][c] = {}}},
           (Len(rows) - 1) \div Bits + 1)
      \o FlattenSeq([r \in DOMAIN rows |->
                       EncodeValue(table.types[c], rows[r][c])])

(* The key block of a COLUMN table has no bitmap.                          *)
EncodeKeyBlock(rows) ==
    FlattenSeq([r \in DOMAIN rows |-> I64(Value(rows[r][1]))])

KeysOf(rows) == {Value(rows[r][1]) : r \in DOMAIN rows}

(* An entry of the metadata file, but for the column of a COLUMN table.    *)
EncodeMeta(rows, offset, size) ==
    I64(Min(KeysOf(rows))) \o I64(Max(KeysOf(rows))) \o I64(offset)
      \o I64(size) \o U32(Len(rows)) \o U32(block_id)

(* flush_block of the two builders.                                        *)
FlushBlock ==
    /\ block_id < Len(table.blocks)
    /\ LET rows == table.blocks[block_id + 1]
           parts == IF table.layout = "ROW" THEN <<EncodeRowBlock(rows)>>
                    ELSE [c \in Columns |->
                            IF c = 1 THEN EncodeKeyBlock(rows)
                            ELSE EncodeColumnBlock(rows, c)]
           offset(p) == Len(data_file)
                          + Len(FlattenSeq(SubSeq(parts, 1, p - 1)))
           entry(p) == EncodeMeta(rows, offset(p), Len(parts[p]))
                         \o (IF table.layout = "ROW" THEN <<>> ELSE U32(p - 1))
       IN  /\ data_file' = data_file \o FlattenSeq(parts)
           /\ meta_file' = meta_file
                             \o FlattenSeq([p \in DOMAIN parts |-> entry(p)])
    /\ block_id' = block_id + 1
    /\ UNCHANGED <<table, stats_file, outcome>>

(* NumericBlockStats of a column in a block: none, or minimum and maximum. *)
NumericStats(rows, c) ==
    LET values == UNION {rows[r][c] : r \in DOMAIN rows}
    IN  IF values = {} THEN {} ELSE {<<Min(values), Max(values)>>}

NumericColumns ==
    SetToSortSeq({c \in Columns \ {1} : table.types[c] # "STRING"}, <)

TypeCode(type) == CASE type = "INT64" -> 0 [] type = "DOUBLE" -> 1

StatsHeaderSize == 4 * Word32
DescriptorSize == 2 * Word32 + 1 + Word64
StatsEntrySize == 1 + 2 * Word64

EncodeStats(stats) ==
    IF stats = {} THEN U8(0) \o I64(0) \o I64(0)
    ELSE U8(1) \o I64(Value(stats)[1]) \o I64(Value(stats)[2])

(* An offset that forgets how many blocks every column has.                *)
ColumnOffsetOfOne(n) ==
    StatsHeaderSize + Len(NumericColumns) * DescriptorSize
      + (n - 1) * StatsEntrySize

(* column_offset of the n-th column with statistics.                       *)
ColumnOffset(n) ==
    StatsHeaderSize + Len(NumericColumns) * DescriptorSize
      + (n - 1) * block_id * StatsEntrySize

(* finish: write_stats_file.  The magic number and the version are 1.      *)
FinishTable ==
    /\ block_id = Len(table.blocks)
    /\ stats_file = <<>>
    /\ LET columns == NumericColumns
           descriptor(n) == U32(columns[n] - 1)
                              \o U8(TypeCode(table.types[columns[n]]))
                              \o I64(ColumnOffset(n)) \o U32(StatsEntrySize)
           entries(n) ==
             FlattenSeq([b \in 1 .. block_id |->
                EncodeStats(NumericStats(table.blocks[b], columns[n]))])
       IN  stats_file' =
             U32(1) \o U32(1) \o U32(block_id) \o U32(Len(columns))
               \o FlattenSeq([n \in DOMAIN columns |-> descriptor(n)])
               \o FlattenSeq([n \in DOMAIN columns |-> entries(n)])
    /\ UNCHANGED <<table, data_file, meta_file, block_id, outcome>>

-----------------------------------------------------------------------------
(* Reading.  A decoder walks over the bytes: pos is what it has used, ok   *)
(* is false once it has run over the end and thrown.                       *)

(* A skip that leaves the characters of a string where they are.           *)
SkipLength(bytes, pos, type) ==
    pos + (IF type = "STRING" THEN Word32 ELSE Word64)

(* skip_value: the position behind the value.                              *)
SkipValue(bytes, pos, type) ==
    IF type # "STRING" THEN pos + Word64
    ELSE IF pos + Word32 > Len(bytes) THEN Len(bytes) + 1
    ELSE pos + Word32 + Unsigned(Bytes(bytes, pos, Word32))

(* read_int64, read_double, read_string.                                   *)
ReadValue(bytes, pos, type) ==
    IF type # "STRING"
    THEN [pos |-> pos + Word64, value |-> Bytes(bytes, pos, Word64)]
    ELSE IF pos + Word32 > Len(bytes) THEN [pos |-> Len(bytes) + 1]
    ELSE LET size == Unsigned(Bytes(bytes, pos, Word32))
         IN  [pos |-> pos + Word32 + size,
              value |-> Bytes(bytes, pos + Word32, size)]

(* acc and the next cell: NULL, skipped or read.                           *)
NextCell(acc, bytes, type, is_null, wanted) ==
    IF ~acc.ok THEN acc
    ELSE IF is_null THEN [acc EXCEPT !.cells = Append(@, {})]
    ELSE IF ~wanted
      THEN LET end == SkipValue(bytes, acc.pos, type)
           IN  [ok |-> end <= Len(bytes), pos |-> end,
                cells |-> Append(acc.cells, {})]
    ELSE LET got == ReadValue(bytes, acc.pos, type)
             value == IF type = "STRING" THEN got.value
                      ELSE Number(type, got.value)
         IN  IF got.pos > Len(bytes) THEN [acc EXCEPT !.ok = FALSE]
             ELSE [ok |-> TRUE, pos |-> got.pos,
                   cells |-> Append(acc.cells, {value})]

(* The row of decode_row_block that starts at pos.                         *)
DecodeRow(bytes, pos, projection) ==
    LET bitmap_end == pos + Word64 + BitmapSize(Len(table.types) - 1)
        bitmap == Bytes(bytes, pos + Word64, bitmap_end - pos - Word64)
        start == [ok |-> TRUE, pos |-> bitmap_end,
                  cells |-> <<{Signed(Bytes(bytes, pos, Word64))}>>]
        cell(acc, c) == NextCell(acc, bytes, table.types[c],
                                 IsNull(bitmap, c - 2), c \in projection)
    IN  IF bitmap_end > Len(bytes) THEN [ok |-> FALSE, pos |-> pos]
        ELSE FoldLeft(cell, start, [i \in 1 .. Len(table.types) - 1 |-> i + 1])

(* decode_row_block                                                        *)
DecodeRowBlock(bytes, row_count, projection) ==
    LET row(acc, r) ==
          IF ~acc.ok THEN acc
          ELSE LET got == DecodeRow(bytes, acc.pos, projection)
               IN  IF ~got.ok THEN [acc EXCEPT !.ok = FALSE]
                   ELSE [ok |-> TRUE, pos |-> got.pos,
                         rows |-> Append(acc.rows, got.cells)]
    IN  FoldLeft(row, [ok |-> TRUE, pos |-> 0, rows |-> <<>>],
                 [r \in 1 .. row_count |-> r])

(* decode_value_column_block                                               *)
DecodeColumnBlock(bytes, count, type) ==
    LET size == BitmapSize(count)
        bitmap == Bytes(bytes, 0, size)
        cell(acc, r) ==
          NextCell(acc, bytes, type, IsNull(bitmap, r - 1), TRUE)
    IN  IF size > Len(bytes) THEN [ok |-> FALSE]
        ELSE FoldLeft(cell, [ok |-> TRUE, pos |-> size, cells |-> <<>>],
                      [r \in 1 .. count |-> r])

(* decode_key_block                                                        *)
DecodeKeyBlock(bytes, count) ==
    IF count * Word64 > Len(bytes) THEN [ok |-> FALSE]
    ELSE [ok |-> TRUE,
          cells |-> [r \in 1 .. count |->
                       {Signed(Bytes(bytes, (r - 1) * Word64, Word64))}]]

(* ROW_BLOCK_META_ON_DISK_SIZE, COLUMN_BLOCK_META_ON_DISK_SIZE             *)
MetaSize == 4 * Word64 + (IF table.layout = "ROW" THEN 2 ELSE 3) * Word32

(* An entry of read_row_metadata_range, read_column_metadata_range.        *)
DecodeMeta(n) ==
    LET entry == Bytes(meta_file, n * MetaSize, MetaSize)
        long(i) == Bytes(entry, i * Word64, Word64)
        short(i) == Unsigned(Bytes(entry, 4 * Word64 + i * Word32, Word32))
    IN  [min_key |-> Signed(long(0)), max_key |-> Signed(long(1)),
         offset |-> Unsigned(long(2)), size |-> Unsigned(long(3)),
         row_count |-> short(0), block_id |-> short(1),
         column_idx |-> IF table.layout = "ROW" THEN 0 ELSE short(2)]

(* read_data_bytes                                                         *)
DataBytes(meta) == Bytes(data_file, meta.offset, meta.size)

(* The rows of block b, and the metadata they were found with.  The cursor *)
(* of a COLUMN table sees the entries of the projected columns only, and   *)
(* puts each column where its entry says.                                  *)
RowBlock(b, projection) ==
    LET meta == DecodeMeta(b)
        got == DecodeRowBlock(DataBytes(meta), meta.row_count, projection)
    IN  [ok |-> got.ok, rows |-> got.rows, metas |-> {meta}]

ColumnBlock(b, projection) ==
    LET width == Len(table.types)
        metas == {m \in {DecodeMeta(b * width + c - 1) : c \in Columns} :
                    m.column_idx + 1 \in projection \cup {1}}
        decoded == [m \in metas |->
          IF m.column_idx = 0 THEN DecodeKeyBlock(DataBytes(m), m.row_count)
          ELSE DecodeColumnBlock(DataBytes(m), m.row_count,
                                 table.types[m.column_idx + 1])]
        loaded(c) == {m \in metas : m.column_idx + 1 = c}
        cell(c, r) == IF loaded(c) = {} THEN {}
                      ELSE decoded[CHOOSE m \in loaded(c) : TRUE].cells[r]
    IN  IF \E m \in metas : ~decoded[m].ok
          THEN [ok |-> FALSE, rows |-> <<>>, metas |-> metas]
        ELSE [ok |-> TRUE, metas |-> metas,
              rows |-> [r \in 1 .. Min({m.row_count : m \in metas}) |->
                          [c \in Columns |-> cell(c, r)]]]

(* load_next_non_empty_block, for one block.                               *)
ReadBlockOf(b, projection) ==
    /\ stats_file # <<>> /\ outcome = NotRead
    /\ outcome' = [what |-> "block", block |-> b, projection |-> projection,
                   result |-> IF table.layout = "ROW"
                              THEN RowBlock(b, projection)
                              ELSE ColumnBlock(b, projection)]
    /\ UNCHANGED <<table, data_file, meta_file, stats_file, block_id>>

(* load_numeric_stats_index: [column, type, offset].                       *)
Descriptors ==
    LET count == Unsigned(Bytes(stats_file, 3 * Word32, Word32))
        at(n) == StatsHeaderSize + (n - 1) * DescriptorSize
    IN  [n \in 1 .. count |->
           [column |-> Unsigned(Bytes(stats_file, at(n), Word32)) + 1,
            type |-> Unsigned(Bytes(stats_file, at(n) + Word32, 1)),
            offset |-> Unsigned(Bytes(stats_file, at(n) + Word32 + 1, Word64))]]

(* The entries of the statistics file from an offset on.                   *)
DecodeStats(type, offset, count) ==
    [i \in 1 .. count |->
       LET entry == Bytes(stats_file, offset + (i - 1) * StatsEntrySize,
                          StatsEntrySize)
           number(at) == Number(type, Bytes(entry, at, Word64))
       IN  IF entry[1] = 0 THEN {}
           ELSE {<<number(1), number(1 + Word64)>>}]

(* read_numeric_stats_range of one column: nothing for a column without a  *)
(* descriptor, an exception for data beyond the end of the file.           *)
ReadStats(first, count, c) ==
    /\ stats_file # <<>> /\ outcome = NotRead
    /\ first + count <= Unsigned(Bytes(stats_file, 2 * Word32, Word32))
    /\ LET all == Descriptors
           num_blocks == Unsigned(Bytes(stats_file, 2 * Word32, Word32))
           fits == \A n \in DOMAIN all :
                     all[n].offset + num_blocks * StatsEntrySize
                       <= Len(stats_file)
           found == SelectSeq(all, LAMBDA d : d.column = c)
           type == IF found[1].type = 0 THEN "INT64" ELSE "DOUBLE"
       IN  outcome' =
             [what |-> "stats", first |-> first, count |-> count, column |-> c,
              ok |-> fits,
              result |-> IF ~fits \/ found = <<>> THEN <<>>
                         ELSE DecodeStats(type, found[1].offset
                                            + first * StatsEntrySize, count)]
    /\ UNCHANGED <<table, data_file, meta_file, stats_file, block_id>>

FormatInit ==
    /\ table \in Tables
    /\ data_file = <<>> /\ meta_file = <<>> /\ stats_file = <<>>
    /\ block_id = 0
    /\ outcome = NotRead

FormatNext ==
    \/ FlushBlock
    \/ FinishTable
    \/ \E b \in 0 .. Len(table.blocks) - 1 :
         \/ \E projection \in SUBSET Columns : ReadBlockOf(b, projection)
         \/ \E count \in 1 .. Len(table.blocks), c \in Columns :
              ReadStats(b, count, c)

FormatSpec == FormatInit /\ [][FormatNext]_format_vars

-----------------------------------------------------------------------------
(* Properties.                                                             *)

(* What the two builders write is what the two cursors and the reader get  *)
(* back, for every schema, every pattern of NULLs and every projection:    *)
(* the projected cells and no others, from the right block, with the keys  *)
(* and counts of that block, although a NULL takes no byte, a string any   *)
(* number of them, and the two sides compute every size and offset on      *)
(* their own.  The statistics of a column are the minimum and maximum of   *)
(* its values, block by block.                                             *)
WrittenIsRead ==
    /\ outcome.what = "block" =>
         LET rows == table.blocks[outcome.block + 1]
             seen == outcome.projection \cup {1}
         IN  /\ outcome.result.ok
             /\ outcome.result.rows =
                  [r \in DOMAIN rows |->
                     [c \in Columns |-> IF c \in seen THEN rows[r][c] ELSE {}]]
             /\ \A m \in outcome.result.metas :
                  /\ m.min_key = Min(KeysOf(rows))
                  /\ m.max_key = Max(KeysOf(rows))
                  /\ m.block_id = outcome.block
    /\ outcome.what = "stats" =>
         /\ outcome.ok
         /\ outcome.result =
              IF table.types[outcome.column] = "STRING" \/ outcome.column = 1
              THEN <<>>
              ELSE [i \in 1 .. outcome.count |->
                      NumericStats(table.blocks[outcome.first + i],
                                   outcome.column)]
=============================================================================
