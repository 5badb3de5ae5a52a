----------------------------- MODULE MCReadPath ----------------------------
(***************************************************************************)
(* SSTableFile, BlockFormat, MetadataCache, BlockCache and ComposedCursor  *)
(* for TLC.  They share no state: `part' is the one a behaviour is about,  *)
(* and the others rest.                                                    *)
(***************************************************************************)
EXTENDS MCSSTableFile, MetadataCache, BlockCache, BlockFormat, ComposedCursor

VARIABLE part

(* The metadata has pages of two blocks, the last one of one block, and    *)
(* one of its columns has statistics.                                      *)
MCStatsColumns == {1}

(* The blocks of a ROW table, one of them larger than the budget, and of a *)
(* COLUMN table with two columns.                                          *)
MCDataBlocks ==
    {[sst |-> 0, kind |-> "Row", block |-> 0, column |-> 0, size |-> 5],
     [sst |-> 0, kind |-> "Row", block |-> 1, column |-> 0, size |-> 1]}
      \cup {[sst |-> 1, kind |-> "Column", block |-> 0, column |-> c,
             size |-> 1 + c] : c \in 0 .. 1}
      \cup {[sst |-> 1, kind |-> "Column", block |-> 1, column |-> c,
             size |-> 2 - c] : c \in 0 .. 1}

(* Up to three sources of up to two keys.                                  *)
Sorted == {s \in UNION {[1 .. n -> 1 .. 3] : n \in 0 .. 2} :
             \A a, b \in DOMAIN s : a < b => s[a] <= s[b]}
MCSources == UNION {[1 .. n -> Sorted] : n \in 0 .. 3}

-----------------------------------------------------------------------------
(* Tables: bytes have two bits, so a bitmap goes into its second byte at   *)
(* the third column or row.  The cells of a table follow from their place  *)
(* and from the set of the cells that are NULL.                            *)
TypeLists ==
    {<<"INT64">>, <<"INT64", "STRING">>, <<"INT64", "DOUBLE">>,
     <<"INT64", "INT64", "STRING">>, <<"INT64", "INT64", "DOUBLE">>,
     <<"INT64", "STRING", "STRING", "DOUBLE">>,
     <<"INT64", "STRING", "INT64", "DOUBLE", "INT64">>}

ValueAt(type, r, c) ==
    CASE type = "INT64" -> (IF (r + c) % 2 = 0 THEN -1 ELSE 1) * (5 * r + c)
      [] type = "DOUBLE" -> 7 * r + 3 * c
      [] type = "STRING" -> [i \in 1 .. (3 * r + c) % 6 |-> (r + c + i) % 4]

(* Two blocks that end after row `cut' of `count'.                         *)
TableOf(l, types, count, cut, nulls) ==
    LET row(r) == [c \in DOMAIN types |->
                     IF c = 1 THEN {r - 3}
                     ELSE IF <<r, c>> \in nulls THEN {}
                     ELSE {ValueAt(types[c], r, c)}]
        all == [r \in 1 .. count |-> row(r)]
    IN  [layout |-> l, types |-> types,
         blocks |-> IF cut = count THEN <<all>>
                    ELSE <<SubSeq(all, 1, cut), SubSeq(all, cut + 1, count)>>]

(* Wide tables of two rows, and long ones of two columns.                  *)
MCTables ==
    UNION {{TableOf(l, types, 2, cut, nulls) :
              l \in {"ROW", "COLUMN"}, cut \in 1 .. 2,
              nulls \in SUBSET ({1, 2} \X (2 .. Len(types)))} :
             types \in {t \in TypeLists : Len(t) <= 4}}
      \cup UNION {{TableOf(l, types, 1, 1, nulls) :
                     l \in {"ROW", "COLUMN"},
                     nulls \in SUBSET ({1} \X (2 .. Len(types)))} :
                    types \in {t \in TypeLists : Len(t) = 5}}
      \cup {TableOf(l, types, 5, cut, nulls) :
              l \in {"ROW", "COLUMN"}, cut \in {3, 5},
              types \in {t \in TypeLists : Len(t) = 2},
              nulls \in SUBSET ((1 .. 5) \X {2})}

-----------------------------------------------------------------------------
FileRests ==
    FileInit /\ layout = "ROW" /\ options = CHOOSE o \in IndexOptions : TRUE
CachesRest == Init /\ table_layout = "ROW" /\ BlockInit
FormatRests == FormatInit /\ table = CHOOSE t \in MCTables : TRUE
ComposeRests == ComposeInit /\ given = <<>>

ReadPathInit ==
    \/ part = "file" /\ FileInit /\ CachesRest /\ FormatRests /\ ComposeRests
    \/ /\ part = "metadata"
       /\ FileRests /\ Init /\ BlockInit /\ FormatRests /\ ComposeRests
    \/ part = "blocks" /\ FileRests /\ CachesRest /\ FormatRests /\ ComposeRests
    \/ part = "format" /\ FileRests /\ CachesRest /\ FormatInit /\ ComposeRests
    \/ part = "compose" /\ FileRests /\ CachesRest /\ FormatRests /\ ComposeInit

ReadPathNext ==
    /\ UNCHANGED part
    /\ \/ /\ part = "file" /\ FileNext
          /\ UNCHANGED <<vars, block_vars, format_vars, compose_vars>>
       \/ /\ part = "metadata" /\ Next
          /\ UNCHANGED <<file_vars, block_vars, format_vars, compose_vars>>
       \/ /\ part = "blocks" /\ BlockNext
          /\ UNCHANGED <<file_vars, vars, format_vars, compose_vars>>
       \/ /\ part = "format" /\ FormatNext
          /\ UNCHANGED <<file_vars, vars, block_vars, compose_vars>>
       \/ /\ part = "compose" /\ ComposeNext
          /\ UNCHANGED <<file_vars, vars, block_vars, format_vars>>

ReadPathSpec ==
    ReadPathInit
      /\ [][ReadPathNext]_<<part, file_vars, vars, block_vars, format_vars,
                            compose_vars>>
=============================================================================
