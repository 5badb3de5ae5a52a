---------------------------- MODULE MetadataCache --------------------------
(***************************************************************************)
(* SSTableMetadataCache: block metadata and block statistics of one table, *)
(* read from its files in pages of PageBlocks blocks.  It is only used     *)
(* with mutex_ held, so a call is one step.                                *)
(*                                                                         *)
(* The metadata of a block is <<block>>, or <<block, column>> for one of   *)
(* the columns of a COLUMN table and for the statistics of a column.       *)
(***************************************************************************)
EXTENDS LRUCache, FiniteSetsExt

CONSTANTS
    NumBlocks,      \* info_.num_blocks
    PageBlocks,     \* page_blocks_
    ColumnsCount,   \* columns_count_
    StatsColumns,   \* the columns the stats file describes
    MaxBytes,       \* max_cached_bytes_
    EntryBytes,     \* the size of one entry of the metadata and stats files
    HistoryLength   \* how many keys the history of uses remembers

ASSUME MetadataAssumption ==
    /\ NumBlocks \in Nat \ {0} /\ PageBlocks \in Nat \ {0}
    /\ ColumnsCount \in Nat \ {0}
    /\ StatsColumns \subseteq 0 .. ColumnsCount - 1
    /\ MaxBytes \in Nat \ {0} /\ EntryBytes \in Nat \ {0}
    /\ HistoryLength \in Nat

VARIABLES
    table_layout, \* info_.layout
    cache,     \* lru_, row_pages_, column_pages_, stats_pages_, cached_bytes_
    uses,      \* history: the pages used, most recent first
    asked,     \* history: the last call, [kind, first, count, column]
    answer     \* history: what it returned

vars == <<table_layout, cache, uses, asked, answer>>

Init ==
    /\ table_layout \in {"ROW", "COLUMN"}
    /\ cache = EmptyCache
    /\ uses = <<>>
    /\ asked = [kind |-> "none", first |-> 0, count |-> 0, column |-> 0]
    /\ answer = <<>>

-----------------------------------------------------------------------------
(* What SSTableReader reads for blocks first .. first + count - 1.         *)
ReadEntries(kind, column, first, count) ==
    CASE kind = "row" -> [i \in 1 .. count |-> <<first + i - 1>>]
      [] kind = "column" ->
           [i \in 1 .. count * ColumnsCount |->
              <<first + (i - 1) \div ColumnsCount, (i - 1) % ColumnsCount>>]
      [] kind = "stats" ->
           IF column \in StatsColumns
             THEN [i \in 1 .. count |-> <<first + i - 1, column>>]
             ELSE <<>>

PageFirstBlock(page) == page * PageBlocks

(* The last page may be shorter.                                           *)
PageBlockCount(page) == Min({PageBlocks, NumBlocks - PageFirstBlock(page)})

(* row_page_bytes, column_page_bytes, stats_page_bytes: a page of a column *)
(* without statistics (nullopt) counts one byte.                           *)
PageBytes(kind, entries) ==
    IF kind = "stats" /\ entries = <<>> THEN 1 ELSE Len(entries) * EntryBytes

(* get_row_page, get_column_page, get_stats_page.                          *)
GetPage(c, kind, column, page) ==
    LET entries == ReadEntries(kind, column, PageFirstBlock(page),
                               PageBlockCount(page))
    IN  Get(c, <<kind, page, column>>, entries, PageBytes(kind, entries),
            MaxBytes)

Width(kind) == IF kind = "column" THEN ColumnsCount ELSE 1

(* The blocks of the call that are on the page.                            *)
Copied(kind, content, page, first, last) ==
    LET start == PageFirstBlock(page)
        from == Max({first, start})
        to == Min({last, start + PageBlockCount(page)})
    IN  SubSeq(content, (from - start) * Width(kind) + 1,
               (to - start) * Width(kind))

(* The page was used last: it is at the front of the list of uses, of      *)
(* which HistoryLength pages are remembered.                               *)
UseNow(list, key) ==
    LET at == IF \E i \in DOMAIN list : list[i] = key
                THEN CHOOSE i \in DOMAIN list : list[i] = key
                ELSE Len(list) + 1
    IN  [i \in 1 .. Min({HistoryLength, Max({at, Len(list)})}) |->
           IF i = 1 THEN key ELSE IF i <= at THEN list[i - 1] ELSE list[i]]

(* A column without statistics.                                            *)
Absent(kind, column) == kind = "stats" /\ column \notin StatsColumns

(* One turn of the loop over the pages.  A reference to a page that is no  *)
(* longer in the cache would deliver none of its entries.                  *)
ReadPage(kind, column, first, last, page, so_far) ==
    LET key == <<kind, page, column>>
        c == GetPage(so_far.cache, kind, column, page)
        copied == IF key \in DOMAIN c.pages
                    THEN Copied(kind, c.pages[key].content, page, first, last)
                    ELSE <<>>
    IN  [cache |-> c,
         uses |-> UseNow(so_far.uses, key),
         out |-> IF Absent(kind, column) THEN <<>> ELSE so_far.out \o copied]

(* The pages that hold the blocks before `last', from the one of `first';  *)
(* the loop ends at the first page of a column without statistics.         *)
PagesRead(kind, column, first, last) ==
    IF Absent(kind, column) THEN 1
    ELSE (last - 1) \div PageBlocks - first \div PageBlocks + 1

(* The loop, after 0, 1, 2, ... pages.                                     *)
Reading(kind, column, first, last) ==
    LET after[n \in 0 .. PagesRead(kind, column, first, last)] ==
          IF n = 0 THEN [cache |-> cache, uses |-> uses, out |-> <<>>]
          ELSE ReadPage(kind, column, first, last,
                        first \div PageBlocks + n - 1, after[n - 1])
    IN  after

Call(kind, column, first, count) ==
    /\ first + count <= NumBlocks
    /\ LET read == Reading(kind, column, first, first + count)
                     [PagesRead(kind, column, first, first + count)]
       IN  /\ cache' = read.cache
           /\ answer' = read.out
           /\ uses' = read.uses
    /\ asked' = [kind |-> kind, first |-> first, count |-> count,
                 column |-> column]
    /\ UNCHANGED table_layout

(* read_row_metadata_range, of a ROW table; read_column_metadata_range, of *)
(* a COLUMN table.                                                         *)
ReadMetadataRange(first, count) ==
    Call(IF table_layout = "ROW" THEN "row" ELSE "column", 0, first, count)

(* read_numeric_stats_range, for one of its columns.                       *)
ReadNumericStats(column, first, count) == Call("stats", column, first, count)

Next ==
    \E first \in 0 .. NumBlocks - 1, count \in 1 .. NumBlocks :
      \/ ReadMetadataRange(first, count)
      \/ \E column \in 0 .. ColumnsCount - 1 :
           ReadNumericStats(column, first, count)

Spec == Init /\ [][Next]_vars

-----------------------------------------------------------------------------
(* Properties.                                                             *)

(* Whatever is cached, and however the pages cut the range, a call returns *)
(* exactly the entries of the blocks asked for, in order.                  *)
ReadExact ==
    asked.kind # "none" =>
      answer = ReadEntries(asked.kind, asked.column, asked.first, asked.count)

(* cached_bytes_, lru_ and the three maps agree after every call, and the  *)
(* budget holds.                                                           *)
CacheAccounts == Accounts(cache, MaxBytes)

(* The pages kept are the ones used last: lru_ is the beginning of the     *)
(* list of all pages by their last use.                                    *)
KeepsRecent ==
    \A i \in DOMAIN cache.lru :
      i <= HistoryLength => i \in DOMAIN uses /\ uses[i] = cache.lru[i]
=============================================================================
