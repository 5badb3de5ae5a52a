----------------------------- MODULE BlockCache ----------------------------
(***************************************************************************)
(* SSTableBlockCache: the data blocks of all tables of one tree, shared by *)
(* the cursors.  It has no lock of its own; here its cursors are read by   *)
(* one thread.  The hit and miss counters are left out.                    *)
(*                                                                         *)
(* The bytes of a block are named by the block itself; a block is          *)
(* [sst, kind, block, column, size].                                       *)
(***************************************************************************)
EXTENDS LRUCache

CONSTANTS
    DataBlocks,     \* the blocks of all tables
    MaxBlockBytes   \* max_cached_bytes_

(* A block has one id in its table and, in a COLUMN table, its column.     *)
ASSUME BlockCacheAssumption ==
    /\ \A b \in DataBlocks : b.size \in Nat
    /\ \A a, b \in DataBlocks :
         a.sst = b.sst /\ a.kind = b.kind /\ a.block = b.block
           /\ (a.kind = "Row" \/ a.column = b.column) => a = b
    /\ MaxBlockBytes \in Nat \ {0}

VARIABLES
    block_cache,     \* lru_, entries_, cached_bytes_
    block_asked,     \* history: the block of the last call, if any
    block_answer     \* history: the block whose bytes it returned

block_vars == <<block_cache, block_asked, block_answer>>

BlockInit ==
    /\ block_cache = EmptyCache
    /\ block_asked = {}
    /\ block_answer = {}

(* A key without the column.                                               *)
KeyWithoutColumn(b) == <<b.sst, b.kind, b.block, 0>>

(* CacheKey: a ROW block has column 0.                                     *)
CacheKey(b) ==
    <<b.sst, b.kind, b.block, IF b.kind = "Row" THEN 0 ELSE b.column>>

(* read_row_block, read_column_block: read_block with the loader of the    *)
(* SSTableReader.  The bytes returned are a copy of the entry, of which an *)
(* eviction would leave nothing.                                           *)
ReadBlock(b) ==
    LET key == CacheKey(b)
        c == Get(block_cache, key, b, b.size, MaxBlockBytes)
    IN  /\ block_cache' = c
        /\ block_asked' = {b}
        /\ block_answer' = IF key \in DOMAIN c.pages
                             THEN {c.pages[key].content} ELSE {}

BlockNext == \E b \in DataBlocks : ReadBlock(b)

BlockSpec == BlockInit /\ [][BlockNext]_block_vars

-----------------------------------------------------------------------------
(* Properties.                                                             *)

(* A cursor gets the bytes of the block it asked for, cached or not, never *)
(* those of another table, column or block.                                *)
BlockReturned == block_answer = block_asked
=============================================================================
