------------------------------ MODULE LRUCache -----------------------------
(***************************************************************************)
(* The least-recently-used cache that SSTableMetadataCache and             *)
(* SSTableBlockCache both implement: a list of keys, most recent first, a  *)
(* map from keys to entries, and the number of bytes cached.               *)
(*                                                                         *)
(* A cache is [lru, pages, bytes]; an entry is [content, bytes].           *)
(***************************************************************************)
EXTENDS Integers, Sequences, FiniteSets

EmptyCache == [lru |-> <<>>, pages |-> [k \in {} |-> {}], bytes |-> 0]

(* A hit that leaves the list as it is.                                    *)
TouchNothing(c, key) == c

(* touch: splice the key to the front; the keys before it move back.       *)
Touch(c, key) ==
    LET at == CHOOSE i \in DOMAIN c.lru : c.lru[i] = key
    IN  [lru |-> [i \in 1 .. Len(c.lru) |-> IF i = 1 THEN key
                                            ELSE IF i <= at THEN c.lru[i - 1]
                                            ELSE c.lru[i]],
         pages |-> c.pages,
         bytes |-> c.bytes]

(* One turn of the eviction loop: the last key leaves, and its entry.      *)
EvictLast(c) ==
    LET victim == c.lru[Len(c.lru)]
    IN  [lru |-> SubSeq(c.lru, 1, Len(c.lru) - 1),
         pages |-> [k \in DOMAIN c.pages \ {victim} |-> c.pages[k]],
         bytes |-> c.bytes - c.pages[victim].bytes]

(* The cache after 0, 1, 2, ... turns.                                     *)
Evicted(c) ==
    LET after[n \in 0 .. Len(c.lru)] ==
          IF n = 0 THEN c ELSE EvictLast(after[n - 1])
    IN  after

(* The condition of the loop without the test of the length: the newest    *)
(* may go too.                                                             *)
EvictsToEmpty(c, max) == c.bytes > max

(* evict_if_needed: keys leave from the back while there are too many      *)
(* bytes, but never the last one.                                          *)
Evicts(c, max) == c.bytes > max /\ Len(c.lru) > 1

(* The loop.                                                               *)
EvictIfNeeded(c, max) ==
    LET turns == CHOOSE n \in 0 .. Len(c.lru) :
                   /\ \/ n = Len(c.lru)
                      \/ ~Evicts(Evicted(c)[n], max)
                   /\ \A m \in 0 .. n - 1 : Evicts(Evicted(c)[m], max)
    IN  Evicted(c)[turns]

(* A new entry at the front.                                               *)
Add(c, key, content, bytes) ==
    [lru |-> <<key>> \o c.lru,
     pages |-> [k \in DOMAIN c.pages \cup {key} |->
                  IF k = key THEN [content |-> content, bytes |-> bytes]
                  ELSE c.pages[k]],
     bytes |-> c.bytes + bytes]

(* A miss after which nothing is evicted.                                  *)
InsertUnbounded(c, key, content, bytes, max) == Add(c, key, content, bytes)

(* A miss: the entry goes to the front, then old ones are evicted.         *)
Insert(c, key, content, bytes, max) ==
    EvictIfNeeded(Add(c, key, content, bytes), max)

(* A lookup: the cache after it.  `content' and `bytes' are what the       *)
(* loader would deliver.                                                   *)
Get(c, key, content, bytes, max) ==
    IF key \in DOMAIN c.pages THEN Touch(c, key)
    ELSE Insert(c, key, content, bytes, max)

-----------------------------------------------------------------------------
(* The bytes of the first 0, 1, 2, ... entries of the list.                *)
Totals(c) ==
    LET total[i \in 0 .. Len(c.lru)] ==
          IF i = 0 THEN 0 ELSE total[i - 1] + c.pages[c.lru[i]].bytes
    IN  total

(* The list and the map have the same keys, each once, cached_bytes_ is    *)
(* the sum of the entries.                                                 *)
Consistent(c) ==
    /\ DOMAIN c.pages = {c.lru[i] : i \in DOMAIN c.lru}
    /\ \A i, j \in DOMAIN c.lru : c.lru[i] = c.lru[j] => i = j
    /\ c.bytes = Totals(c)[Len(c.lru)]

(* Moreover the sum is within the limit unless a single entry is larger.   *)
Accounts(c, max) ==
    /\ Consistent(c)
    /\ c.bytes <= max \/ Len(c.lru) = 1
=============================================================================
