---------------------------- MODULE TreeScanInv ---------------------------
(***************************************************************************)
(* The inductive invariant behind the safety properties of TreeScan, on    *)
(* top of the one of the tree (LSMTreeInv).                                *)
(***************************************************************************)
EXTENDS TreeScan, LSMTreeInv

MapIterators == [gen : Nat, cur : SUBSET Keys, end : SUBSET Keys]
MemCursors == [object : SUBSET Row, left : SUBSET Row]
TableCursors == [id : Nat, left : SUBSET Row]

(* Every variable of the cursor has its type; a tree with an open cursor   *)
(* is open, and a cursor that is closed keeps nothing.                     *)
ScanTypeOK ==
    /\ gen \in Nat
    /\ DOMAIN caches \subseteq Nat
    /\ cursor \in [open : BOOLEAN, from : OptKeys, to : OptKeys,
                   act : SUBSET MapIterators, mems : SUBSET MemCursors,
                   tabs : SUBSET TableCursors, pins : SUBSET SUBSET Row,
                   held : SUBSET Nat]
    /\ snapshot \subseteq Row
    /\ out \subseteq Row
    /\ repeated \in BOOLEAN
    /\ cursor.open => phase = "open"
    /\ ~cursor.open => cursor = NoCursor /\ out = {} /\ snapshot = {}

(* What is cached under an id is what the table of that id holds.  A job   *)
(* that runs writes under an id of which nothing is cached, because ids    *)
(* are not used again in a process and a table is cached only when it is   *)
(* registered.                                                             *)
CacheInv ==
    /\ phase = "closed" => DOMAIN caches = {}
    /\ phase # "closed" => \A id \in DOMAIN caches : id < next_sst_id
    /\ \A t \in Threads : pc[t] \in JobPC => job[t].id \notin DOMAIN caches
    /\ CacheCurrent

(* A cursor co-owns every frozen memtable it reads and has the file of     *)
(* every table open.                                                       *)
PinInv ==
    /\ \A m \in cursor.mems : m.object \in cursor.pins
    /\ \A t \in cursor.tabs : t.id \in cursor.held

(* The active memtable is a finite map.                                    *)
MapInv == IsFiniteSet(active) /\ OneRowPerKey(active)

-----------------------------------------------------------------------------
(* Every row comes from one place.                                         *)

Sources == cursor.mems \cup cursor.tabs
Left == UNION {m.left : m \in Sources}

(* What the sources still have to return has not been returned, no two     *)
(* sources share a row, and none shares one with the active memtable;      *)
(* rows that are inserted from now on are different from all of these.     *)
DisjointInv ==
    /\ \A m, n \in Sources : m # n => m.left \cap n.left = {}
    /\ \A m \in Sources : m.left # {} /\ m.left \cap (out \cup active) = {}
    /\ \A r \in Left \cup out \cup snapshot : r.seq <= inserts

(* a is a pair of iterators into the map of the active memtable.           *)
ValidPair(a) ==
    /\ \E c \in a.cur : a.cur = {c}
    /\ a.end = {} \/ \E e \in a.end : a.end = {e}
    /\ \A k \in a.cur \cup a.end : \E r \in active : r.key = k
    /\ \A c \in a.cur, e \in a.end : c < e

(* The iterators belong to this map or to one that is gone; in this map    *)
(* everything that has been returned is before them.                       *)
IteratorInv ==
    /\ \A a, b \in cursor.act : a = b
    /\ \A a \in cursor.act :
         /\ a.gen <= gen
         /\ a.gen = gen =>
              /\ ValidPair(a)
              /\ \A r \in out \cap active, k \in a.cur : r.key < k

-----------------------------------------------------------------------------
(* No row is missed.                                                       *)

Superseded(r) == \E s \in Visible : s.key = r.key /\ s.seq > r.seq

(* The iterators a have not come to row r of the active memtable.          *)
Ahead(a, r) ==
    /\ r \in active
    /\ \A k \in a.cur : k <= r.key
    /\ \A k \in a.end : r.key < k

(* Every row of the snapshot has been returned, waits in a source, lies    *)
(* ahead of the iterators into the active memtable, or was replaced by a   *)
(* newer one -- unless a freeze has destroyed that map, and then the       *)
(* cursor is never at its end.                                             *)
CompleteInv ==
    \A r \in snapshot :
      \/ r \in out \cup Left
      \/ Superseded(r)
      \/ \E a \in cursor.act : a.gen # gen \/ Ahead(a, r)

ReadInv ==
    /\ DisjointInv
    /\ IteratorInv
    /\ CompleteInv
    /\ ~repeated

ScanInv == ScanTypeOK /\ CacheInv /\ PinInv /\ MapInv /\ ReadInv
=============================================================================
