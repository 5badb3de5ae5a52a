---------------------------- MODULE MemoryLayer ----------------------------
(***************************************************************************)
(* The in-memory part of an LSM tree: one active memtable (a std::map from *)
(* key to row) and a deque of frozen memtables, oldest first.              *)
(*                                                                         *)
(* A row is [key, seq].  `key' is the primary key; `seq' stands for the    *)
(* remaining columns and is different for every insert, so that two rows   *)
(* are equal only when they come from the same insert.  A memtable is the  *)
(* set of its rows: the map is ordered by key and holds one row per key,   *)
(* which is exactly what a set with one row per key records.               *)
(***************************************************************************)
EXTENDS Integers, Sequences, FiniteSets

CONSTANTS
    Keys,       \* the primary keys in use
    Threshold   \* StorageConfig::memtable_threshold

ASSUME MemoryAssumption ==
    /\ Keys \subseteq Int
    /\ Threshold \in Nat

Row == [key : Keys, seq : Nat]

(* MemTable::insert: data_[key] = row.                                     *)
MemTableInsert(table, row) == {r \in table : r.key # row.key} \cup {row}

(* MemoryLayer::insert: the active memtable is frozen when it has reached  *)
(* the threshold after the insert.                                         *)
MustFreeze(table) == Cardinality(table) >= Threshold

(* A freeze that clears data_ before it has moved the rows out.            *)
ImmutableAfterClear(table) == {}

(* to_sorted_immutable(): all rows of the map, in key order.               *)
ToSortedImmutable(table) == table

(* A deque filled from the wrong end.                                      *)
PushFront(imms, table) == <<table>> \o imms

(* active_to_immutable(): immutables_.push_back.                           *)
PushBack(imms, table) == Append(imms, table)

(* A flush that forgets to pop, and one that clears the whole deque.       *)
PopNothing(imms) == imms
PopAll(imms) == <<>>

(* pop_front_immutable(): a no-op on an empty deque.                       *)
PopFront(imms) == IF imms = <<>> THEN imms ELSE Tail(imms)

(* The rows of a deque of memtables.                                       *)
DequeRows(imms) == UNION {imms[i] : i \in 1 .. Len(imms)}

(* One row per key: what std::map guarantees and a set does not.           *)
OneRowPerKey(table) == \A r, s \in table : r.key = s.key => r = s
=============================================================================
