-------------------------- MODULE SSTableRegistry --------------------------
(***************************************************************************)
(* SSTableRegistry: the list of live SSTables of a tree, level by level.   *)
(*                                                                         *)
(* levels_ is a vector of vectors.  Here a registry is a set of SSTable    *)
(* infos, each with the field `pos', the number of calls of add() before   *)
(* its own: push_back keeps the vector of a level in the order of the      *)
(* calls, so the tables of a level in increasing order of pos are its      *)
(* vector.  An SSTableInfo keeps id, level, min_key, max_key, size (the    *)
(* file_size_bytes) and layout; path is a function of id, num_blocks       *)
(* belongs to the reader.                                                  *)
(***************************************************************************)
EXTENDS Integers, FiniteSets

Layouts == {"ROW", "COLUMN"}

Info == [id : Nat, level : Nat, pos : Nat, min_key : Int, max_key : Int,
         size : Nat, layout : Layouts]

(* sstables_at_level(level)                                                *)
AtLevel(reg, level) == {i \in reg : i.level = level}

(* The same vector filled from the front.                                  *)
AddInFront(reg, info, call) ==
    {[i EXCEPT !.pos = @ + 1] : i \in reg} \cup {[info EXCEPT !.pos = 0]}

(* add(info): push_back onto the vector of info.level.                     *)
Add(reg, info, call) ==
    reg \cup {[id |-> info.id, level |-> info.level, pos |-> call,
               min_key |-> info.min_key, max_key |-> info.max_key,
               size |-> info.size, layout |-> info.layout]}

(* remove(sst_id): from every level.                                       *)
Remove(reg, id) == {i \in reg : i.id # id}

(* overlapping() with the upper test written max_key >= to.                *)
OverlappingWithin(reg, level, from, to) ==
    {i \in AtLevel(reg, level) : /\ \A f \in from : i.max_key >= f
                                 /\ \A t \in to : i.max_key < t}

(* overlapping(level, from, to): the tables whose key interval meets       *)
(* [from, to).  An optional key is a set of at most one key.               *)
Overlapping(reg, level, from, to) ==
    {i \in AtLevel(reg, level) : /\ \A f \in from : i.max_key >= f
                                 /\ \A t \in to : i.min_key < t}
=============================================================================
