------------------------------ MODULE TreeScan -----------------------------
(***************************************************************************)
(* A cursor of LSMTree::scan while the tree goes on working.  scan() holds *)
(* mutex_ only until the cursor is built; the cursor is then read with no  *)
(* lock, while other threads insert and the drain loop pops memtables and  *)
(* deletes the directories of compacted tables.                            *)
(*                                                                         *)
(* The cursor holds two iterators into the map of the active memtable, two *)
(* into the vector of every frozen memtable, and an open data file of      *)
(* every table.  `gen' tells one active map from the next: a freeze clears *)
(* and destroys the map.  A file that is open stays readable when its      *)
(* directory is removed (POSIX).                                           *)
(*                                                                         *)
(* The order in which the sources are read is left open: ComposedCursor    *)
(* has the orders of the code.                                             *)
(***************************************************************************)
EXTENDS LSMTree

VARIABLES
    gen,       \* the number of active memtables before this one
    caches,    \* sstable_metadata_caches_: id -> rows of the table cached
    cursor,    \* the cursor, or NoCursor
    snapshot,  \* history: the rows in range when scan() was called
    out,       \* history: the rows returned since
    repeated   \* history: has one been returned twice?

scanVars == <<gen, caches, cursor, snapshot, out, repeated>>
allVars == <<vars, scanVars>>

(* act: at most one pair of map iterators, current_ and end_ ({} is the    *)
(* end() of the map); mems and tabs: what is left of each frozen memtable  *)
(* and of each table; pins: the memtables co-owned; held: open data files. *)
NoCursor == [open |-> FALSE, from |-> {}, to |-> {}, act |-> {}, mems |-> {},
             tabs |-> {}, pins |-> {}, held |-> {}]

(* active.lower_bound of the bound, or active.begin() without one.         *)
LowerBound(bound) ==
    LET above == {r.key : r \in {s \in active : \A k \in bound : s.key >= k}}
    IN  {k \in above : \A l \in above : k <= l}

(* active_begin and active_end; no cursor when they are equal.             *)
ActiveIterators(from, to) ==
    LET first == LowerBound(from)
        last == IF to = {} THEN {} ELSE LowerBound(to)
    IN  IF first = last THEN {}
        ELSE {[gen |-> gen, cur |-> first, end |-> last]}

(* A cursor that is not wrapped in a PinnedCursor.                         *)
PinsNothing(mems) == {}

(* pins: every frozen memtable that has a row in the range.                *)
PinsOf(mems) == {m.object : m \in mems}

(* A reader that opens data.bin again for every block.                     *)
HoldsNothing(tabs) == {}

(* SSTableReader opens data.bin when it is constructed.                    *)
HeldBy(tabs) == {t.id : t \in tabs}

(* get_or_create_metadata_cache of every overlapping table.                *)
CachesWith(tables) ==
    [id \in DOMAIN caches \cup {i.id : i \in tables} |->
       IF id \in DOMAIN caches THEN caches[id] ELSE disk[id]]

(* The cursors of all sources, built from the tree as it is now.           *)
BuildCursor(from, to) ==
    /\ LET tables == UNION {Overlapping(registry, level, from, to) :
                              level \in {i.level : i \in registry}}
           mems == {[object |-> m, left |-> InRange(m, from, to)] :
                      m \in {immutables[i] : i \in 1 .. Len(immutables)}}
           tabs == {[id |-> i.id, left |-> InRange(RowsOf(i), from, to)] :
                      i \in tables}
           used == {m \in mems : m.left # {}}
           read == {t \in tabs : t.left # {}}
       IN  /\ cursor' = [open |-> TRUE, from |-> from, to |-> to,
                         act |-> ActiveIterators(from, to), mems |-> used,
                         tabs |-> read, pins |-> PinsOf(used),
                         held |-> HeldBy(read)]
           /\ caches' = CachesWith(tables)
    /\ snapshot' = InRange(Visible, from, to)
    /\ out' = {} /\ repeated' = FALSE
    /\ UNCHANGED <<vars, gen>>

(* A scan() without its lock_guard.                                        *)
OpenScanUnlocked(from, to) ==
    /\ phase = "open"
    /\ ~cursor.open
    /\ BuildCursor(from, to)

(* scan(range)                                                             *)
OpenScan(from, to) ==
    /\ phase = "open"
    /\ ~cursor.open
    /\ mutex = {}
    /\ BuildCursor(from, to)

-----------------------------------------------------------------------------
(* Reading.  A source that is no longer backed cannot be read: what the    *)
(* code does then is undefined, and the properties speak of it.            *)

ActiveBacked(a) == a.gen = gen
MemBacked(m) ==
    m.object \in cursor.pins \cup {immutables[i] : i \in 1 .. Len(immutables)}
TableBacked(t) == t.id \in cursor.held \cup DOMAIN disk

Return(row) ==
    /\ out' = out \cup {row}
    /\ repeated' = (repeated \/ row \in out)

IsFirst(row, rows) == \A r \in rows : row.key <= r.key

(* An iterator that is not advanced.                                       *)
KeyNotBefore(row) == {row.key}

(* ++current_: the next key in the map as it is by now.                    *)
KeyAfter(row) ==
    LET later == {r \in active : r.key > row.key}
    IN  {r.key : r \in {s \in later : IsFirst(s, later)}}

Advanced(a, row) ==
    IF KeyAfter(row) = a.end
      THEN {} ELSE {[gen |-> a.gen, cur |-> KeyAfter(row), end |-> a.end]}

(* ActiveMemTableCursor: the row at current_, then ++current_.             *)
ReadActive ==
    /\ \E a \in cursor.act :
         /\ ActiveBacked(a)
         /\ \E row \in {r \in active : r.key \in a.cur} :
              /\ Return(row)
              /\ cursor' = [cursor EXCEPT !.act = Advanced(a, row)]
    /\ UNCHANGED <<vars, gen, caches, snapshot>>

(* The sources without the row just read; one without rows is at its end.  *)
WithoutRow(sources, m, row) ==
    (sources \ {m}) \cup {n \in {[m EXCEPT !.left = @ \ {row}]} : n.left # {}}

(* ImmutableMemTableCursor: the next row of the vector.                    *)
ReadMem ==
    /\ \E m \in cursor.mems : \E row \in m.left :
         /\ MemBacked(m)
         /\ IsFirst(row, m.left)
         /\ Return(row)
         /\ cursor' = [cursor EXCEPT !.mems = WithoutRow(@, m, row)]
    /\ UNCHANGED <<vars, gen, caches, snapshot>>

(* SSTableRowCursor, SSTableColumnCursor: the next row of the table.       *)
ReadTable ==
    /\ \E t \in cursor.tabs : \E row \in t.left :
         /\ TableBacked(t)
         /\ IsFirst(row, t.left)
         /\ Return(row)
         /\ cursor' = [cursor EXCEPT !.tabs = WithoutRow(@, t, row)]
    /\ UNCHANGED <<vars, gen, caches, snapshot>>

(* The cursor is destroyed, at the end or before.                          *)
CloseScan ==
    /\ cursor.open
    /\ cursor' = NoCursor
    /\ snapshot' = {}
    /\ out' = {} /\ repeated' = FALSE
    /\ UNCHANGED <<vars, gen, caches>>

-----------------------------------------------------------------------------
ScanInit ==
    /\ Init
    /\ gen = 0
    /\ caches = [id \in {} |-> {}]
    /\ cursor = NoCursor
    /\ snapshot = {}
    /\ out = {} /\ repeated = FALSE

(* A step of the tree.  The owner closes no tree that is being read; the   *)
(* end of the process ends the cursor and the caches.                      *)
TreeStep ==
    /\ Next
    /\ cursor.open => phase' # "closing"
    /\ IF phase' = "closed"
         THEN /\ gen' = 0 /\ caches' = [id \in {} |-> {}]
              /\ cursor' = NoCursor /\ snapshot' = {}
              /\ out' = {} /\ repeated' = FALSE
         ELSE /\ gen' = IF Len(immutables') > Len(immutables)
                          THEN gen + 1 ELSE gen
              /\ UNCHANGED <<caches, cursor, snapshot, out, repeated>>

(* lower_bound(to) is before lower_bound(from) when to < from; the         *)
(* executor answers such a query without a scan.                           *)
Ranges == {r \in OptKeys \X OptKeys : \A a \in r[1], b \in r[2] : a < b}

ScanNext ==
    \/ TreeStep
    \/ \E r \in Ranges : OpenScan(r[1], r[2])
    \/ ReadActive
    \/ ReadMem
    \/ ReadTable
    \/ CloseScan

ScanSpec == ScanInit /\ [][ScanNext]_allVars

-----------------------------------------------------------------------------
(* Properties.                                                             *)

Exhausted == cursor.act = {} /\ cursor.mems = {} /\ cursor.tabs = {}

(* The frozen memtables and the tables of a cursor outlive it, although    *)
(* the worker pops the former and deletes the latter while it is read.     *)
PinnedBacked ==
    /\ \A m \in cursor.mems : MemBacked(m)
    /\ \A t \in cursor.tabs : TableBacked(t)

(* The comment of PinnedCursor: the data outlives the cursor.  The same    *)
(* for the active memtable.                                                *)
CursorBacked == PinnedBacked /\ \A a \in cursor.act : ActiveBacked(a)

(* No row is returned twice, and a row is never lost between two sources:  *)
(* what was in range when scan() was called is returned, whatever flushes  *)
(* and compactions do meanwhile, unless a newer row has replaced it in the *)
(* active memtable.                                                        *)
ScanComplete ==
    cursor.open =>
      /\ ~repeated
      /\ Exhausted =>
           \A r \in snapshot \ out :
             \E s \in Visible : s.key = r.key /\ s.seq > r.seq

(* "[from, to)" (storage_engine_interface.hpp): the rows returned are in   *)
(* the range.                                                              *)
ScanInRange == cursor.open => out = InRange(out, cursor.from, cursor.to)

(* A cached sparse index or metadata page belongs to the table that is     *)
(* registered under its id now.                                            *)
CacheCurrent ==
    \A i \in registry : i.id \in DOMAIN caches => caches[i.id] = disk[i.id]
=============================================================================
