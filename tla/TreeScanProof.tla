--------------------------- MODULE TreeScanProof --------------------------
(***************************************************************************)
(* Proofs about TreeScan: a cursor that is read while the tree goes on     *)
(* keeps what it reads, returns no row twice and loses none, and cached    *)
(* metadata is never that of another table.  For every set of clients and  *)
(* keys, every configuration and every number of inserts and faults.       *)
(***************************************************************************)
EXTENDS TreeScanInv, LSMTreeProof, LeastElement

-----------------------------------------------------------------------------
(* Steps of the tree, as a cursor sees them.                               *)

LEMMA ScanStepIsStep ==
    [ScanNext]_allVars => [Next]_vars
  BY DEF ScanNext, TreeStep, OpenScan, BuildCursor, ReadActive, ReadMem,
         ReadTable, CloseScan, allVars

(* A step of the process leaves the rows that are seen as they are unless  *)
(* it is an insert, and adds no frozen memtable.                           *)
LEMMA SilentStep ==
    ASSUME SingleDrainer, ~CrashInWindow, TreeInv, [Next]_vars,
           phase' # "closed",
           \A c \in Clients, k \in Keys : ~Insert(c, k)
    PROVE  /\ active' = active /\ inserts' = inserts /\ Visible' = Visible
           /\ ~(Len(immutables') > Len(immutables))
  <1> USE DEF TreeInv
  <1>0. immutables \in Seq((SUBSET Row) \ {{}})
    BY DEF TypeOK
  <1>1. ASSUME NEW t \in Threads,
               \/ BeginFlush(t) \/ BeginCompact(t) \/ WriteFlush(t)
               \/ WriteCompaction(t) \/ WriteThrows(t) \/ SaveFails(t)
               \/ CommitCompaction(t) \/ RemoveOld(t) \/ SaveManifest(t)
        PROVE  /\ active' = active /\ inserts' = inserts /\ Visible' = Visible
               /\ immutables' = immutables
    <2>1. Visible' = Visible
      BY <1>1, BeginData, WriteData, WriteThrowsData, SaveFailsData,
         CommitCompactionData, RemoveOldData, SaveManifestData
    <2>2. QED
      BY <1>1, <2>1 DEF BeginFlush, BeginCompact, WriteFlush, WriteCompaction,
                  WriteThrows, SaveFails, CommitCompaction,
                  RemoveOld, SaveManifest, memory, counters
  <1>2. ASSUME NEW t \in Threads, CommitFlush(t)
        PROVE  /\ active' = active /\ inserts' = inserts /\ Visible' = Visible
               /\ ~(Len(immutables') > Len(immutables))
    <2>1. Visible' = Visible
      BY <1>2, CommitFlushData
    <2>2. immutables' = PopFront(immutables)
      BY <1>2 DEF CommitFlush
    <2>3. ~(Len(immutables') > Len(immutables))
      BY <1>0, <2>2, HeadTailProperties, LenProperties DEF PopFront
    <2>4. QED BY <1>2, <2>1, <2>3 DEF CommitFlush
  <1>3. CASE Open
    BY <1>3, OpenData DEF Open, memory, counters
  <1>4. CASE \/ \E c \in Clients : \/ WaitForCompaction(c) \/ WaitCheck(c)
                                   \/ SpuriousWakeup(c) \/ BeginClose(c)
             \/ \E t \in Threads : EndDrain(t)
             \/ WorkerWakes \/ WorkerExits \/ SetStop
    <2>1. Visible' = Visible
      BY <1>4, ThreadActions, ThreadStep
    <2>2. QED BY <1>4, <2>1, ThreadActions DEF memory, counters
  <1>5. CASE UNCHANGED vars
    BY <1>5 DEF vars, memory, catalog, files, counters, Visible, TablesRows,
                RowsOf, DequeRows
  <1>6. ~(Len(immutables) > Len(immutables))
    BY <1>0, LenProperties
  <1>7. ~(EndClose \/ Crash)
    BY DEF EndClose, Crash, LoseMemory
  <1>8. QED
    BY <1>1, <1>2, <1>3, <1>4, <1>5, <1>6, <1>7
       DEF Next, ClientStep, DrainStep

(* What an insert does to the active memtable and to the rows seen.        *)
LEMMA InsertStep ==
    ASSUME TreeInv, NEW c \in Clients, NEW k \in Keys, Insert(c, k)
    PROVE  \E row \in Row :
             /\ row.key = k /\ row.seq = inserts + 1
             /\ inserts' = inserts + 1 /\ inserts \in Nat
             /\ Visible' = (Visible \ {r \in active : r.key = k}) \cup {row}
             /\ \/ /\ active' = (active \ {r \in active : r.key = k}) \cup {row}
                   /\ ~(Len(immutables') > Len(immutables))
                \/ /\ active' = {}
                   /\ Len(immutables') > Len(immutables)
  <1> DEFINE row == [key |-> k, seq |-> inserts + 1]
             old == {r \in active : r.key = k}
             table == MemTableInsert(active, row)
  <1>0. /\ phase = "open" /\ phase' = "open" /\ inserts \in Nat
        /\ inserts' = inserts + 1
        /\ UNCHANGED <<disk, registry>>
        /\ active \in SUBSET Row
        /\ immutables \in Seq((SUBSET Row) \ {{}})
    BY TreeAssumption DEF Insert, TreeInv, TypeOK, catalog, files
  <1>1. row \in Row /\ row.seq = inserts + 1 /\ row.key = k
    BY <1>0 DEF Row
  <1>3. table = (active \ old) \cup {row} /\ table \in (SUBSET Row) \ {{}}
    BY <1>0, <1>1 DEF MemTableInsert
  <1>4. \/ active' = table /\ immutables' = immutables
        \/ active' = {} /\ immutables' = PushBack(immutables, table)
    BY DEF Insert, ToSortedImmutable
  <1>5. old \subseteq active
    OBVIOUS
  <1> HIDE DEF table, row, old
  <1>6. /\ DequeRows(PushBack(immutables, table))
             = DequeRows(immutables) \cup table
        /\ Len(PushBack(immutables, table)) > Len(immutables)
        /\ ~(Len(immutables) > Len(immutables))
    BY <1>0, <1>3, PushBackRows, AppendProperties, LenProperties DEF PushBack
  <1>7. active' \cup DequeRows(immutables') = table \cup DequeRows(immutables)
    BY <1>4, <1>6
  <1>8. /\ Visible = active \cup DequeRows(immutables) \cup TablesRows(registry)
        /\ Visible' = active' \cup DequeRows(immutables')
                        \cup TablesRows(registry)
    BY <1>0 DEF Visible, TablesRows, RowsOf
  <1>9. /\ old \cap DequeRows(immutables) = {}
        /\ old \cap TablesRows(registry) = {}
    BY <1>5 DEF TreeInv, DataInv, PartitionInv
  <1>10. Visible' = (Visible \ old) \cup {row}
    BY <1>3, <1>7, <1>8, <1>9
  <1>11. QED BY <1>0, <1>1, <1>3, <1>4, <1>6, <1>10 DEF old

-----------------------------------------------------------------------------
(* The types of the variables of the scan.                                 *)

LEMMA VisibleTyped ==
    ASSUME TypeOK
    PROVE  Visible \subseteq Row /\ DequeRows(immutables) \subseteq Row
  <1>1. DequeRows(immutables) \subseteq Row
    BY DEF TypeOK, DequeRows
  <1>2. QED BY <1>1, TableRowsTyped DEF Visible, TypeOK

(* An open tree is left only by a close or a crash.                        *)
LEMMA PhaseStep ==
    ASSUME [Next]_vars, phase = "open"
    PROVE  phase' \in {"open", "closing", "closed"}
  <1>1. ASSUME NEW c \in Clients, ClientStep(c)
        PROVE  phase' \in {"open", "closing"}
    BY <1>1 DEF ClientStep, Insert, WaitForCompaction, WaitCheck,
                SpuriousWakeup, BeginClose
  <1>2. ASSUME NEW t \in Threads, DrainStep(t) \/ WriteThrows(t) \/ SaveFails(t)
        PROVE  phase' = "open"
    BY <1>2 DEF DrainStep, BeginFlush, WriteFlush, CommitFlush, BeginCompact,
                WriteCompaction, CommitCompaction, RemoveOld, SaveManifest,
                EndDrain, WriteThrows, SaveFails
  <1>3. CASE WorkerWakes \/ WorkerExits \/ SetStop \/ EndClose \/ Crash \/ Open
    BY <1>3 DEF WorkerWakes, WorkerExits, SetStop, EndClose, Crash, Open,
                LoseMemory
  <1>4. CASE UNCHANGED vars
    BY <1>4 DEF vars
  <1>5. QED BY <1>1, <1>2, <1>3, <1>4 DEF Next

LEMMA NoCursorTyped ==
    /\ NoCursor \in [open : BOOLEAN, from : OptKeys, to : OptKeys,
                    act : SUBSET MapIterators, mems : SUBSET MemCursors,
                    tabs : SUBSET TableCursors, pins : SUBSET SUBSET Row,
                    held : SUBSET Nat]
    /\ NoCursor.open = FALSE
  BY DEF NoCursor, OptKeys

(* What is left of a source after a row is still such a source.            *)
LEMMA WithoutRowTyped ==
    /\ \A S \in SUBSET MemCursors : \A m \in S, row \in Row :
         WithoutRow(S, m, row) \in SUBSET MemCursors
    /\ \A S \in SUBSET TableCursors : \A m \in S, row \in Row :
         WithoutRow(S, m, row) \in SUBSET TableCursors
  <1>1. \A m \in MemCursors, row \in Row :
          [m EXCEPT !.left = @ \ {row}] \in MemCursors
    BY DEF MemCursors
  <1>2. \A m \in TableCursors, row \in Row :
          [m EXCEPT !.left = @ \ {row}] \in TableCursors
    BY DEF TableCursors
  <1>3. QED BY <1>1, <1>2 DEF WithoutRow

LEMMA InitScanType == ScanInit => ScanTypeOK
  <1> SUFFICES ASSUME ScanInit PROVE ScanTypeOK
    OBVIOUS
  <1>1. /\ gen = 0 /\ DOMAIN caches = {}
        /\ cursor = NoCursor /\ snapshot = {}
        /\ out = {} /\ repeated = FALSE
    BY DEF ScanInit
  <1>2. QED BY <1>1, NoCursorTyped DEF ScanTypeOK, NoCursor

(* A cursor that scan() returns.                                           *)
LEMMA BuiltCursorTyped ==
    ASSUME TypeOK, ScanTypeOK, phase = "open",
           NEW from \in OptKeys, NEW to \in OptKeys, BuildCursor(from, to)
    PROVE  ScanTypeOK'
  <1> DEFINE tables == UNION {Overlapping(registry, level, from, to) :
                                level \in {i.level : i \in registry}}
             frozen == {immutables[i] : i \in 1 .. Len(immutables)}
             mems == {[object |-> m, left |-> InRange(m, from, to)] :
                        m \in frozen}
             tabs == {[id |-> i.id, left |-> InRange(RowsOf(i), from, to)] :
                        i \in tables}
             used == {m \in mems : m.left # {}}
             read == {t \in tabs : t.left # {}}
  <1>1. /\ tables \subseteq registry /\ registry \subseteq Info
        /\ frozen \subseteq SUBSET Row
    BY DEF Overlapping, AtLevel, TypeOK
  <1>2. /\ cursor' = [open |-> TRUE, from |-> from, to |-> to,
                      act |-> ActiveIterators(from, to), mems |-> used,
                      tabs |-> read, pins |-> PinsOf(used),
                      held |-> HeldBy(read)]
        /\ caches' = CachesWith(tables)
        /\ snapshot' = InRange(Visible, from, to)
        /\ out' = {} /\ repeated' = FALSE /\ gen' = gen /\ phase' = phase
    BY DEF BuildCursor, vars
  <1>3. mems \subseteq MemCursors
    BY <1>1 DEF MemCursors, InRange
  <1>4. tabs \subseteq TableCursors
    <2>1. \A i \in tables : i.id \in Nat /\ RowsOf(i) \subseteq Row
      BY <1>1, TableRowsTyped DEF Info
    <2>2. \A i \in tables : InRange(RowsOf(i), from, to) \subseteq Row
      BY <2>1 DEF InRange
    <2>3. QED BY <2>1, <2>2 DEF TableCursors
  <1>5. ActiveIterators(from, to) \subseteq MapIterators
    <2>1. \A bound : LowerBound(bound) \subseteq Keys
      BY DEF LowerBound, TypeOK, Row
    <2>2. QED BY <2>1 DEF ActiveIterators, MapIterators, ScanTypeOK
  <1>6. PinsOf(used) \subseteq SUBSET Row
    BY <1>3 DEF PinsOf, MemCursors
  <1>7. HeldBy(read) \subseteq Nat
    BY <1>4 DEF HeldBy, TableCursors
  <1>8. snapshot' \subseteq Row
    BY <1>2, VisibleTyped DEF InRange
  <1>9. DOMAIN caches' \subseteq Nat
    BY <1>1, <1>2 DEF CachesWith, ScanTypeOK, Info
  <1> HIDE DEF tables, mems, tabs, used, read, frozen
  <1>10. used \subseteq MemCursors /\ read \subseteq TableCursors
    BY <1>3, <1>4 DEF used, read
  <1>11. QED
    BY <1>2, <1>5, <1>6, <1>7, <1>8, <1>9, <1>10 DEF ScanTypeOK

LEMMA NextScanType ==
    ASSUME TypeOK, ScanTypeOK, [ScanNext]_allVars
    PROVE  ScanTypeOK'
  <1>1. CASE TreeStep
    <2>1. CASE phase' = "closed"
      <3>1. /\ gen' = 0 /\ DOMAIN caches' = {}
            /\ cursor' = NoCursor /\ snapshot' = {}
            /\ out' = {} /\ repeated' = FALSE
        BY <1>1, <2>1 DEF TreeStep
      <3>2. QED BY <3>1, NoCursorTyped DEF ScanTypeOK, NoCursor
    <2>2. CASE phase' # "closed"
      <3>1. /\ gen' \in Nat
            /\ UNCHANGED <<caches, cursor, snapshot, out, repeated>>
        BY <1>1, <2>2 DEF TreeStep, ScanTypeOK
      <3>2. cursor.open => phase' = "open"
        BY <1>1, <2>2, PhaseStep DEF TreeStep, ScanTypeOK
      <3>3. QED BY <3>1, <3>2 DEF ScanTypeOK
    <2>3. QED BY <2>1, <2>2
  <1>2. ASSUME NEW r \in Ranges, OpenScan(r[1], r[2]) PROVE ScanTypeOK'
    BY <1>2, BuiltCursorTyped DEF OpenScan, Ranges
  <1>3. CASE ReadActive
    <2>1. PICK a \in cursor.act : \E row \in {r \in active : r.key \in a.cur} :
            Return(row) /\ cursor' = [cursor EXCEPT !.act = Advanced(a, row)]
      BY <1>3 DEF ReadActive
    <2>2. PICK row \in active :
            Return(row) /\ cursor' = [cursor EXCEPT !.act = Advanced(a, row)]
      BY <2>1
    <2>3. Advanced(a, row) \subseteq MapIterators
      <3>1. KeyAfter(row) \subseteq Keys
        <4>1. active \subseteq Row /\ \A r \in Row : r.key \in Keys
          BY DEF TypeOK, Row
        <4>2. QED BY <4>1 DEF KeyAfter
      <3>2. a \in MapIterators
        BY DEF ScanTypeOK
      <3>3. QED BY <3>1, <3>2 DEF Advanced, MapIterators
    <2>4. UNCHANGED <<phase, gen, caches, snapshot>> /\ row \in Row
      BY <1>3 DEF ReadActive, vars, TypeOK
    <2>5. cursor.open
      BY <2>1 DEF ScanTypeOK, NoCursor
    <2>6. QED BY <2>2, <2>3, <2>4, <2>5 DEF ScanTypeOK, Return
  <1>4. CASE ReadMem
    <2>1. PICK m, row :
            /\ m \in cursor.mems /\ row \in m.left
            /\ Return(row)
            /\ cursor' = [cursor EXCEPT !.mems = WithoutRow(@, m, row)]
      BY <1>4 DEF ReadMem
    <2>2. row \in Row
      BY <2>1 DEF ScanTypeOK, MemCursors
    <2>3. WithoutRow(cursor.mems, m, row) \subseteq MemCursors
      BY <2>1, <2>2, WithoutRowTyped DEF ScanTypeOK
    <2>4. UNCHANGED <<phase, gen, caches, snapshot>>
      BY <1>4 DEF ReadMem, vars
    <2>5. cursor.open
      BY <2>1 DEF ScanTypeOK, NoCursor
    <2>6. QED BY <2>1, <2>2, <2>3, <2>4, <2>5 DEF ScanTypeOK, Return
  <1>5. CASE ReadTable
    <2>1. PICK m, row :
            /\ m \in cursor.tabs /\ row \in m.left
            /\ Return(row)
            /\ cursor' = [cursor EXCEPT !.tabs = WithoutRow(@, m, row)]
      BY <1>5 DEF ReadTable
    <2>2. row \in Row
      BY <2>1 DEF ScanTypeOK, TableCursors
    <2>3. WithoutRow(cursor.tabs, m, row) \subseteq TableCursors
      BY <2>1, <2>2, WithoutRowTyped DEF ScanTypeOK
    <2>4. UNCHANGED <<phase, gen, caches, snapshot>>
      BY <1>5 DEF ReadTable, vars
    <2>5. cursor.open
      BY <2>1 DEF ScanTypeOK, NoCursor
    <2>6. QED BY <2>1, <2>2, <2>3, <2>4, <2>5 DEF ScanTypeOK, Return
  <1>6. CASE CloseScan
    BY <1>6, NoCursorTyped DEF CloseScan, ScanTypeOK, vars
  <1>7. CASE UNCHANGED allVars
    BY <1>7 DEF allVars, vars, scanVars, ScanTypeOK
  <1>8. QED
    BY <1>1, <1>2, <1>3, <1>4, <1>5, <1>6, <1>7 DEF ScanNext

-----------------------------------------------------------------------------
(* The caches: an id never comes to stand for another table while          *)
(* something is cached under it.                                           *)

LEMMA InitCache == ScanInit => CacheInv
  <1> SUFFICES ASSUME ScanInit PROVE CacheInv
    OBVIOUS
  <1>1. DOMAIN caches = {}
    BY DEF ScanInit
  <1>2. QED BY <1>1 DEF CacheInv, CacheCurrent

(* A step that starts no job and changes no table that is cached.          *)
LEMMA CacheFrame ==
    ASSUME CacheInv, caches' = caches, phase # "closed", phase' # "closed",
           next_sst_id' = next_sst_id,
           \A t \in Threads : pc'[t] \in JobPC =>
             pc[t] \in JobPC /\ job'[t].id = job[t].id,
           \A i \in registry' :
             \/ i \in registry /\ disk'[i.id] = disk[i.id]
             \/ i.id \notin DOMAIN caches
    PROVE  CacheInv'
  <1>1. CacheCurrent'
    BY DEF CacheInv, CacheCurrent
  <1>2. QED BY <1>1 DEF CacheInv

LEMMA BeginCache ==
    ASSUME TreeInv, ScanTypeOK, CacheInv, caches' = caches,
           NEW t \in Threads, BeginFlush(t) \/ BeginCompact(t)
    PROVE  CacheInv'
  <1>1. /\ pc[t] = "draining" /\ pc \in [Threads -> PC]
        /\ job \in [Threads -> Job]
        /\ next_sst_id' = next_sst_id + 1 /\ next_sst_id \in Nat
        /\ disk' = [id \in DOMAIN disk \cup {next_sst_id} |->
                      IF id = next_sst_id THEN {} ELSE disk[id]]
        /\ registry' = registry /\ phase' = phase
    BY DEF BeginFlush, BeginCompact, TreeInv, TypeOK
  <1>2. phase # "closed"
    BY <1>1 DEF TreeInv, ControlInv
  <1>3. /\ job'[t].id = next_sst_id
        /\ \A u \in Threads : u # t => pc'[u] = pc[u] /\ job'[u] = job[u]
    BY <1>1 DEF BeginFlush, BeginCompact, NewJob, Goto
  <1>4. \A id \in DOMAIN caches : id \in Nat /\ id < next_sst_id
    BY <1>2 DEF CacheInv, ScanTypeOK
  <1>5. next_sst_id \notin DOMAIN caches
    BY <1>1, <1>4
  <1>6. \A i \in registry : i.id \in Nat /\ i.id < next_sst_id
                            /\ i.id \in DOMAIN disk
    BY DEF TreeInv, TypeOK, Info, DataInv, IdInv, DiskInv, RegisteredOnDisk
  <1>7. \A i \in registry : disk'[i.id] = disk[i.id]
    BY <1>1, <1>6
  <1>8. CacheCurrent'
    BY <1>1, <1>7 DEF CacheInv, CacheCurrent
  <1>9. \A id \in DOMAIN caches' : id < next_sst_id'
    BY <1>1, <1>4
  <1>10. \A u \in Threads : pc'[u] \in JobPC => job'[u].id \notin DOMAIN caches'
    BY <1>3, <1>5 DEF CacheInv
  <1>11. QED BY <1>1, <1>2, <1>8, <1>9, <1>10 DEF CacheInv

LEMMA TreeStepCache ==
    ASSUME SingleDrainer, TreeInv, ScanTypeOK, CacheInv, Next,
           caches' = caches, phase' # "closed"
    PROVE  CacheInv'
  <1>0. /\ pc \in [Threads -> PC] /\ job \in [Threads -> Job]
        /\ Clients \subseteq Threads
    BY DEF TreeInv, TypeOK, Threads
  <1>1. ASSUME NEW t \in Threads, BeginFlush(t) \/ BeginCompact(t)
        PROVE  CacheInv'
    BY <1>1, BeginCache
  <1>2. ASSUME NEW t \in Threads, WriteFlush(t) \/ WriteCompaction(t)
        PROVE  CacheInv'
    <2>1. /\ pc[t] \in JobPC /\ phase' = phase
          /\ disk' = [disk EXCEPT ![job[t].id] = SourceRows(t)]
          /\ job'[t].id = job[t].id
          /\ \A u \in Threads : u # t => pc'[u] = pc[u] /\ job'[u] = job[u]
          /\ registry' = registry /\ next_sst_id' = next_sst_id
      BY <1>0, <1>2 DEF WriteFlush, WriteCompaction, BuildTable, BuiltJob, JobPC,
                        Goto, catalog
    <2>2. phase # "closed"
      BY <2>1 DEF TreeInv, ControlInv, JobPC
    <2>3. \A i \in registry : i.id # job[t].id /\ i.id \in DOMAIN disk
      BY <2>1 DEF TreeInv, DataInv, JobDirInv, DiskInv, RegisteredOnDisk
    <2>4. \A i \in registry : disk'[i.id] = disk[i.id]
      BY <2>1, <2>3
    <2>5. QED BY <2>1, <2>2, <2>4, CacheFrame
  <1>3. ASSUME NEW t \in Threads, CommitFlush(t) \/ CommitCompaction(t)
        PROVE  CacheInv'
    <2>1. PICK n : n = AddedInfo(t)
      OBVIOUS
    <2>2. /\ pc[t] \in JobPC /\ phase' = phase
          /\ disk' = disk /\ job' = job /\ next_sst_id' = next_sst_id
          /\ registry' = registry \cup {n}
          /\ \A u \in Threads : pc'[u] \in JobPC => pc'[u] = pc[u]
      BY <1>0, <1>3, <2>1
         DEF CommitFlush, CommitCompaction, Add, NewInfo, AddedInfo, JobPC,
             Goto, files
    <2>3. n.id = job[t].id
      BY <2>1 DEF AddedInfo
    <2>4. phase # "closed"
      BY <2>2 DEF TreeInv, ControlInv, JobPC
    <2>5. n.id \notin DOMAIN caches
      BY <2>2, <2>3 DEF CacheInv
    <2>6. QED BY <2>2, <2>4, <2>5, CacheFrame
  <1>4. ASSUME NEW t \in Threads, RemoveOld(t) PROVE CacheInv'
    <2>1. PICK o \in job[t].olds :
            /\ registry' = Remove(registry, o.id)
            /\ disk' = [id \in DOMAIN disk \ {o.id} |-> disk[id]]
            /\ job' = [job EXCEPT ![t] = JobWithOlds(@, @.olds \ {o})]
      BY <1>4 DEF RemoveOld
    <2>2. /\ pc[t] = "removing" /\ phase' = phase
          /\ next_sst_id' = next_sst_id
          /\ \A u \in Threads : pc'[u] \in JobPC => u # t /\ pc'[u] = pc[u]
      BY <1>0, <1>4 DEF RemoveOld, JobPC, Goto
    <2>3. phase # "closed"
      BY <2>2 DEF TreeInv, ControlInv
    <2>4. \A i \in registry' : i \in registry /\ disk'[i.id] = disk[i.id]
      BY <2>1 DEF Remove, TreeInv, DataInv, DiskInv, RegisteredOnDisk
    <2>5. \A u \in Threads : pc'[u] \in JobPC =>
            pc[u] \in JobPC /\ job'[u].id = job[u].id
      BY <1>0, <2>1, <2>2
    <2>6. QED BY <2>2, <2>3, <2>4, <2>5, CacheFrame
  <1>5. ASSUME NEW t \in Threads,
               WriteThrows(t) \/ SaveManifest(t) \/ SaveFails(t)
        PROVE  CacheInv'
    <2>1. /\ pc[t] \in DrainPC /\ phase' = phase
          /\ disk' = disk /\ registry' = registry /\ next_sst_id' = next_sst_id
          /\ \A u \in Threads : pc'[u] \in JobPC =>
               pc[u] \in JobPC /\ job'[u].id = job[u].id
      BY <1>0, <1>5 DEF WriteThrows, SaveManifest, SaveFails, JobPC, DrainPC,
                        LockedPC, Goto, catalog, files
    <2>2. phase # "closed"
      BY <2>1 DEF TreeInv, ControlInv, DrainPC, JobPC, LockedPC
    <2>3. QED BY <2>1, <2>2, CacheFrame
  <1>6. ASSUME NEW c \in Clients, NEW k \in Keys, Insert(c, k) PROVE CacheInv'
    <2>1. /\ phase # "closed" /\ disk' = disk /\ registry' = registry
          /\ next_sst_id' = next_sst_id /\ job' = job
          /\ \A u \in Threads : pc'[u] \in JobPC => pc'[u] = pc[u]
      BY <1>0, <1>6 DEF Insert, JobPC, Goto, catalog, files
    <2>2. QED BY <2>1, CacheFrame
  <1>7. CASE Open
    <2>1. DOMAIN caches' = {}
      BY <1>7 DEF Open, CacheInv
    <2>2. QED BY <2>1 DEF CacheInv, CacheCurrent
  <1>8. CASE \/ \E c \in Clients : \/ WaitForCompaction(c) \/ WaitCheck(c)
                                   \/ SpuriousWakeup(c) \/ BeginClose(c)
             \/ \E t \in Threads : EndDrain(t)
             \/ WorkerWakes \/ WorkerExits \/ SetStop
    <2>1. /\ SameJobs /\ UNCHANGED <<catalog, files>>
          /\ phase # "closed"
      BY <1>8, ThreadActions DEF TreeInv
    <2>2. QED
      BY <2>1, CacheFrame DEF SameJobs, BusyPC, JobPC, catalog, files
  <1>9. ~(EndClose \/ Crash)
    BY DEF EndClose, Crash, LoseMemory
  <1>10. QED
    BY <1>1, <1>2, <1>3, <1>4, <1>5, <1>6, <1>7, <1>8, <1>9
       DEF Next, ClientStep, DrainStep

LEMMA NextCache ==
    ASSUME SingleDrainer, TreeInv, ScanTypeOK, CacheInv, [ScanNext]_allVars
    PROVE  CacheInv'
  <1>1. CASE TreeStep
    <2>1. CASE phase' = "closed"
      <3>1. DOMAIN caches' = {}
        BY <1>1, <2>1 DEF TreeStep
      <3>2. QED BY <2>1, <3>1 DEF CacheInv, CacheCurrent
    <2>2. CASE phase' # "closed"
      BY <1>1, <2>2, TreeStepCache DEF TreeStep
    <2>3. QED BY <2>1, <2>2
  <1>2. ASSUME NEW r \in Ranges, OpenScan(r[1], r[2]) PROVE CacheInv'
    <2>0. PICK tables :
            tables = UNION {Overlapping(registry, level, r[1], r[2]) :
                              level \in {i.level : i \in registry}}
      OBVIOUS
    <2>1. /\ tables \subseteq registry
          /\ caches' = CachesWith(tables)
          /\ UNCHANGED vars /\ phase = "open"
      BY <1>2, <2>0 DEF OpenScan, BuildCursor, Overlapping, AtLevel
    <2>2. \A i \in tables : /\ i.id < next_sst_id
                            /\ \A t \in Threads : pc[t] \in JobPC => i.id # job[t].id
      BY <2>1 DEF TreeInv, DataInv, IdInv, JobDirInv
    <2>3. DOMAIN caches' = DOMAIN caches \cup {i.id : i \in tables}
      BY <2>1 DEF CachesWith
    <2>4. CacheCurrent'
      BY <2>1 DEF CachesWith, CacheInv, CacheCurrent, vars, catalog, files
    <2>5. QED BY <2>1, <2>2, <2>3, <2>4 DEF CacheInv, vars, catalog, threads
  <1>3. CASE ReadActive \/ ReadMem \/ ReadTable \/ CloseScan \/ UNCHANGED allVars
    <2>1. UNCHANGED <<vars, caches>>
      BY <1>3 DEF ReadActive, ReadMem, ReadTable, CloseScan, allVars, scanVars
    <2>2. QED
      BY <2>1 DEF CacheInv, CacheCurrent, vars, catalog, files, threads
  <1>4. QED BY <1>1, <1>2, <1>3 DEF ScanNext

-----------------------------------------------------------------------------
(* What a cursor pins.                                                     *)

LEMMA NextPin ==
    ASSUME ScanTypeOK, PinInv, [ScanNext]_allVars
    PROVE  PinInv'
  <1>1. CASE TreeStep
    BY <1>1 DEF TreeStep, NoCursor, PinInv
  <1>2. ASSUME NEW r \in Ranges, OpenScan(r[1], r[2]) PROVE PinInv'
    <2>1. PICK mems, tabs :
            /\ cursor'.mems = mems /\ cursor'.pins = PinsOf(mems)
            /\ cursor'.tabs = tabs /\ cursor'.held = HeldBy(tabs)
      BY <1>2 DEF OpenScan, BuildCursor
    <2>2. QED BY <2>1 DEF PinInv, PinsOf, HeldBy
  <1>3. CASE ReadActive
    <2>1. PICK act : cursor' = [cursor EXCEPT !.act = act]
      BY <1>3 DEF ReadActive
    <2>2. QED BY <2>1 DEF PinInv, ScanTypeOK
  <1>4. CASE ReadMem
    <2>1. PICK m, row :
            /\ m \in cursor.mems
            /\ cursor' = [cursor EXCEPT !.mems = WithoutRow(@, m, row)]
      BY <1>4 DEF ReadMem
    <2>2. /\ cursor'.mems = WithoutRow(cursor.mems, m, row)
          /\ UNCHANGED <<cursor.tabs, cursor.pins, cursor.held>>
      BY <2>1 DEF ScanTypeOK
    <2>3. m \in MemCursors
      BY <2>1 DEF ScanTypeOK
    <2>4. [m EXCEPT !.left = @ \ {row}].object = m.object
      BY <2>3 DEF MemCursors
    <2>5. QED BY <2>1, <2>2, <2>4 DEF PinInv, WithoutRow
  <1>5. CASE ReadTable
    <2>1. PICK t, row :
            /\ t \in cursor.tabs
            /\ cursor' = [cursor EXCEPT !.tabs = WithoutRow(@, t, row)]
      BY <1>5 DEF ReadTable
    <2>2. /\ cursor'.tabs = WithoutRow(cursor.tabs, t, row)
          /\ UNCHANGED <<cursor.mems, cursor.pins, cursor.held>>
      BY <2>1 DEF ScanTypeOK
    <2>3. t \in TableCursors
      BY <2>1 DEF ScanTypeOK
    <2>4. [t EXCEPT !.left = @ \ {row}].id = t.id
      BY <2>3 DEF TableCursors
    <2>5. QED BY <2>1, <2>2, <2>4 DEF PinInv, WithoutRow
  <1>6. CASE CloseScan
    BY <1>6 DEF CloseScan, NoCursor, PinInv
  <1>7. CASE UNCHANGED allVars
    BY <1>7 DEF allVars, scanVars, PinInv
  <1>8. QED
    BY <1>1, <1>2, <1>3, <1>4, <1>5, <1>6, <1>7 DEF ScanNext

-----------------------------------------------------------------------------
(* The map of the active memtable, and lower_bound and ++ on it.           *)

LEMMA NextMap ==
    ASSUME SingleDrainer, ~CrashInWindow, TreeInv, TreeInv', MapInv, [Next]_vars
    PROVE  MapInv'
  <1>1. CASE phase' = "closed"
    <2>1. active' = {}
      BY <1>1 DEF TreeInv, ControlInv
    <2>2. QED BY <2>1, FS_EmptySet DEF MapInv, OneRowPerKey
  <1>2. ASSUME NEW c \in Clients, NEW k \in Keys, Insert(c, k) PROVE MapInv'
    <2>1. PICK row \in Row :
            /\ row.key = k
            /\ \/ active' = (active \ {r \in active : r.key = k}) \cup {row}
               \/ active' = {}
      BY <1>2, InsertStep
    <2>2. IsFiniteSet(active')
      <3>1. PICK same : same = {r \in active : r.key = k}
        OBVIOUS
      <3>2. IsFiniteSet(active)
        BY DEF MapInv
      <3>3. IsFiniteSet(active \ same)
        BY <3>2, FS_Difference
      <3>4. IsFiniteSet((active \ same) \cup {row})
        BY <3>3, FS_AddElement
      <3>5. IsFiniteSet({})
        BY FS_EmptySet
      <3>6. QED BY <2>1, <3>1, <3>4, <3>5
    <2>3. OneRowPerKey(active')
      BY <2>1 DEF MapInv, OneRowPerKey
    <2>4. QED BY <2>2, <2>3 DEF MapInv
  <1>3. ASSUME phase' # "closed",
               \A c \in Clients, k \in Keys : ~Insert(c, k)
        PROVE  MapInv'
    BY <1>3, SilentStep DEF MapInv
  <1>4. QED BY <1>1, <1>2, <1>3

LEMMA LeastKey ==
    ASSUME NEW S, S \subseteq Row, IsFiniteSet(S), S # {}
    PROVE  \E s \in S : s.key \in Int /\ \A r \in S : s.key <= r.key
  <1> DEFINE K == {r.key : r \in S}
             f == [r \in S |-> r.key]
  <1>1. K \subseteq Int /\ K # {}
    BY MemoryAssumption DEF Row
  <1>2. f \in Surjection(S, K)
    BY DEF Surjection
  <1>3. IsFiniteSet(K)
    BY <1>2, FS_Surjection
  <1> HIDE DEF f
  <1>4. PICK k \in K : \A l \in K : k <= l
    BY <1>1, <1>3, LeastOfFinite
  <1>5. QED BY <1>1, <1>4

(* lower_bound: the least key of the map that is not below the bound.      *)
LEMMA LowerBoundIs ==
    ASSUME TypeOK, MapInv, NEW bound \in OptKeys
    PROVE  /\ LowerBound(bound) = {} \/ \E c : LowerBound(bound) = {c}
           /\ \A c \in LowerBound(bound) :
                /\ \E s \in active : s.key = c
                /\ \A k \in bound : c >= k
           /\ \A r \in active : (\A k \in bound : r.key >= k) =>
                /\ LowerBound(bound) # {}
                /\ \A c \in LowerBound(bound) : c <= r.key
  <1> DEFINE from == {s \in active : \A k \in bound : s.key >= k}
             above == {r.key : r \in from}
  <1>0. active \subseteq Row /\ above \subseteq Int
    BY MemoryAssumption DEF TypeOK, Row
  <1>1. LowerBound(bound) = {k \in above : \A l \in above : k <= l}
    BY DEF LowerBound
  <1>2. from # {} => \E k \in above : \A l \in above : k <= l
    <2> SUFFICES ASSUME from # {} PROVE \E k \in above : \A l \in above : k <= l
      OBVIOUS
    <2>1. from \subseteq Row /\ IsFiniteSet(from)
      BY <1>0, FS_Subset DEF MapInv
    <2>2. PICK s \in from : \A r \in from : s.key <= r.key
      BY <2>1, LeastKey
    <2>3. QED BY <2>2
  <1>3. \A c \in LowerBound(bound) : c \in above /\ \A l \in above : c <= l
    BY <1>1
  <1>4. \A c \in LowerBound(bound) : /\ \E s \in active : s.key = c
                                    /\ \A k \in bound : c >= k
    BY <1>3
  <1>5. \A r \in from : r.key \in above /\ LowerBound(bound) # {}
    BY <1>1, <1>2
  <1>6. \A r \in from : \A c \in LowerBound(bound) : c <= r.key
    BY <1>3, <1>5
  <1> HIDE DEF above
  <1>7. ASSUME NEW c \in LowerBound(bound), NEW d \in LowerBound(bound)
        PROVE  c = d
    <2>1. c <= d /\ d <= c
      BY <1>3
    <2>2. c \in Int /\ d \in Int
      BY <1>0, <1>3
    <2>3. QED BY <2>1, <2>2
  <1>8. QED BY <1>4, <1>5, <1>6, <1>7

(* ++: the least key of the map above the one of the row.                  *)
LEMMA KeyAfterIs ==
    ASSUME TypeOK, MapInv, NEW row \in active
    PROVE  /\ KeyAfter(row) = {} \/ \E c : KeyAfter(row) = {c}
           /\ \A c \in KeyAfter(row) :
                c > row.key /\ \E s \in active : s.key = c
           /\ \A r \in active : r.key > row.key =>
                KeyAfter(row) # {} /\ \A c \in KeyAfter(row) : c <= r.key
  <1> DEFINE later == {r \in active : r.key > row.key}
             first == {s \in later : IsFirst(s, later)}
  <1>0. active \subseteq Row /\ \A r \in active : r.key \in Int
    BY MemoryAssumption DEF TypeOK, Row
  <1>1. KeyAfter(row) = {r.key : r \in first}
    BY DEF KeyAfter
  <1>2. later # {} => first # {}
    <2>1. later \subseteq Row /\ IsFiniteSet(later)
      BY <1>0, FS_Subset DEF MapInv
    <2>2. QED BY <2>1, LeastKey DEF IsFirst
  <1>3. \A c, d \in KeyAfter(row) : c = d
    BY <1>0, <1>1 DEF IsFirst
  <1>4. \A r \in later : \A c \in KeyAfter(row) : c <= r.key
    BY <1>1 DEF IsFirst
  <1>5. \A c \in KeyAfter(row) : c > row.key /\ \E s \in active : s.key = c
    BY <1>1
  <1>6. later # {} => KeyAfter(row) # {}
    BY <1>1, <1>2
  <1> HIDE DEF first
  <1>7. QED BY <1>3, <1>4, <1>5, <1>6

-----------------------------------------------------------------------------
(* Reading: each row from one place, and none missed.                      *)

LEMMA InitRead == ScanInit => ReadInv
  <1> SUFFICES ASSUME ScanInit PROVE ReadInv
    OBVIOUS
  <1>1. /\ Sources = {} /\ Left = {} /\ cursor.act = {}
        /\ snapshot = {} /\ out = {} /\ ~repeated
    BY DEF ScanInit, NoCursor, Sources, Left
  <1>2. QED BY <1>1 DEF ReadInv, DisjointInv, IteratorInv, CompleteInv

LEMMA NoCursorRead ==
    ASSUME cursor' = NoCursor, snapshot' = {}, out' = {}, repeated' = FALSE
    PROVE  ReadInv'
  <1>1. Sources' = {} /\ Left' = {} /\ cursor'.act = {}
    BY DEF NoCursor, Sources, Left
  <1>2. QED BY <1>1 DEF ReadInv, DisjointInv, IteratorInv, CompleteInv

LEMMA SourcesTyped ==
    ASSUME ScanTypeOK
    PROVE  /\ \A m \in Sources : m.left \subseteq Row
           /\ Left \subseteq Row
           /\ \A r \in Left \cup out \cup snapshot : r \in Row /\ r.seq \in Nat
  <1>1. \A m \in Sources : m.left \subseteq Row
    BY DEF ScanTypeOK, Sources, MemCursors, TableCursors
  <1>2. Left \subseteq Row
    BY <1>1 DEF Left
  <1>3. QED BY <1>1, <1>2 DEF ScanTypeOK, Row

(* A step that no cursor notices.                                          *)
LEMMA SilentRead ==
    ASSUME ReadInv,
           UNCHANGED <<active, inserts, gen, cursor, snapshot, out, repeated>>,
           Visible' = Visible
    PROVE  ReadInv'
  <1>1. /\ Sources' = Sources /\ Left' = Left
        /\ \A r : Superseded(r)' <=> Superseded(r)
        /\ \A a, r : Ahead(a, r)' <=> Ahead(a, r)
        /\ \A a : ValidPair(a)' <=> ValidPair(a)
    BY DEF Sources, Left, Superseded, Ahead, ValidPair
  <1>2. DisjointInv'
    BY <1>1 DEF ReadInv, DisjointInv
  <1>3. IteratorInv'
    BY <1>1 DEF ReadInv, IteratorInv
  <1>4. CompleteInv'
    BY <1>1 DEF ReadInv, CompleteInv
  <1>5. QED BY <1>2, <1>3, <1>4 DEF ReadInv

(* A row that has been replaced stays replaced, and one that is replaced   *)
(* now becomes so.                                                         *)
LEMMA InsertRead ==
    ASSUME TreeInv, ScanTypeOK, ReadInv,
           NEW c \in Clients, NEW k \in Keys, Insert(c, k),
           gen' = IF Len(immutables') > Len(immutables) THEN gen + 1 ELSE gen,
           UNCHANGED <<cursor, snapshot, out, repeated>>
    PROVE  ReadInv'
  <1> DEFINE old == {r \in active : r.key = k}
  <1>0. PICK row \in Row :
          /\ row.key = k /\ row.seq = inserts + 1
          /\ inserts' = inserts + 1 /\ inserts \in Nat
          /\ Visible' = (Visible \ old) \cup {row}
          /\ \/ /\ active' = (active \ old) \cup {row}
                /\ ~(Len(immutables') > Len(immutables))
             \/ /\ active' = {}
                /\ Len(immutables') > Len(immutables)
    BY InsertStep
  <1>1. /\ Sources' = Sources /\ Left' = Left
        /\ gen \in Nat
        /\ \A a \in cursor.act : a.gen \in Nat /\ a.gen <= gen
    BY DEF Sources, Left, ScanTypeOK, MapIterators, ReadInv, IteratorInv
  <1>2. \/ active' = {} /\ gen' = gen + 1
        \/ active' = (active \ old) \cup {row} /\ gen' = gen
    BY <1>0
  <1>3. \A r \in Left \cup out \cup snapshot :
          r.seq \in Nat /\ r.seq <= inserts /\ r # row
    BY <1>0, SourcesTyped DEF ReadInv, DisjointInv
  <1>4. DisjointInv'
    <2>1. \A m \in Sources : m.left \cap (out \cup active') = {}
      BY <1>2, <1>3 DEF ReadInv, DisjointInv, Left
    <2>2. \A r \in Left \cup out \cup snapshot : r.seq <= inserts'
      BY <1>0, <1>3
    <2>3. QED BY <1>1, <2>1, <2>2 DEF ReadInv, DisjointInv
  <1>5. IteratorInv'
    <2> SUFFICES ASSUME NEW a \in cursor.act
                 PROVE  /\ a.gen <= gen'
                        /\ a.gen = gen' =>
                             /\ ValidPair(a)'
                             /\ \A r \in out \cap active', l \in a.cur : r.key < l
      BY DEF ReadInv, IteratorInv
    <2>1. CASE gen' = gen + 1
      BY <1>1, <2>1
    <2>2. CASE active' = (active \ old) \cup {row} /\ gen' = gen
      <3>1. \A l : (\E r \in active : r.key = l) => \E r \in active' : r.key = l
        BY <1>0, <2>2
      <3>2. ValidPair(a) => ValidPair(a)'
        BY <3>1 DEF ValidPair
      <3>3. out \cap active' \subseteq out \cap active
        BY <1>3, <2>2
      <3>4. QED BY <1>1, <2>2, <3>2, <3>3 DEF ReadInv, IteratorInv
    <2>3. QED BY <1>2, <2>1, <2>2
  <1>6. ASSUME NEW r \in snapshot, Superseded(r)
        PROVE  Superseded(r)'
    <2>1. PICK s \in Visible : s.key = r.key /\ s.seq > r.seq
      BY <1>6 DEF Superseded
    <2>2. CASE s \in Visible'
      BY <2>1, <2>2 DEF Superseded
    <2>3. CASE s \in old
      <3>1. s.seq \in Nat /\ s.seq <= inserts
        BY <1>0 DEF TreeInv, DataInv, SeqInv
      <3>2. row.seq > r.seq
        BY <1>0, <1>3, <2>1, <3>1
      <3>3. QED BY <1>0, <2>1, <2>3, <3>2 DEF Superseded
    <2>4. QED BY <1>0, <2>2, <2>3
  <1>7. ASSUME NEW r \in snapshot, r \in old
        PROVE  Superseded(r)'
    <2>1. row.seq > r.seq
      BY <1>0, <1>3
    <2>2. QED BY <1>0, <1>7, <2>1 DEF Superseded
  <1>8. CompleteInv'
    <2> SUFFICES ASSUME NEW r \in snapshot, ~ Superseded(r)',
                        r \notin out \cup Left
                 PROVE  \E a \in cursor.act : a.gen # gen' \/ Ahead(a, r)'
      BY <1>1 DEF CompleteInv
    <2>1. PICK a \in cursor.act : a.gen # gen \/ Ahead(a, r)
      BY <1>6 DEF ReadInv, CompleteInv
    <2>2. a.gen # gen => a.gen # gen'
      BY <1>1, <1>2
    <2>3. Ahead(a, r) => a.gen # gen' \/ Ahead(a, r)'
      <3>1. CASE gen' = gen + 1
        BY <1>1, <3>1
      <3>2. CASE active' = (active \ old) \cup {row}
        BY <1>7, <3>2 DEF Ahead
      <3>3. QED BY <1>2, <3>1, <3>2
    <2>4. QED BY <2>1, <2>2, <2>3
  <1>9. QED BY <1>4, <1>5, <1>8 DEF ReadInv

(* The next row of a frozen memtable or of a table, n being what is left.  *)
LEMMA SourceRead ==
    ASSUME ScanTypeOK, ReadInv, NEW m \in Sources, NEW row \in m.left, NEW n,
           n.left = m.left \ {row},
           Sources' = (Sources \ {m}) \cup {x \in {n} : x.left # {}},
           Return(row), cursor'.act = cursor.act,
           UNCHANGED <<active, inserts, gen, snapshot>>, Visible' = Visible
    PROVE  ReadInv'
  <1>1. /\ row \in Left /\ row \notin out /\ row \notin active
        /\ out' = out \cup {row} /\ ~repeated'
    BY DEF ReadInv, DisjointInv, Left, Return
  <1>2. \A x \in Sources \ {m} : row \notin x.left
    BY DEF ReadInv, DisjointInv
  <1>3. DisjointInv'
    <2>1. \A x, y \in Sources' : x # y => x.left \cap y.left = {}
      <3> SUFFICES ASSUME NEW x \in Sources', NEW y \in Sources', x # y
                   PROVE  x.left \cap y.left = {}
        OBVIOUS
      <3>1. CASE x \in Sources \ {m} /\ y \in Sources \ {m}
        BY <3>1 DEF ReadInv, DisjointInv
      <3>2. CASE x \in Sources \ {m} /\ y = n
        BY <3>2 DEF ReadInv, DisjointInv
      <3>3. CASE x = n /\ y \in Sources \ {m}
        BY <3>3 DEF ReadInv, DisjointInv
      <3>4. QED BY <3>1, <3>2, <3>3
    <2>2. \A x \in Sources' : x.left # {} /\ x.left \cap (out' \cup active') = {}
      <3> SUFFICES ASSUME NEW x \in Sources'
                   PROVE  x.left # {} /\ x.left \cap (out' \cup active') = {}
        OBVIOUS
      <3>1. CASE x \in Sources \ {m}
        BY <1>1, <1>2, <3>1 DEF ReadInv, DisjointInv
      <3>2. CASE x = n /\ n.left # {}
        BY <1>1, <3>2 DEF ReadInv, DisjointInv
      <3>3. QED BY <3>1, <3>2
    <2>3. Left' \subseteq Left
      BY DEF Left
    <2>4. QED BY <1>1, <2>1, <2>2, <2>3 DEF ReadInv, DisjointInv
  <1>4. IteratorInv'
    <2>1. \A a : ValidPair(a)' <=> ValidPair(a)
      BY DEF ValidPair
    <2>2. out' \cap active' = out \cap active
      BY <1>1
    <2>3. QED BY <2>1, <2>2 DEF ReadInv, IteratorInv
  <1>5. CompleteInv'
    <2>1. /\ \A r : Superseded(r)' <=> Superseded(r)
          /\ \A a, r : Ahead(a, r)' <=> Ahead(a, r)
      BY DEF Superseded, Ahead
    <2>2. Left \subseteq Left' \cup {row}
      BY DEF Left
    <2>3. QED BY <1>1, <2>1, <2>2 DEF ReadInv, CompleteInv
  <1>6. QED BY <1>1, <1>3, <1>4, <1>5 DEF ReadInv

(* The next row of the active memtable.                                    *)
LEMMA ActiveRead ==
    ASSUME TreeInv, ScanTypeOK, MapInv, ReadInv, ReadActive
    PROVE  ReadInv'
  <1>1. PICK a \in cursor.act, row \in active :
          /\ a.gen = gen /\ row.key \in a.cur
          /\ Return(row)
          /\ cursor' = [cursor EXCEPT !.act = Advanced(a, row)]
    <2>1. PICK a \in cursor.act :
            /\ a.gen = gen
            /\ \E row \in {r \in active : r.key \in a.cur} :
                 Return(row) /\ cursor' = [cursor EXCEPT !.act = Advanced(a, row)]
      BY DEF ReadActive, ActiveBacked
    <2>2. QED BY <2>1
  <1>2. /\ UNCHANGED <<active, inserts, gen, snapshot>>
        /\ UNCHANGED vars
    BY DEF ReadActive, vars, memory, counters
  <1>3. Visible' = Visible
    BY <1>2 DEF Visible, TablesRows, RowsOf, DequeRows, vars, memory, catalog,
                files
  <1>4. /\ Sources' = Sources /\ Left' = Left
        /\ cursor'.act = Advanced(a, row)
    BY <1>1 DEF Sources, Left, ScanTypeOK
  <1>5. /\ ValidPair(a) /\ a.cur = {row.key}
        /\ \A b \in cursor.act : b = a
        /\ \A r \in out \cap active : r.key < row.key
    BY <1>1 DEF ReadInv, IteratorInv, ValidPair
  <1>6. /\ row.key \in Int
        /\ \A r \in active : r.key \in Int
        /\ \A k \in a.end : k \in Int
    <2>1. active \subseteq Row /\ a \in MapIterators
      BY DEF TreeInv, TypeOK, ScanTypeOK
    <2>2. QED BY <2>1, MemoryAssumption DEF Row, MapIterators
  <1>7. row \notin out /\ out' = out \cup {row} /\ ~repeated'
    <2>1. row \notin out
      BY <1>5, <1>6
    <2>2. QED BY <1>1, <2>1 DEF Return, ReadInv
  <1>8. row.seq <= inserts
    <2>1. phase = "open"
      BY <1>1 DEF ScanTypeOK, NoCursor
    <2>2. row \in Visible
      BY <2>1 DEF Visible
    <2>3. QED BY <2>2, TreeAssumption DEF TreeInv, TypeOK, DataInv, SeqInv
  <1>9. DisjointInv'
    <2>1. \A m \in Sources : m.left \cap (out' \cup active') = {}
      BY <1>2, <1>7 DEF ReadInv, DisjointInv
    <2>2. QED BY <1>2, <1>4, <1>7, <1>8, <2>1 DEF ReadInv, DisjointInv
  <1>10. /\ KeyAfter(row) = {} \/ \E c : KeyAfter(row) = {c}
         /\ \A c \in KeyAfter(row) :
              c > row.key /\ \E s \in active : s.key = c
         /\ \A r \in active : r.key > row.key =>
              KeyAfter(row) # {} /\ \A c \in KeyAfter(row) : c <= r.key
    BY KeyAfterIs DEF TreeInv
  <1>11. ASSUME KeyAfter(row) # a.end
         PROVE  /\ cursor'.act = {[gen |-> a.gen, cur |-> KeyAfter(row),
                                   end |-> a.end]}
                /\ \E c : KeyAfter(row) = {c}
                /\ \A c \in KeyAfter(row), e \in a.end : c < e
                /\ \A c \in KeyAfter(row) : c \in Int /\ c > row.key
    <2>1. \A e \in a.end : row.key < e /\ \E s \in active : s.key = e
      BY <1>5 DEF ValidPair
    <2>2. a.end # {} => KeyAfter(row) # {}
      BY <1>6, <1>10, <2>1
    <2>3. \E c : KeyAfter(row) = {c}
      BY <1>10, <1>11, <2>2
    <2>4. \A c \in KeyAfter(row) : c \in Int /\ c > row.key
      BY <1>6, <1>10
    <2>5. \A c \in KeyAfter(row), e \in a.end : c <= e /\ c # e
      BY <1>5, <1>6, <1>10, <1>11, <2>1, <2>3 DEF ValidPair
    <2>6. QED BY <1>4, <1>6, <1>11, <2>3, <2>4, <2>5 DEF Advanced
  <1>12. IteratorInv'
    <2>1. CASE KeyAfter(row) = a.end
      BY <1>4, <2>1 DEF Advanced, IteratorInv
    <2>2. CASE KeyAfter(row) # a.end
      <3>0. PICK b : b = [gen |-> a.gen, cur |-> KeyAfter(row), end |-> a.end]
        OBVIOUS
      <3>1. cursor'.act = {b}
        BY <1>11, <2>2, <3>0
      <3>2. b.gen = gen' /\ b.cur = KeyAfter(row) /\ b.end = a.end
        BY <1>1, <1>2, <3>0
      <3>3. ValidPair(b)'
        <4>1. \E c \in b.cur : b.cur = {c}
          BY <1>11, <2>2, <3>2
        <4>2. b.end = {} \/ \E e \in b.end : b.end = {e}
          BY <1>5, <3>2 DEF ValidPair
        <4>3. \A k \in b.cur \cup b.end : \E r \in active : r.key = k
          BY <1>5, <1>10, <3>2 DEF ValidPair
        <4>4. \A c \in b.cur, e \in b.end : c < e
          BY <1>11, <2>2, <3>2
        <4>5. QED BY <1>2, <4>1, <4>2, <4>3, <4>4 DEF ValidPair
      <3>4. \A r \in out' \cap active', k \in b.cur : r.key < k
        BY <1>2, <1>5, <1>6, <1>7, <1>11, <2>2, <3>2
      <3>5. b.gen <= gen'
        BY <1>2, <3>2 DEF ScanTypeOK
      <3>6. QED BY <3>1, <3>3, <3>4, <3>5 DEF IteratorInv
    <2>3. QED BY <2>1, <2>2
  <1>13. CompleteInv'
    <2> SUFFICES ASSUME NEW r \in snapshot, ~ Superseded(r)',
                        r \notin out' \cup Left'
                 PROVE  \E b \in cursor'.act : b.gen # gen' \/ Ahead(b, r)'
      BY <1>2 DEF CompleteInv
    <2>1. ~ Superseded(r) /\ r \notin out \cup Left /\ r # row
      BY <1>3, <1>4, <1>7 DEF Superseded
    <2>2. Ahead(a, r)
      BY <1>1, <1>5, <2>1 DEF ReadInv, CompleteInv
    <2>3. r \in active /\ row.key <= r.key /\ \A e \in a.end : r.key < e
      BY <1>5, <2>2 DEF Ahead
    <2>4. r.key > row.key
      BY <1>6, <2>1, <2>3 DEF MapInv, OneRowPerKey
    <2>5. KeyAfter(row) # {} /\ \A c \in KeyAfter(row) : c <= r.key /\ c > row.key
      BY <1>10, <2>3, <2>4
    <2>6. KeyAfter(row) # a.end
      BY <1>6, <1>10, <2>3, <2>5
    <2>7. PICK b : b = [gen |-> a.gen, cur |-> KeyAfter(row), end |-> a.end]
      OBVIOUS
    <2>8. b \in cursor'.act /\ b.cur = KeyAfter(row) /\ b.end = a.end
      BY <1>11, <2>6, <2>7
    <2>9. Ahead(b, r)'
      BY <1>2, <2>3, <2>5, <2>8 DEF Ahead
    <2>10. QED BY <2>8, <2>9
  <1>14. QED BY <1>7, <1>9, <1>12, <1>13 DEF ReadInv

(* The iterators of a new cursor: none when no row of the active memtable  *)
(* is in the range, and otherwise all of them lie ahead.                   *)
LEMMA NewIterators ==
    ASSUME TypeOK, ScanTypeOK, MapInv,
           NEW from \in OptKeys, NEW to \in OptKeys,
           \A f \in from, t \in to : f < t
    PROVE  /\ \A a, b \in ActiveIterators(from, to) : a = b
           /\ \A a \in ActiveIterators(from, to) : a.gen = gen /\ ValidPair(a)
           /\ \A r \in InRange(active, from, to) :
                \E a \in ActiveIterators(from, to) : Ahead(a, r)
  <1>1. PICK first : first = LowerBound(from)
    OBVIOUS
  <1>2. PICK last : last = IF to = {} THEN {} ELSE LowerBound(to)
    OBVIOUS
  <1>3. PICK a : a = [gen |-> gen, cur |-> first, end |-> last]
    OBVIOUS
  <1>4. /\ ActiveIterators(from, to) = IF first = last THEN {} ELSE {a}
        /\ a.gen = gen /\ a.cur = first /\ a.end = last
    BY <1>1, <1>2, <1>3 DEF ActiveIterators
  <1>5. /\ first = {} \/ \E c : first = {c}
        /\ \A c \in first : \E s \in active : s.key = c
        /\ \A r \in active : (\A k \in from : r.key >= k) =>
             first # {} /\ \A c \in first : c <= r.key
    BY <1>1, LowerBoundIs
  <1>6. /\ last = {} \/ \E c : last = {c}
        /\ \A c \in last : /\ \E s \in active : s.key = c
                           /\ \A k \in to : c >= k
        /\ last # {} => to # {}
    BY <1>2, LowerBoundIs
  <1>7. /\ from \subseteq Int /\ to \subseteq Int
        /\ \A r \in active : r.key \in Int
    BY MemoryAssumption DEF OptKeys, TypeOK, Row
  <1>8. \A e \in last : first # {} /\ \A c \in first : c <= e
    <2> SUFFICES ASSUME NEW e \in last
                 PROVE  first # {} /\ \A c \in first : c <= e
      OBVIOUS
    <2>1. PICK s \in active : s.key = e
      BY <1>6
    <2>2. PICK t \in to : e >= t
      BY <1>6
    <2>3. \A f \in from : s.key >= f
      BY <1>7, <2>1, <2>2
    <2>4. QED BY <1>5, <2>1, <2>3
  <1>9. first # last => ValidPair(a)
    <2> SUFFICES ASSUME first # last PROVE ValidPair(a)
      OBVIOUS
    <2>1. PICK c : first = {c}
      BY <1>5, <1>6, <1>8
    <2>2. last = {} \/ \E e \in last : last = {e}
      BY <1>6
    <2>3. \A e \in last : c <= e /\ c # e
      BY <1>6, <1>8, <2>1
    <2>4. c \in Int /\ last \subseteq Int
      BY <1>5, <1>6, <1>7, <2>1
    <2>5. \A e \in last : c < e
      BY <2>3, <2>4
    <2>6. QED BY <1>4, <1>5, <1>6, <2>1, <2>2, <2>5 DEF ValidPair
  <1>10. ASSUME NEW r \in InRange(active, from, to)
         PROVE  first # last /\ Ahead(a, r)
    <2>1. /\ r \in active /\ r.key \in Int
          /\ \A f \in from : r.key >= f
          /\ \A t \in to : r.key < t
      BY <1>7 DEF InRange
    <2>2. first # {} /\ \A c \in first : c <= r.key
      BY <1>5, <2>1
    <2>3. \A e \in last : e \in Int /\ r.key < e
      <3> SUFFICES ASSUME NEW e \in last PROVE e \in Int /\ r.key < e
        OBVIOUS
      <3>1. PICK t \in to : e >= t
        BY <1>6
      <3>2. e \in Int
        BY <1>6, <1>7
      <3>3. QED BY <1>7, <2>1, <3>1, <3>2
    <2>4. first # last
      BY <2>1, <2>2, <2>3
    <2>5. QED BY <1>4, <2>1, <2>2, <2>3, <2>4 DEF Ahead
  <1>11. QED BY <1>4, <1>9, <1>10

LEMMA OpenRead ==
    ASSUME TreeInv, BoundsInv, ScanTypeOK, ScanTypeOK', MapInv,
           NEW from \in OptKeys, NEW to \in OptKeys,
           \A f \in from, t \in to : f < t,
           OpenScan(from, to)
    PROVE  ReadInv'
  <1>1. PICK tables : tables = UNION {Overlapping(registry, level, from, to) :
                                        level \in {i.level : i \in registry}}
    OBVIOUS
  <1>2. PICK frozen : frozen = {immutables[i] : i \in 1 .. Len(immutables)}
    OBVIOUS
  <1>3. PICK mems : mems = {[object |-> m, left |-> InRange(m, from, to)] :
                              m \in frozen}
    OBVIOUS
  <1>4. PICK tabs : tabs = {[id |-> i.id, left |-> InRange(RowsOf(i), from, to)] :
                              i \in tables}
    OBVIOUS
  <1>5. PICK used : used = {m \in mems : m.left # {}}
    OBVIOUS
  <1>6. PICK read : read = {t \in tabs : t.left # {}}
    OBVIOUS
  <1>7. /\ cursor' = [open |-> TRUE, from |-> from, to |-> to,
                      act |-> ActiveIterators(from, to), mems |-> used,
                      tabs |-> read, pins |-> PinsOf(used),
                      held |-> HeldBy(read)]
        /\ snapshot' = InRange(Visible, from, to)
        /\ out' = {} /\ repeated' = FALSE /\ gen' = gen
        /\ UNCHANGED vars /\ mutex = {} /\ phase = "open"
    BY <1>1, <1>2, <1>3, <1>4, <1>5, <1>6 DEF OpenScan, BuildCursor
  <1>8. /\ tables \subseteq registry
        /\ \A i \in registry : \A r \in InRange(RowsOf(i), from, to) : i \in tables
    <2>1. tables \subseteq registry
      BY <1>1 DEF Overlapping, AtLevel
    <2>2. ASSUME NEW i \in registry, NEW r \in InRange(RowsOf(i), from, to)
          PROVE  i \in tables
      BY <1>1, <2>2, OverlappingFound DEF TreeInv
    <2>3. QED BY <2>1, <2>2
  <1>9. /\ Visible' = Visible /\ active' = active /\ inserts' = inserts
        /\ Visible = active \cup DequeRows(immutables) \cup TablesRows(registry)
    BY <1>7 DEF Visible, TablesRows, RowsOf, DequeRows, vars, memory, catalog,
                files, counters
  <1>10. \A m \in used : \E f \in frozen :
           /\ m = [object |-> f, left |-> InRange(f, from, to)]
           /\ m.left = InRange(f, from, to) /\ m.left \subseteq f
           /\ m.left # {}
    BY <1>3, <1>5 DEF InRange
  <1>11. \A t \in read : \E i \in registry :
           /\ t = [id |-> i.id, left |-> InRange(RowsOf(i), from, to)]
           /\ t.left = InRange(RowsOf(i), from, to) /\ t.left \subseteq RowsOf(i)
           /\ t.left # {}
    BY <1>4, <1>6, <1>8 DEF InRange
  <1>12. /\ Sources' = used \cup read
         /\ Left' = UNION {m.left : m \in used \cup read}
         /\ cursor'.act = ActiveIterators(from, to)
    BY <1>7 DEF Sources, Left
  <1>13. /\ \A f \in frozen : f \cap active = {} /\ f \subseteq Visible
         /\ \A f, g \in frozen : f # g => f \cap g = {}
         /\ \A i \in registry : /\ RowsOf(i) \cap active = {}
                               /\ RowsOf(i) \subseteq Visible
                               /\ \A f \in frozen : RowsOf(i) \cap f = {}
         /\ \A i, j \in registry : i # j => RowsOf(i) \cap RowsOf(j) = {}
    <2>1. \A a, b : ~Removing(a, b)
      BY <1>7 DEF TreeInv, ControlInv, LockedPC, Removing
    <2>2. PartitionInv
      BY DEF TreeInv, DataInv
    <2>3. \A f \in frozen : f \subseteq DequeRows(immutables)
      BY <1>2 DEF DequeRows
    <2>4. \A i \in registry : RowsOf(i) \subseteq TablesRows(registry)
      BY DEF TablesRows
    <2>5. \A f, g \in frozen : f # g => f \cap g = {}
      BY <1>2, <2>2 DEF PartitionInv
    <2>6. \A i, j \in registry : i # j => RowsOf(i) \cap RowsOf(j) = {}
      BY <2>1, <2>2 DEF PartitionInv
    <2>7. QED BY <1>9, <2>2, <2>3, <2>4, <2>5, <2>6 DEF PartitionInv
  <1>14. DisjointInv'
    <2>1. ASSUME NEW x \in used \cup read, NEW y \in used \cup read, x # y
          PROVE  x.left \cap y.left = {}
      <3>1. CASE x \in used /\ y \in used
        BY <1>10, <1>13, <2>1, <3>1
      <3>2. CASE x \in used /\ y \in read
        BY <1>10, <1>11, <1>13, <3>2
      <3>3. CASE x \in read /\ y \in used
        BY <1>10, <1>11, <1>13, <3>3
      <3>4. CASE x \in read /\ y \in read
        BY <1>11, <1>13, <2>1, <3>4
      <3>5. QED BY <3>1, <3>2, <3>3, <3>4
    <2>2. \A x \in used \cup read :
            x.left # {} /\ x.left \cap active = {} /\ x.left \subseteq Visible
      BY <1>10, <1>11, <1>13
    <2>3. \A r \in Visible : r.seq <= inserts
      BY TreeAssumption DEF TreeInv, TypeOK, DataInv, SeqInv
    <2>4. Left' \cup out' \cup snapshot' \subseteq Visible
      BY <1>7, <1>12, <2>2 DEF InRange
    <2>5. QED BY <1>7, <1>9, <1>12, <2>1, <2>2, <2>3, <2>4 DEF DisjointInv
  <1>15. /\ \A a, b \in cursor'.act : a = b
         /\ \A a \in cursor'.act : a.gen = gen /\ ValidPair(a)
         /\ \A r \in InRange(active, from, to) : \E a \in cursor'.act : Ahead(a, r)
    BY <1>12, NewIterators DEF TreeInv
  <1>16. IteratorInv'
    <2>1. \A a : ValidPair(a)' <=> ValidPair(a)
      BY <1>9 DEF ValidPair
    <2>2. gen <= gen
      BY DEF ScanTypeOK
    <2>3. QED BY <1>7, <1>15, <2>1, <2>2 DEF IteratorInv
  <1>17. CompleteInv'
    <2> SUFFICES ASSUME NEW r \in InRange(Visible, from, to)
                 PROVE  r \in Left' \/ \E a \in cursor'.act : Ahead(a, r)'
      BY <1>7 DEF CompleteInv
    <2>1. CASE r \in active
      BY <1>9, <1>15, <2>1 DEF InRange, Ahead
    <2>2. CASE r \in DequeRows(immutables)
      <3>1. PICK f \in frozen : r \in f
        BY <1>2, <2>2 DEF DequeRows
      <3>2. PICK m : m = [object |-> f, left |-> InRange(f, from, to)]
        OBVIOUS
      <3>3. m.left = InRange(f, from, to) /\ r \in m.left
        BY <3>1, <3>2 DEF InRange
      <3>4. m \in used
        BY <1>3, <1>5, <3>2, <3>3
      <3>5. QED BY <1>12, <3>3, <3>4
    <2>3. CASE r \in TablesRows(registry)
      <3>1. PICK i \in registry : r \in RowsOf(i)
        BY <2>3 DEF TablesRows
      <3>2. r \in InRange(RowsOf(i), from, to)
        BY <3>1 DEF InRange
      <3>3. PICK t : t = [id |-> i.id, left |-> InRange(RowsOf(i), from, to)]
        OBVIOUS
      <3>4. t.left = InRange(RowsOf(i), from, to)
        BY <3>3
      <3>5. t \in read
        BY <1>4, <1>6, <1>8, <3>1, <3>2, <3>3, <3>4
      <3>6. QED BY <1>12, <3>2, <3>4, <3>5
    <2>4. QED BY <1>9, <2>1, <2>2, <2>3 DEF InRange
  <1>18. QED BY <1>7, <1>14, <1>16, <1>17 DEF ReadInv

LEMMA NextRead ==
    ASSUME SingleDrainer, ~CrashInWindow, TreeInv, BoundsInv,
           ScanTypeOK, ScanTypeOK', MapInv, ReadInv, [ScanNext]_allVars
    PROVE  ReadInv'
  <1>1. CASE TreeStep
    <2>1. CASE phase' = "closed"
      BY <1>1, <2>1, NoCursorRead DEF TreeStep
    <2>2. CASE phase' # "closed"
      <3>1. /\ gen' = IF Len(immutables') > Len(immutables)
                        THEN gen + 1 ELSE gen
            /\ UNCHANGED <<cursor, snapshot, out, repeated>>
            /\ Next
        BY <1>1, <2>2 DEF TreeStep
      <3>2. ASSUME NEW c \in Clients, NEW k \in Keys, Insert(c, k) PROVE ReadInv'
        BY <3>1, <3>2, InsertRead
      <3>3. CASE \A c \in Clients, k \in Keys : ~Insert(c, k)
        BY <2>2, <3>1, <3>3, SilentStep, SilentRead
      <3>4. QED BY <3>2, <3>3
    <2>3. QED BY <2>1, <2>2
  <1>2. ASSUME NEW r \in Ranges, OpenScan(r[1], r[2]) PROVE ReadInv'
    <2>1. /\ r[1] \in OptKeys /\ r[2] \in OptKeys
          /\ \A f \in r[1], t \in r[2] : f < t
      BY DEF Ranges
    <2>2. QED BY <1>2, <2>1, OpenRead
  <1>3. CASE ReadActive
    BY <1>3, ActiveRead
  <1>4. ASSUME UNCHANGED vars
        PROVE  /\ UNCHANGED <<active, inserts>>
               /\ Visible' = Visible
    BY <1>4 DEF vars, memory, catalog, files, counters, Visible, TablesRows,
                RowsOf, DequeRows
  <1>5. \A m : ~(m \in cursor.mems /\ m \in cursor.tabs)
    <2> SUFFICES ASSUME NEW m \in cursor.mems, m \in cursor.tabs PROVE FALSE
      OBVIOUS
    <2>1. m \in MemCursors /\ m \in TableCursors
      BY DEF ScanTypeOK
    <2>2. DOMAIN m = {"object", "left"} /\ DOMAIN m = {"id", "left"}
      BY <2>1 DEF MemCursors, TableCursors
    <2>3. QED BY <2>2
  <1>6. CASE ReadMem
    <2>1. PICK m, row :
            /\ m \in cursor.mems /\ row \in m.left /\ Return(row)
            /\ cursor' = [cursor EXCEPT !.mems = WithoutRow(@, m, row)]
      BY <1>6 DEF ReadMem
    <2>2. PICK n : n = [m EXCEPT !.left = @ \ {row}]
      OBVIOUS
    <2>3. n.left = m.left \ {row} /\ m \in Sources
      BY <2>1, <2>2 DEF ScanTypeOK, MemCursors, Sources
    <2>4. /\ cursor'.act = cursor.act /\ cursor'.tabs = cursor.tabs
          /\ cursor'.mems = (cursor.mems \ {m}) \cup {x \in {n} : x.left # {}}
      BY <2>1, <2>2 DEF ScanTypeOK, WithoutRow
    <2>5. Sources' = (Sources \ {m}) \cup {x \in {n} : x.left # {}}
      BY <1>5, <2>1, <2>4 DEF Sources
    <2>6. UNCHANGED <<vars, gen, snapshot>>
      BY <1>6 DEF ReadMem
    <2>7. QED BY <1>4, <2>1, <2>3, <2>4, <2>5, <2>6, SourceRead
  <1>7. CASE ReadTable
    <2>1. PICK m, row :
            /\ m \in cursor.tabs /\ row \in m.left /\ Return(row)
            /\ cursor' = [cursor EXCEPT !.tabs = WithoutRow(@, m, row)]
      BY <1>7 DEF ReadTable
    <2>2. PICK n : n = [m EXCEPT !.left = @ \ {row}]
      OBVIOUS
    <2>3. n.left = m.left \ {row} /\ m \in Sources
      BY <2>1, <2>2 DEF ScanTypeOK, TableCursors, Sources
    <2>4. /\ cursor'.act = cursor.act /\ cursor'.mems = cursor.mems
          /\ cursor'.tabs = (cursor.tabs \ {m}) \cup {x \in {n} : x.left # {}}
      BY <2>1, <2>2 DEF ScanTypeOK, WithoutRow
    <2>5. Sources' = (Sources \ {m}) \cup {x \in {n} : x.left # {}}
      BY <1>5, <2>1, <2>4 DEF Sources
    <2>6. UNCHANGED <<vars, gen, snapshot>>
      BY <1>7 DEF ReadTable
    <2>7. QED BY <1>4, <2>1, <2>3, <2>4, <2>5, <2>6, SourceRead
  <1>8. CASE CloseScan
    BY <1>8, NoCursorRead DEF CloseScan
  <1>9. CASE UNCHANGED allVars
    BY <1>4, <1>9, SilentRead DEF allVars, scanVars
  <1>10. QED
    BY <1>1, <1>2, <1>3, <1>6, <1>7, <1>8, <1>9 DEF ScanNext

-----------------------------------------------------------------------------
(* What follows.                                                           *)

(* A scan does nothing to the tree.                                        *)
THEOREM ScanRefinesTree == ScanSpec => Spec
  <1>1. ScanInit => Init
    BY DEF ScanInit
  <1>2. QED BY <1>1, ScanStepIsStep, PTL DEF ScanSpec, Spec

(* The inductive invariant of a tree with a cursor.                        *)
THEOREM ScanInvariant ==
    ASSUME SingleDrainer, ~CrashInWindow
    PROVE  ScanSpec => []ScanInv
  <1>1. ScanInit => ScanInv
    <2>1. ScanInit => MapInv
      BY FS_EmptySet DEF ScanInit, Init, MapInv, OneRowPerKey
    <2>2. ScanInit => PinInv
      BY DEF ScanInit, PinInv, NoCursor
    <2>3. QED BY <2>1, <2>2, InitScanType, InitCache, InitRead DEF ScanInv
  <1>2. WholeInv /\ WholeInv' /\ ScanInv /\ [ScanNext]_allVars => ScanInv'
    <2> SUFFICES ASSUME WholeInv, WholeInv', ScanInv, [ScanNext]_allVars
                 PROVE  ScanInv'
      OBVIOUS
    <2>1. /\ TreeInv /\ TreeInv' /\ BoundsInv /\ TypeOK /\ [Next]_vars
          /\ ScanTypeOK /\ CacheInv /\ PinInv /\ MapInv /\ ReadInv
      BY ScanStepIsStep DEF WholeInv, TreeInv, ScanInv
    <2>2. ScanTypeOK'
      BY <2>1, NextScanType
    <2>3. CacheInv' /\ PinInv' /\ MapInv'
      BY <2>1, NextCache, NextPin, NextMap
    <2>4. ReadInv'
      BY <2>1, <2>2, NextRead
    <2>5. QED BY <2>2, <2>3, <2>4 DEF ScanInv
  <1>3. QED BY <1>1, <1>2, ScanRefinesTree, WholeInvariant, PTL DEF ScanSpec

(* No row is returned twice, and none is lost to the flushes and           *)
(* compactions that go on while the cursor is read.                        *)
THEOREM NoRowLostOrRepeated ==
    ASSUME SingleDrainer, ~CrashInWindow
    PROVE  ScanSpec => []ScanComplete
  <1>1. ScanInv => ScanComplete
    <2> SUFFICES ASSUME ScanInv, cursor.open
                 PROVE  ~repeated /\ (Exhausted => \A r \in snapshot \ out :
                                       \E s \in Visible : s.key = r.key /\ s.seq > r.seq)
      BY DEF ScanComplete
    <2>1. Exhausted => Left = {} /\ cursor.act = {}
      BY DEF Exhausted, Left, Sources
    <2>2. QED BY <2>1 DEF ScanInv, ReadInv, CompleteInv, Superseded
  <1>2. QED BY <1>1, ScanInvariant, PTL

(* The frozen memtables and the tables of a cursor outlive it.             *)
THEOREM CursorKeepsItsSources ==
    ASSUME SingleDrainer, ~CrashInWindow
    PROVE  ScanSpec => []PinnedBacked
  <1>1. ScanInv => PinnedBacked
    BY DEF ScanInv, PinInv, PinnedBacked, MemBacked, TableBacked
  <1>2. QED BY <1>1, ScanInvariant, PTL

(* What is cached of a table is what the table holds: no id comes to stand *)
(* for another table while the process lives.                              *)
THEOREM CachesAreCurrent ==
    ASSUME SingleDrainer, ~CrashInWindow
    PROVE  ScanSpec => []CacheCurrent
  <1>1. ScanInv => CacheCurrent
    BY DEF ScanInv, CacheInv
  <1>2. QED BY <1>1, ScanInvariant, PTL
=============================================================================
