------------------------------ MODULE LSMTree ------------------------------
(***************************************************************************)
(* One LSM tree: client threads insert rows and wait for compaction, and   *)
(* the drain loop flushes frozen memtables to level-0 SSTables and merges  *)
(* levels.  In background mode the loop runs on a worker thread; in        *)
(* synchronous mode it runs on the thread that called insert() or          *)
(* wait_for_compaction().  The loop gives up mutex_ while it writes an     *)
(* SSTable.                                                                *)
(*                                                                         *)
(* What survives a crash is `disk' (the SSTable directories) and           *)
(* `manifest' (manifest.bin); everything else is process memory.           *)
(***************************************************************************)
EXTENDS MemoryLayer, CompactionPolicy

CONSTANTS
    Clients,          \* threads that call the public methods
    Worker,           \* the background thread
    Background,       \* is_compaction_background
    FileSizes,        \* the sizes an SSTable may turn out to have on disk
    CrashInWindow,    \* may the process die between delete and save?
    MaxInserts,       \* bound on inserts
    MaxFaults         \* bound on crashes and failed writes

ASSUME TreeAssumption ==
    /\ Worker \notin Clients
    /\ Background \in BOOLEAN
    /\ FileSizes \subseteq Nat
    /\ CrashInWindow \in BOOLEAN
    /\ MaxInserts \in Nat
    /\ MaxFaults \in Nat

VARIABLES
    active,        \* memory_layer_.active_: a set of rows
    immutables,    \* memory_layer_.immutables_: oldest first
    registry,      \* registry_
    next_sst_id,   \* next_sst_id_
    disk,          \* sst_<id>.sst directories: id -> rows; {} is unfinished
    manifest,      \* manifest.bin; an absent file is the empty manifest
    mutex,         \* mutex_: the set of its holders, {} or {t}
    worker_busy,   \* worker_busy_
    stop,          \* stop_
    pc,            \* where each thread is
    job,           \* the locals of flush_one_locked / compact_one_locked
    phase,         \* "open", "closing" (destructor), "joining", "closed"
    durable,       \* history: the rows of the last saved manifest
    inserts,       \* history: inserts so far; numbers the rows
    adds,          \* history: calls of registry_.add so far
    faults         \* history: crashes and failed writes so far

memory == <<active, immutables>>
catalog == <<registry, next_sst_id>>
files == <<disk, manifest, durable>>
flags == <<worker_busy, stop>>
threads == <<pc, job>>
counters == <<inserts, adds, faults>>
vars == <<memory, catalog, files, mutex, flags, threads, phase, counters>>

Threads == Clients \cup {Worker}

(* The threads that may run the drain loop.                                *)
Drainers == IF Background THEN {Worker} ELSE Clients

Job == [id : Nat, level : Nat, layout : Layouts, rows : SUBSET Row,
        olds : SUBSET Info, min_key : Int, max_key : Int, size : Nat]

NewJob(id, level, layout, rows, olds) ==
    [id |-> id, level |-> level, layout |-> layout, rows |-> rows,
     olds |-> olds, min_key |-> 0, max_key |-> 0, size |-> 0]

NoJob == NewJob(0, 0, "ROW", {}, {})

(* j once its table is built, and j with fewer old tables to remove.       *)
BuiltJob(j, rows, min_key, max_key, size) ==
    [id |-> j.id, level |-> j.level, layout |-> j.layout, rows |-> rows,
     olds |-> j.olds, min_key |-> min_key, max_key |-> max_key, size |-> size]

JobWithOlds(j, olds) ==
    [id |-> j.id, level |-> j.level, layout |-> j.layout, rows |-> j.rows,
     olds |-> olds, min_key |-> j.min_key, max_key |-> j.max_key,
     size |-> j.size]

PC == {"idle", "waitcheck", "asleep",                \* clients
       "waiting", "exited",                          \* the worker
       "draining", "flushing", "flushed", "compacting",
       "compacted", "removing", "saving"}            \* the drain loop

EmptyManifest == [entries |-> {}, next |-> 0]

(* The threads of a process that has just started, or has ended.           *)
StartedThreads ==
    [t \in Threads |-> IF t \in Clients THEN "idle"
                       ELSE IF Background THEN "waiting" ELSE "exited"]
EndedThreads == [t \in Threads |-> IF t \in Clients THEN "idle" ELSE "exited"]

-----------------------------------------------------------------------------
(* What the tables hold.                                                   *)

RowsOf(info) == IF info.id \in DOMAIN disk THEN disk[info.id] ELSE {}
TablesRows(infos) == UNION {RowsOf(i) : i \in infos}

(* The rows a full scan reads while the tree is open, and the rows a       *)
(* reopened tree would read once it is closed.                             *)
Visible ==
    IF phase = "closed"
      THEN TablesRows(manifest.entries)
      ELSE active \cup DequeRows(immutables) \cup TablesRows(registry)

InRange(rows, from, to) ==
    {r \in rows : (\A f \in from : r.key >= f) /\ (\A t \in to : r.key < t)}

(* scan(): the rows of [from, to), from the active memtable, from every    *)
(* frozen one and from the overlapping tables of every level.              *)
ScanRows(from, to) ==
    LET levels == {i.level : i \in registry}
        tables == UNION {Overlapping(registry, level, from, to) :
                            level \in levels}
    IN  InRange(active \cup DequeRows(immutables) \cup TablesRows(tables),
                from, to)

(* has_pending_work_locked()                                               *)
HasPendingWork == immutables # <<>> \/ Pick(registry) # {}

-----------------------------------------------------------------------------
Init ==
    /\ active = {}
    /\ immutables = <<>>
    /\ registry = {}
    /\ next_sst_id = 0
    /\ disk = [id \in {} |-> {}]
    /\ manifest = EmptyManifest
    /\ mutex = {}
    /\ worker_busy = FALSE
    /\ stop = FALSE
    /\ pc = StartedThreads
    /\ job = [t \in Threads |-> NoJob]
    /\ phase = "open"
    /\ durable = {}
    /\ inserts = 0
    /\ adds = 0
    /\ faults = 0

(* lock() by t and unlock(): the mutex is free exactly when nobody holds   *)
(* it.                                                                     *)
Lock(t) == mutex = {} /\ mutex' = {t}
Unlock == mutex' = {}
Goto(t, label) == pc' = [pc EXCEPT ![t] = label]

(* A missing notification.                                                 *)
NotifyNobody(pcs) == pcs

(* idle_cv_.notify_all()                                                   *)
NotifyIdle(pcs) ==
    [t \in Threads |-> IF pcs[t] = "asleep" THEN "waitcheck" ELSE pcs[t]]

-----------------------------------------------------------------------------
(* The public methods.                                                     *)

(* insert(row): background mode leaves the work to the worker; synchronous *)
(* mode keeps the lock and drains on this thread.  notify_one() on         *)
(* worker_cv_ only shortens the worker's sleep: its wait has a timeout.    *)
Insert(c, k) ==
    /\ phase = "open"
    /\ pc[c] = "idle"
    /\ mutex = {}
    /\ inserts < MaxInserts
    /\ inserts' = inserts + 1
    /\ LET table == MemTableInsert(active, [key |-> k, seq |-> inserts + 1])
       IN  IF MustFreeze(table)
             THEN /\ active' = {}
                  /\ immutables' = PushBack(immutables,
                                            ToSortedImmutable(table))
             ELSE active' = table /\ immutables' = immutables
    /\ IF Background
         THEN UNCHANGED <<mutex, pc>>
         ELSE mutex' = {c} /\ Goto(c, "draining")
    /\ UNCHANGED <<catalog, files, flags, job, phase, adds, faults>>

(* wait_for_compaction(): synchronous mode drains; background mode goes to *)
(* sleep on idle_cv_ until the predicate holds.                            *)
WaitForCompaction(c) ==
    /\ phase = "open"
    /\ pc[c] = "idle"
    /\ mutex = {}
    /\ IF Background
         THEN mutex' = mutex /\ Goto(c, "waitcheck")
         ELSE mutex' = {c} /\ Goto(c, "draining")
    /\ UNCHANGED <<memory, catalog, files, flags, job, phase, counters>>

(* The predicate without the test for pending work.                        *)
IdleIgnoresQueue == stop \/ ~worker_busy

(* idle_cv_.wait: the predicate is evaluated under mutex_, at the call and *)
(* after every wakeup.                                                     *)
IdlePredicate == stop \/ (~worker_busy /\ ~HasPendingWork)

WaitCheck(c) ==
    /\ pc[c] = "waitcheck"
    /\ mutex = {}
    /\ Goto(c, IF IdlePredicate THEN "idle" ELSE "asleep")
    /\ UNCHANGED <<memory, catalog, files, mutex, flags, job, phase, counters>>

(* std::condition_variable may wake a waiter without a notification.       *)
SpuriousWakeup(c) ==
    /\ pc[c] = "asleep"
    /\ Goto(c, "waitcheck")
    /\ UNCHANGED <<memory, catalog, files, mutex, flags, job, phase, counters>>

-----------------------------------------------------------------------------
(* The drain loop, drain_work_locked().  At "draining" the thread holds    *)
(* mutex_ and is at the loop test.                                         *)

(* flush_one_locked() up to unlock(): the oldest frozen memtable is taken, *)
(* not removed, and an id is reserved.  Its size()==0 branch cannot be     *)
(* taken: a memtable is frozen right after an insert (TypeOK says so).     *)
BeginFlush(t) ==
    /\ pc[t] = "draining"
    /\ ~stop
    /\ immutables # <<>>
    /\ next_sst_id' = next_sst_id + 1
    /\ job' = [job EXCEPT ![t] =
                 NewJob(next_sst_id, 0, "ROW", Head(immutables), {})]
    /\ disk' = [id \in DOMAIN disk \cup {next_sst_id} |->
                  IF id = next_sst_id THEN {} ELSE disk[id]]
    /\ Goto(t, "flushing")
    /\ Unlock
    /\ UNCHANGED <<memory, registry, manifest, durable, flags, phase, counters>>

(* A compaction that reads next_sst_id_ and does not advance it.           *)
BeginCompactKeepsId(t) ==
    /\ pc[t] = "draining"
    /\ ~stop
    /\ immutables = <<>>
    /\ \E task \in Pick(registry) :
         job' = [job EXCEPT ![t] =
                   NewJob(next_sst_id, task.dst, task.layout, {},
                          AtLevel(registry, task.src))]
    /\ disk' = [id \in DOMAIN disk \cup {next_sst_id} |->
                  IF id = next_sst_id THEN {} ELSE disk[id]]
    /\ Goto(t, "compacting")
    /\ Unlock
    /\ UNCHANGED <<memory, catalog, manifest, durable, flags, phase, counters>>

(* compact_one_locked() up to unlock(): the candidates are a copy of the   *)
(* whole source level.                                                     *)
BeginCompact(t) ==
    /\ pc[t] = "draining"
    /\ ~stop
    /\ immutables = <<>>
    /\ \E task \in Pick(registry) :
         job' = [job EXCEPT ![t] =
                   NewJob(next_sst_id, task.dst, task.layout, {},
                          AtLevel(registry, task.src))]
    /\ next_sst_id' = next_sst_id + 1
    /\ disk' = [id \in DOMAIN disk \cup {next_sst_id} |->
                  IF id = next_sst_id THEN {} ELSE disk[id]]
    /\ Goto(t, "compacting")
    /\ Unlock
    /\ UNCHANGED <<memory, registry, manifest, durable, flags, phase, counters>>

(* The rows a builder is given: the frozen memtable, or the merge of the   *)
(* candidates, read from disk.                                             *)
SourceRows(t) == job[t].rows \cup TablesRows(job[t].olds)

(* The builder has written the whole directory of job[t].id and returned   *)
(* the key bounds and the size; mutex_ is not held.                        *)
BuildTable(t) ==
    /\ \E lo, hi \in SourceRows(t), size \in FileSizes :
         /\ \A r \in SourceRows(t) : lo.key <= r.key /\ r.key <= hi.key
         /\ job' = [job EXCEPT ![t] =
                      BuiltJob(@, SourceRows(t), lo.key, hi.key, size)]
    /\ disk' = [disk EXCEPT ![job[t].id] = SourceRows(t)]

(* RowSSTableBuilder on the frozen memtable.                               *)
WriteFlush(t) ==
    /\ pc[t] = "flushing"
    /\ BuildTable(t)
    /\ Goto(t, "flushed")
    /\ UNCHANGED <<memory, catalog, manifest, durable, mutex, flags, phase,
                   counters>>

(* CompactionJob::run opens every candidate, then merges; a candidate      *)
(* whose directory is gone makes it throw (see WriteThrows).               *)
SourcesReadable(t) == \A o \in job[t].olds : o.id \in DOMAIN disk

WriteCompaction(t) ==
    /\ pc[t] = "compacting"
    /\ SourcesReadable(t)
    /\ BuildTable(t)
    /\ Goto(t, "compacted")
    /\ UNCHANGED <<memory, catalog, manifest, durable, mutex, flags, phase,
                   counters>>

(* An exception while a table is written leaves an unfinished directory.   *)
(* In synchronous mode it propagates out of insert() and nothing else has  *)
(* changed; on the worker thread it escapes the thread function, which is  *)
(* std::terminate and so Crash below.                                      *)
WriteThrows(t) ==
    /\ pc[t] \in {"flushing", "compacting"}
    /\ ~Background
    /\ SourcesReadable(t) => faults < MaxFaults
    /\ faults' = IF SourcesReadable(t) THEN faults + 1 ELSE faults
    /\ job' = [job EXCEPT ![t] = NoJob]
    /\ Goto(t, "idle")
    /\ UNCHANGED <<memory, catalog, files, mutex, flags, phase, inserts, adds>>

(* The SSTableInfo of the finished table; pos is set by Add.               *)
NewInfo(t) ==
    [id |-> job[t].id, level |-> job[t].level, pos |-> 0,
     min_key |-> job[t].min_key, max_key |-> job[t].max_key,
     size |-> job[t].size, layout |-> job[t].layout]

(* flush_one_locked() from lock(): register, then pop the queue.           *)
CommitFlush(t) ==
    /\ pc[t] = "flushed"
    /\ Lock(t)
    /\ registry' = Add(registry, NewInfo(t), adds)
    /\ adds' = adds + 1
    /\ immutables' = PopFront(immutables)
    /\ Goto(t, "saving")
    /\ UNCHANGED <<active, next_sst_id, files, flags, job, phase, inserts,
                   faults>>

(* compact_one_locked() from lock(): register the new table ...            *)
CommitCompaction(t) ==
    /\ pc[t] = "compacted"
    /\ Lock(t)
    /\ registry' = Add(registry, NewInfo(t), adds)
    /\ adds' = adds + 1
    /\ Goto(t, "removing")
    /\ UNCHANGED <<memory, next_sst_id, files, flags, job, phase, inserts,
                   faults>>

(* ... then, candidate by candidate, unregister it and delete its files.   *)
RemoveOld(t) ==
    /\ pc[t] = "removing"
    /\ \E o \in job[t].olds :
         /\ \A p \in job[t].olds : o.pos <= p.pos
         /\ registry' = Remove(registry, o.id)
         /\ disk' = [id \in DOMAIN disk \ {o.id} |-> disk[id]]
         /\ job' = [job EXCEPT ![t] = JobWithOlds(@, @.olds \ {o})]
         /\ Goto(t, IF job[t].olds = {o} THEN "saving" ELSE "removing")
    /\ UNCHANGED <<memory, next_sst_id, manifest, durable, mutex, flags, phase,
                   counters>>

(* A manifest with the id of the last table as the next one, and one whose *)
(* loop over the levels ends one level early.                              *)
ManifestReusesId(reg, next) == [entries |-> reg, next |-> next - 1]
ManifestSkipsLastLevel(reg, next) ==
    [entries |-> {i \in reg : \E j \in reg : j.level > i.level},
     next |-> next]

(* SSTableManifest::save: all levels and the next id; load reads back the  *)
(* same entries, in the same order within a level.                         *)
ManifestOf(reg, next) == [entries |-> reg, next |-> next]

(* save_manifest_locked(): manifest.tmp replaces manifest.bin in one       *)
(* rename; then back to the loop test.                                     *)
SaveManifest(t) ==
    /\ pc[t] = "saving"
    /\ manifest' = ManifestOf(registry, next_sst_id)
    /\ durable' = TablesRows(registry)
    /\ job' = [job EXCEPT ![t] = NoJob]
    /\ Goto(t, "draining")
    /\ UNCHANGED <<memory, catalog, disk, mutex, flags, phase, counters>>

(* Between the first deletion and the save of a compaction the manifest    *)
(* names tables that are gone.                                             *)
DeleteWindow ==
    \E t \in Threads : \/ pc[t] = "removing"
                       \/ pc[t] = "saving" /\ job[t].level > 0

(* A save that empties manifest.bin before it fails.                       *)
SaveTruncates(t) ==
    /\ pc[t] = "saving"
    /\ ~Background
    /\ faults < MaxFaults
    /\ DeleteWindow => CrashInWindow
    /\ faults' = faults + 1
    /\ manifest' = EmptyManifest
    /\ job' = [job EXCEPT ![t] = NoJob]
    /\ Goto(t, "idle")
    /\ Unlock
    /\ UNCHANGED <<memory, catalog, disk, durable, flags, phase, inserts, adds>>

(* save() throws when it cannot open manifest.tmp or rename it: the old    *)
(* manifest stays, the registry does not go back.  In synchronous mode the *)
(* exception leaves insert() and releases mutex_; on the worker it is      *)
(* std::terminate and so Crash below.                                      *)
SaveFails(t) ==
    /\ pc[t] = "saving"
    /\ ~Background
    /\ faults < MaxFaults
    /\ DeleteWindow => CrashInWindow
    /\ faults' = faults + 1
    /\ job' = [job EXCEPT ![t] = NoJob]
    /\ Goto(t, "idle")
    /\ Unlock
    /\ UNCHANGED <<memory, catalog, files, flags, phase, inserts, adds>>

(* A loop that ends when the queue is empty, whatever the policy says.     *)
DrainIgnoresPolicy == stop \/ immutables = <<>>

(* The loop test of drain_work_locked() fails.                             *)
DrainDone == stop \/ ~HasPendingWork

(* A loop that is never left.                                              *)
EndDrainNever(t) == pc[t] = "draining" /\ DrainDone /\ UNCHANGED vars

(* The loop is left.  A client returns; the worker clears its flag and,    *)
(* when nothing is pending, wakes the threads in wait_for_compaction().    *)
EndDrain(t) ==
    /\ pc[t] = "draining"
    /\ DrainDone
    /\ Unlock
    /\ IF t = Worker
         THEN /\ worker_busy' = FALSE
              /\ LET waiting == [pc EXCEPT ![t] = "waiting"]
                 IN  pc' = IF HasPendingWork THEN waiting
                           ELSE NotifyIdle(waiting)
         ELSE worker_busy' = worker_busy /\ Goto(t, "idle")
    /\ UNCHANGED <<memory, catalog, files, stop, job, phase, counters>>

-----------------------------------------------------------------------------
(* compaction_worker_loop()                                                *)

(* A worker that nobody wakes for an insert.                               *)
WorkerWakesForWaiters ==
    /\ pc[Worker] = "waiting"
    /\ ~stop
    /\ \E c \in Clients : pc[c] = "asleep"
    /\ Lock(Worker)
    /\ worker_busy' = TRUE
    /\ Goto(Worker, "draining")
    /\ UNCHANGED <<memory, catalog, files, stop, job, phase, counters>>

(* wait_for() returns on a notification or on the timeout; either way the  *)
(* worker drains.                                                          *)
WorkerWakes ==
    /\ pc[Worker] = "waiting"
    /\ ~stop
    /\ Lock(Worker)
    /\ worker_busy' = TRUE
    /\ Goto(Worker, "draining")
    /\ UNCHANGED <<memory, catalog, files, stop, job, phase, counters>>

(* A worker that never looks at stop_.                                     *)
WorkerIgnoresStop == pc[Worker] = "waiting" /\ stop /\ UNCHANGED vars

(* stop_ ends the loop; the last act is idle_cv_.notify_all().             *)
WorkerExits ==
    /\ pc[Worker] = "waiting"
    /\ stop
    /\ mutex = {}
    /\ pc' = NotifyIdle([pc EXCEPT ![Worker] = "exited"])
    /\ UNCHANGED <<memory, catalog, files, mutex, flags, job, phase, counters>>

-----------------------------------------------------------------------------
(* The life of the process.                                                *)

(* A destructor that does not wait for the worker first.                   *)
CloseWithoutWait(c) ==
    /\ phase = "open"
    /\ \A d \in Clients : pc[d] = "idle"
    /\ phase' = "closing"
    /\ UNCHANGED <<memory, catalog, files, mutex, flags, threads, counters>>

(* ~LSMTree: called by the owner when no other call is running.            *)
BeginClose(c) ==
    /\ phase = "open"
    /\ \A d \in Clients : pc[d] = "idle"
    /\ phase' = "closing"
    /\ Goto(c, IF Background THEN "waitcheck" ELSE "idle")
    /\ UNCHANGED <<memory, catalog, files, mutex, flags, job, counters>>

(* wait_for_compaction() has returned: stop_ = true, notify_all().         *)
SetStop ==
    /\ phase = "closing"
    /\ \A d \in Clients : pc[d] = "idle"
    /\ mutex = {}
    /\ stop' = TRUE
    /\ phase' = "joining"
    /\ UNCHANGED <<memory, catalog, files, mutex, worker_busy, threads,
                   counters>>

(* The process is gone: memory, threads and lock with it.                  *)
LoseMemory ==
    /\ active' = {}
    /\ immutables' = <<>>
    /\ registry' = {}
    /\ next_sst_id' = 0
    /\ mutex' = {}
    /\ worker_busy' = FALSE
    /\ stop' = FALSE
    /\ pc' = EndedThreads
    /\ job' = [t \in Threads |-> NoJob]
    /\ phase' = "closed"

(* worker_.join() has returned and the members are destroyed.  The active  *)
(* memtable is not flushed.                                                *)
EndClose ==
    /\ phase = "joining"
    /\ pc[Worker] = "exited"
    /\ LoseMemory
    /\ UNCHANGED <<files, counters>>

(* The process dies, or std::terminate ends it.                            *)
Crash ==
    /\ phase # "closed"
    /\ faults < MaxFaults
    /\ DeleteWindow => CrashInWindow
    /\ faults' = faults + 1
    /\ LoseMemory
    /\ UNCHANGED <<files, inserts, adds>>

(* LSMTree::LSMTree: SSTableManifest::load, then the worker is started.    *)
Open ==
    /\ phase = "closed"
    /\ registry' = manifest.entries
    /\ next_sst_id' = manifest.next
    /\ pc' = StartedThreads
    /\ phase' = "open"
    /\ UNCHANGED <<memory, files, mutex, flags, job, counters>>

-----------------------------------------------------------------------------
DrainStep(t) ==
    \/ BeginFlush(t) \/ WriteFlush(t) \/ CommitFlush(t)
    \/ BeginCompact(t) \/ WriteCompaction(t) \/ CommitCompaction(t)
    \/ RemoveOld(t) \/ SaveManifest(t) \/ EndDrain(t)

ClientStep(c) ==
    \/ \E k \in Keys : Insert(c, k)
    \/ WaitForCompaction(c) \/ WaitCheck(c) \/ SpuriousWakeup(c)
    \/ BeginClose(c)

Next ==
    \/ \E c \in Clients : ClientStep(c)
    \/ \E t \in Threads : DrainStep(t) \/ WriteThrows(t) \/ SaveFails(t)
    \/ WorkerWakes \/ WorkerExits
    \/ SetStop \/ EndClose \/ Crash \/ Open

Spec == Init /\ [][Next]_vars

(* Scheduling: a thread that can take a step takes it, wait_for() times    *)
(* out, and a thread that finds mutex_ free again and again gets it.       *)
Fairness ==
    /\ \A t \in Threads : WF_vars(DrainStep(t))
    /\ WF_vars(WorkerWakes)
    /\ WF_vars(WorkerExits)
    /\ \A c \in Clients : SF_vars(WaitCheck(c))
    /\ SF_vars(SetStop)
    /\ WF_vars(EndClose)

FairSpec == Spec /\ Fairness

-----------------------------------------------------------------------------
(* Properties.                                                             *)

(* Every variable has its type; in particular a frozen memtable is never   *)
(* empty (so the size()==0 branch of flush_one_locked is dead) and at most *)
(* one thread holds mutex_.                                                *)
TypeOK ==
    /\ active \in SUBSET Row
    /\ immutables \in Seq((SUBSET Row) \ {{}})
    /\ registry \in SUBSET Info
    /\ next_sst_id \in Nat
    /\ DOMAIN disk \subseteq Nat
    /\ \A id \in DOMAIN disk : disk[id] \in SUBSET Row
    /\ manifest \in [entries : SUBSET Info, next : Nat]
    /\ mutex = {} \/ \E t \in Threads : mutex = {t}
    /\ worker_busy \in BOOLEAN
    /\ stop \in BOOLEAN
    /\ pc \in [Threads -> PC]
    /\ job \in [Threads -> Job]
    /\ phase \in {"open", "closing", "joining", "closed"}
    /\ durable \in SUBSET Row
    /\ inserts \in 0 .. MaxInserts
    /\ adds \in Nat
    /\ faults \in 0 .. MaxFaults

(* The instants at which another thread may look at the tree.              *)
Quiet == mutex = {} /\ phase # "closed"

(* Whenever mutex_ is free, every row a scan can see is in exactly one     *)
(* memtable or SSTable: flush_one_locked hands a memtable over to level 0  *)
(* and compact_one_locked hands a level over to the next one without a     *)
(* moment at which a scan returns a row twice.                             *)
EachRowOnce ==
    Quiet =>
      /\ active \cap DequeRows(immutables) = {}
      /\ TablesRows(registry) \cap (active \cup DequeRows(immutables)) = {}
      /\ \A i, j \in 1 .. Len(immutables) :
           i # j => immutables[i] \cap immutables[j] = {}
      /\ \A a, b \in registry : a # b => RowsOf(a) \cap RowsOf(b) = {}

(* A registered SSTable is on disk, complete, from registry_.add to        *)
(* registry_.remove, so a scan never opens a directory that is missing or  *)
(* unfinished (make_sstable_cursor would throw, or skip its rows).         *)
RegisteredOnDisk ==
    \A i \in registry : i.id \in DOMAIN disk /\ disk[i.id] # {}

OptKeys == {{}} \cup {{k} : k \in Keys}

(* scan(): skipping the tables whose [min_key, max_key] misses the range   *)
(* loses no row, whichever tables flushes and compactions have built.      *)
RangeScanComplete ==
    Quiet => \A from, to \in OptKeys :
               ScanRows(from, to) = InRange(Visible, from, to)

Older(A, B) == \A a \in A, b \in B : a.seq < b.seq

(* The order in which scan() visits its sources is an order of age: the    *)
(* active memtable is the newest, the queue is oldest first, level vectors *)
(* are oldest first, and a deeper level is older than a shallower one.     *)
AgeOrdered ==
    Quiet =>
      /\ Older(TablesRows(registry), active \cup DequeRows(immutables))
      /\ Older(DequeRows(immutables), active)
      /\ \A i, j \in 1 .. Len(immutables) :
           i < j => Older(immutables[i], immutables[j])
      /\ \A a, b \in registry :
           \/ a.level > b.level
           \/ a.level = b.level /\ a.pos < b.pos
           => Older(RowsOf(a), RowsOf(b))

(* A builder never writes into a directory that the registry or the        *)
(* manifest on disk names, although ids are reused after a crash that      *)
(* happened before the manifest was saved.                                 *)
JobDirPrivate ==
    \A t \in Threads :
      pc[t] \in {"flushing", "flushed", "compacting", "compacted"} =>
        /\ job[t].id < next_sst_id
        /\ \A i \in registry \cup manifest.entries : i.id # job[t].id

(* "oldest immutable memtable -> L0 SSTable" (lsmtree.hpp): the memtable   *)
(* that flush_one_locked is writing with mutex_ released stays at the      *)
(* front of the queue, so that the pop after it drops that memtable.       *)
FlushTakesOldest ==
    \A t \in Threads :
      pc[t] \in {"flushing", "flushed"} =>
        immutables # <<>> /\ Head(immutables) = job[t].rows

(* Rows that a saved manifest covered are readable from the files that a   *)
(* crash or a close leaves behind (SSTableManifest replaces the file       *)
(* atomically, see sstable_manifest.hpp).                                  *)
DurableSurvives == phase = "closed" => durable \subseteq Visible

(* config.hpp: level i holds size_ratio^i * base_level_size_bytes bytes,   *)
(* so a level within that bound is not compacted.                          *)
CapacityRespected ==
    \A task \in Pick(registry) :
      task.src > 0 =>
        LevelSize(registry, task.src) > BaseSize * SizeRatio ^ task.src

(* Rows with the same primary key are the same row.                        *)
UniqueKeys == Quiet => OneRowPerKey(Visible)

(* wait_for_compaction() is a barrier: when it returns, every row that is  *)
(* not in the active memtable is covered by the manifest on disk, and no   *)
(* work is pending.  The same holds when a synchronous drain returns.      *)
BarrierDurable ==
    [][\A c \in Clients :
         /\ pc[c] \in {"waitcheck", "draining"}
         /\ pc'[c] = "idle"
         /\ phase' # "closed"
         => Visible \ active \subseteq durable /\ ~HasPendingWork]_vars

(* ~LSMTree loses the active memtable (it has no log and is not flushed)   *)
(* and nothing else: frozen memtables reach the disk before the end.       *)
CloseLosesOnlyActive ==
    [][phase = "joining" /\ phase' = "closed" /\ faults' = faults
         => Visible' = Visible \ active]_vars

Mode == IF phase = "closed" THEN "down" ELSE "up"

(* The tree implements the abstract store: while it is open, flushes and   *)
(* compactions change nothing that a reader sees and no row is lost;       *)
(* durable rows are never replaced, and survive a close and a crash.       *)
Store == INSTANCE RowStore
           WITH Rows <- [key : Keys, seq : 1 .. MaxInserts],
                rows <- Visible, durable <- durable, mode <- Mode
ImplementsRowStore == Store!StoreSpec

(* wait_for_compaction() returns: no notification is lost, and the cascade *)
(* of compactions ends.                                                    *)
WaitReturns ==
    \A c \in Clients : pc[c] \in {"waitcheck", "asleep"} ~> pc[c] = "idle"

(* ~LSMTree ends: the worker sees stop_ and is joined.                     *)
CloseEnds == phase = "closing" ~> phase = "closed"

(* Frozen memtables are flushed and overfull levels compacted although     *)
(* nobody calls wait_for_compaction().                                     *)
WorkIsDone == HasPendingWork ~> ~HasPendingWork

(* insert() returns in synchronous mode: its drain loop ends.              *)
InsertReturns == \A c \in Clients : pc[c] = "draining" ~> pc[c] = "idle"
=============================================================================
