----------------------------- MODULE LSMTreeInv ----------------------------
(***************************************************************************)
(* The inductive invariant behind the safety properties of LSMTree, as a   *)
(* conjunction of named parts.  Its first part holds in every mode; the    *)
(* others when at most one thread runs the drain loop and no crash falls   *)
(* between the deletion of compacted tables and the save of the manifest.  *)
(***************************************************************************)
EXTENDS LSMTree

(* Background mode, or synchronous mode used from a single thread.         *)
SingleDrainer == \A t, u \in Drainers : t = u

LockedPC == {"draining", "removing", "saving"}
JobPC == {"flushing", "flushed", "compacting", "compacted"}
DrainPC == LockedPC \cup JobPC
BusyPC == JobPC \cup {"removing", "saving"}   \* with a job

(* mutex_ is held by exactly the thread that is inside the locked part of  *)
(* the drain loop, only drainers are in the loop, and a closed tree (in    *)
(* synchronous mode also one that is being closed) has no thread in it.    *)
ControlInv ==
    /\ \A t \in Threads : pc[t] \in LockedPC <=> mutex = {t}
    /\ \A t \in Threads : pc[t] \in DrainPC => t \in Drainers
    /\ phase = "closed" =>
         /\ \A t \in Threads : pc[t] \in {"idle", "exited"}
         /\ active = {} /\ immutables = <<>> /\ registry = {}
         /\ next_sst_id = 0
    /\ ~Background /\ phase \in {"closing", "joining"} =>
         \A t \in Threads : pc[t] \notin DrainPC
    /\ ~Background => pc[Worker] = "exited"

(* Ids: a registered or recorded table has an id below the next one, and   *)
(* ids identify tables.                                                    *)
IdInv ==
    /\ \A i \in registry : i.id < next_sst_id
    /\ \A i \in manifest.entries : i.id < manifest.next
    /\ phase # "closed" => manifest.next <= next_sst_id
    /\ \A a, b \in registry : a.id = b.id => a = b
    /\ \A a, b \in manifest.entries : a.id = b.id => a = b

(* Registered tables are on disk and complete.                             *)
DiskInv == RegisteredOnDisk

(* A running job owns a directory that nothing else names ...              *)
JobDirInv ==
    \A t \in Threads : pc[t] \in JobPC =>
      /\ job[t].id < next_sst_id
      /\ job[t].id \in DOMAIN disk
      /\ \A i \in registry \cup manifest.entries : i.id # job[t].id

(* ... and knows its source: the front of the queue, or a whole level.     *)
JobSourceInv ==
    \A t \in Threads :
      /\ pc[t] \in {"flushing", "flushed"} =>
           /\ immutables # <<>>
           /\ job[t].rows = Head(immutables)
           /\ job[t].olds = {}
           /\ job[t].level = 0
      /\ pc[t] \in {"compacting", "compacted"} =>
           /\ job[t].olds # {}
           /\ job[t].olds \subseteq registry
           /\ job[t].level > 0
      /\ pc[t] = "compacting" => job[t].rows = {}
      /\ pc[t] = "compacted" => job[t].rows = TablesRows(job[t].olds)
      /\ pc[t] \in {"flushed", "compacted"} => disk[job[t].id] = job[t].rows

(* While old tables are removed, the new one holds all their rows, and     *)
(* shares none with the rest of the registry.                              *)
RemovingInv ==
    \A t \in Threads : pc[t] = "removing" =>
      /\ job[t].level > 0
      /\ job[t].olds \subseteq registry
      /\ \A o \in job[t].olds : o.id # job[t].id
      /\ \E n \in registry : n.id = job[t].id
      /\ disk[job[t].id] = job[t].rows
      /\ TablesRows(job[t].olds) \subseteq job[t].rows

(* The memtables and tables share no row, except that the new table of a   *)
(* compaction shares rows with the old ones until they are removed.        *)
Removing(a, b) ==
    \E t \in Threads : /\ pc[t] = "removing"
                       /\ a.id = job[t].id \/ b.id = job[t].id
                       /\ a \in job[t].olds \/ b \in job[t].olds

PartitionInv ==
    /\ active \cap DequeRows(immutables) = {}
    /\ TablesRows(registry) \cap active = {}
    /\ TablesRows(registry) \cap DequeRows(immutables) = {}
    /\ \A i, j \in 1 .. Len(immutables) :
         i # j => immutables[i] \cap immutables[j] = {}
    /\ \A a, b \in registry :
         a # b /\ ~Removing(a, b) => RowsOf(a) \cap RowsOf(b) = {}

(* The manifest on disk never names a table the registry does not, except  *)
(* while a compaction deletes its candidates.  It may lag behind: between  *)
(* the registration of a flushed table and the save, and after a save that *)
(* failed.                                                                 *)
ManifestInv ==
    /\ phase # "closed" /\ ~DeleteWindow => manifest.entries \subseteq registry
    /\ ~DeleteWindow =>
         /\ \A i \in manifest.entries : i.id \in DOMAIN disk /\ disk[i.id] # {}
         /\ \A a, b \in manifest.entries :
              a # b => RowsOf(a) \cap RowsOf(b) = {}
         /\ durable = TablesRows(manifest.entries)
    /\ DeleteWindow => durable \subseteq TablesRows(registry)

(* Rows are numbered by the inserts that made them.                        *)
SeqInv == \A r \in Visible : r.seq \in 1 .. inserts

DataInv ==
    /\ IdInv
    /\ DiskInv
    /\ JobDirInv
    /\ JobSourceInv
    /\ RemovingInv
    /\ PartitionInv
    /\ ManifestInv
    /\ SeqInv

(* The inductive invariant of the safety properties of rows and tables.    *)
TreeInv == TypeOK /\ ControlInv /\ DataInv

-----------------------------------------------------------------------------
(* What wait_for_compaction() and ~LSMTree rely on.                        *)

(* No write fails in a process that goes on: on the worker thread a failed *)
(* write ends the process.                                                 *)
WritesSucceed == Background \/ MaxFaults = 0

(* The flags: stop_ is set only when every other call has returned, and    *)
(* worker_busy_ covers the drain loop of the worker.                       *)
FlagInv ==
    /\ stop => phase = "joining"
    /\ phase = "joining" => \A c \in Clients : pc[c] = "idle"
    /\ Background /\ pc[Worker] \in DrainPC => worker_busy

(* The manifest on disk is the registry, but between a commit and the save *)
(* that follows it.                                                        *)
SavedInv ==
    phase # "closed" /\ (\A t \in Threads : pc[t] \notin {"removing", "saving"})
      => manifest.entries = registry

(* Nothing frozen is left behind: by a synchronous drain loop when it has  *)
(* ended, by the worker once the destructor has returned from its wait.    *)
WaitedFor ==
    \/ phase = "joining"
    \/ phase = "closing" /\ \A c \in Clients : pc[c] = "idle"

QueueInv ==
    /\ ~Background /\ (\A t \in Threads : pc[t] \notin DrainPC) =>
         immutables = <<>>
    /\ Background /\ WaitedFor => ~HasPendingWork /\ pc[Worker] \notin BusyPC

BarrierInv == FlagInv /\ SavedInv /\ QueueInv

-----------------------------------------------------------------------------
(* What scan() relies on.                                                  *)

(* a is visited after b in the order of age: it is at a deeper level, or   *)
(* was added earlier to the same level.                                    *)
Deeper(a, b) ==
    \/ a.level > b.level
    \/ a.level = b.level /\ a.pos < b.pos

(* The sources of a scan are ordered by age, at every instant and not only *)
(* when mutex_ is free; the tables that a reopened tree would read are as  *)
(* well.  A compaction keeps the order because it takes a whole level.     *)
AgeInv ==
    /\ Older(TablesRows(registry), active \cup DequeRows(immutables))
    /\ Older(DequeRows(immutables), active)
    /\ \A i, j \in 1 .. Len(immutables) :
         i < j => Older(immutables[i], immutables[j])
    /\ \A a, b \in registry :
         Deeper(a, b) /\ ~Removing(a, b) => Older(RowsOf(a), RowsOf(b))
    /\ \A a, b \in manifest.entries :
         Deeper(a, b) => Older(RowsOf(a), RowsOf(b))
    /\ \A i \in registry \cup manifest.entries : i.pos < adds
    /\ \A t \in Threads : pc[t] \in {"compacting", "compacted", "removing"} =>
         job[t].olds = AtLevel(registry, job[t].level - 1)

(* The rows of a table lie between its min_key and max_key.                *)
Within(rows, lo, hi) == \A r \in rows : lo <= r.key /\ r.key <= hi

BoundsInv ==
    /\ \A i \in registry \cup manifest.entries :
         Within(RowsOf(i), i.min_key, i.max_key)
    /\ \A t \in Threads : pc[t] \in {"flushed", "compacted"} =>
         Within(job[t].rows, job[t].min_key, job[t].max_key)

-----------------------------------------------------------------------------
(* The whole of it.                                                        *)
WholeInv ==
    /\ TreeInv
    /\ WritesSucceed => BarrierInv
    /\ AgeInv
    /\ BoundsInv
=============================================================================
