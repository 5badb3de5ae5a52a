---------------------------- MODULE LSMTreeProof ---------------------------
(***************************************************************************)
(* Proofs about LSMTree, for every set of clients and keys, every          *)
(* configuration and every number of inserts and faults.                   *)
(***************************************************************************)
EXTENDS LSMTreeInv, SequenceTheorems, FiniteSetTheorems, TLAPS

-----------------------------------------------------------------------------
(* The deque of frozen memtables.                                          *)

(* push_back adds the rows of the new memtable.                            *)
LEMMA PushBackRows ==
    ASSUME NEW imms \in Seq((SUBSET Row) \ {{}}), NEW m \in (SUBSET Row) \ {{}}
    PROVE  /\ PushBack(imms, m) \in Seq((SUBSET Row) \ {{}})
           /\ DequeRows(PushBack(imms, m)) = DequeRows(imms) \cup m
  <1> DEFINE q == PushBack(imms, m)
  <1>1. /\ q \in Seq((SUBSET Row) \ {{}})
        /\ Len(q) = Len(imms) + 1
        /\ \A i \in 1 .. Len(imms) : q[i] = imms[i]
        /\ q[Len(imms) + 1] = m
    BY AppendProperties DEF PushBack
  <1>2. Len(imms) \in Nat
    BY LenProperties
  <1>3. ASSUME NEW r PROVE r \in DequeRows(q) <=> r \in DequeRows(imms) \cup m
    <2>1. r \in DequeRows(q) <=> \E i \in 1 .. Len(q) : r \in q[i]
      BY DEF DequeRows
    <2>2. r \in DequeRows(imms) <=> \E i \in 1 .. Len(imms) : r \in imms[i]
      BY DEF DequeRows
    <2> HIDE DEF q
    <2>3. QED BY <1>1, <1>2, <2>1, <2>2
  <1>4. QED BY <1>1, <1>3

(* pop_front removes the rows of the oldest memtable and no other.         *)
LEMMA PopFrontRows ==
    ASSUME NEW imms \in Seq((SUBSET Row) \ {{}}), imms # <<>>
    PROVE  /\ PopFront(imms) \in Seq((SUBSET Row) \ {{}})
           /\ Head(imms) \in (SUBSET Row) \ {{}}
           /\ DequeRows(imms) = Head(imms) \cup DequeRows(PopFront(imms))
           /\ \A i \in 1 .. Len(PopFront(imms)) :
                i + 1 \in 1 .. Len(imms) /\ PopFront(imms)[i] = imms[i + 1]
           /\ Head(imms) = imms[1] /\ 1 \in 1 .. Len(imms)
  <1> DEFINE q == PopFront(imms)
  <1>1. /\ q \in Seq((SUBSET Row) \ {{}})
        /\ Len(q) = Len(imms) - 1
        /\ \A i \in 1 .. Len(q) : q[i] = imms[i + 1]
        /\ Head(imms) = imms[1]
        /\ Head(imms) \in (SUBSET Row) \ {{}}
        /\ Len(imms) \in Nat /\ Len(imms) >= 1
    BY HeadTailProperties, LenProperties, EmptySeq DEF PopFront
  <1>2. ASSUME NEW r
        PROVE  r \in DequeRows(imms) <=> r \in Head(imms) \cup DequeRows(q)
    <2>1. r \in DequeRows(q) <=> \E i \in 1 .. Len(q) : r \in q[i]
      BY DEF DequeRows
    <2>2. r \in DequeRows(imms) <=> \E i \in 1 .. Len(imms) : r \in imms[i]
      BY DEF DequeRows
    <2>3. ASSUME r \in DequeRows(imms) PROVE r \in Head(imms) \cup DequeRows(q)
      <3>1. PICK i \in 1 .. Len(imms) : r \in imms[i]
        BY <2>2, <2>3
      <3>2. CASE i = 1
        BY <3>1, <3>2, <1>1
      <3>3. CASE i # 1
        <4> HIDE DEF q
        <4>1. i - 1 \in 1 .. Len(q) /\ q[i - 1] = imms[i]
          BY <3>3, <1>1
        <4>2. QED BY <4>1, <3>1, <2>1
      <3>4. QED BY <3>2, <3>3
    <2>4. ASSUME r \in Head(imms) \cup DequeRows(q) PROVE r \in DequeRows(imms)
      <3> HIDE DEF q
      <3>1. CASE r \in Head(imms)
        BY <3>1, <1>1, <2>2
      <3>2. CASE r \in DequeRows(q)
        BY <3>2, <1>1, <2>1, <2>2
      <3>3. QED BY <2>4, <3>1, <3>2
    <2>5. QED BY <2>3, <2>4
  <1>3. QED
    <2> HIDE DEF q
    <2>1. \A i \in 1 .. Len(q) : i + 1 \in 1 .. Len(imms) /\ q[i] = imms[i + 1]
      BY <1>1
    <2>2. DequeRows(imms) = Head(imms) \cup DequeRows(q)
      BY <1>2
    <2>3. QED BY <1>1, <2>1, <2>2 DEF q

-----------------------------------------------------------------------------
(* The policy.                                                             *)

(* pick() names a level that has tables, and the level below it.           *)
LEMMA PickedLevel ==
    ASSUME NEW reg \in SUBSET Info, NEW task \in Pick(reg)
    PROVE  /\ task.src \in Nat
           /\ task.dst = task.src + 1
           /\ task.layout \in Layouts
           /\ AtLevel(reg, task.src) # {}
           /\ AtLevel(reg, task.src) \subseteq reg
  <1>1. PICK level \in IF L0Full(reg) THEN {0} ELSE SizeTriggered(reg) :
             task = [src |-> level, dst |-> level + 1,
                     layout |-> LayoutOf(level + 1)]
    BY DEF Pick
  <1>2. level \in Nat /\ AtLevel(reg, level) # {}
    <2>1. CASE L0Full(reg)
      <3>1. level = 0
        BY <1>1, <2>1
      <3>2. Cardinality(AtLevel(reg, 0)) >= L0Trigger
        BY <2>1 DEF L0Full
      <3>3. AtLevel(reg, 0) # {}
        BY <3>2, FS_EmptySet, PolicyAssumption
      <3>4. QED BY <3>1, <3>3
    <2>2. CASE ~L0Full(reg)
      <3>1. level \in SizeTriggered(reg)
        BY <1>1, <2>2
      <3>2. \E i \in reg : level = i.level
        BY <3>1 DEF SizeTriggered
      <3>3. QED BY <3>2 DEF Info, AtLevel
    <2>3. QED BY <2>1, <2>2
  <1>3. QED BY <1>1, <1>2 DEF LayoutOf, Layouts, AtLevel

-----------------------------------------------------------------------------
(* Type correctness.                                                       *)

(* What the tables hold are rows.                                          *)
LEMMA TableRowsTyped ==
    ASSUME TypeOK, NEW infos
    PROVE  /\ TablesRows(infos) \subseteq Row
           /\ \A i \in infos : RowsOf(i) \subseteq Row
  BY DEF TypeOK, TablesRows, RowsOf

LEMMA NoJobTyped == NoJob \in Job
  BY DEF NoJob, NewJob, Job, Layouts

LEMMA InitTypeOK == Init => TypeOK
  <1> SUFFICES ASSUME Init PROVE TypeOK
    OBVIOUS
  <1>1. job \in [Threads -> Job]
    BY NoJobTyped DEF Init
  <1>2. pc \in [Threads -> PC]
    BY DEF Init, StartedThreads, PC, Threads
  <1>3. immutables \in Seq((SUBSET Row) \ {{}})
    BY EmptySeq DEF Init
  <1>4. inserts \in 0 .. MaxInserts /\ faults \in 0 .. MaxFaults
    BY TreeAssumption DEF Init
  <1>5. QED BY <1>1, <1>2, <1>3, <1>4 DEF Init, TypeOK, EmptyManifest

(* Every step keeps the types.                                             *)
LEMMA NextTypeOK == TypeOK /\ [Next]_vars => TypeOK'
  <1> SUFFICES ASSUME TypeOK, [Next]_vars PROVE TypeOK'
    OBVIOUS
  <1> USE DEF TypeOK, memory, catalog, files, flags, threads, counters
  <1>1. ASSUME NEW c \in Clients, NEW k \in Keys, Insert(c, k) PROVE TypeOK'
    <2> DEFINE row == [key |-> k, seq |-> inserts + 1]
               table == MemTableInsert(active, row)
    <2>1. row \in Row /\ inserts' \in 0 .. MaxInserts
      BY <1>1, TreeAssumption DEF Insert, Row
    <2>2. table \in (SUBSET Row) \ {{}}
      BY <2>1 DEF MemTableInsert
    <2>3. active' \in SUBSET Row /\ immutables' \in Seq((SUBSET Row) \ {{}})
      BY <1>1, <2>2, PushBackRows DEF Insert, ToSortedImmutable
    <2>4. c \in Threads
      BY DEF Threads
    <2>5. pc' \in [Threads -> PC]
          /\ (mutex' = {} \/ \E t \in Threads : mutex' = {t})
      BY <1>1, <2>4 DEF Insert, Goto, PC
    <2>6. QED BY <1>1, <2>1, <2>3, <2>5 DEF Insert
  <1>2. ASSUME NEW c \in Clients,
               \/ WaitForCompaction(c) \/ WaitCheck(c)
               \/ SpuriousWakeup(c) \/ BeginClose(c)
        PROVE  TypeOK'
    <2>1. c \in Threads
      BY DEF Threads
    <2>2. /\ pc' \in [Threads -> PC]
          /\ mutex' = {} \/ \E t \in Threads : mutex' = {t}
          /\ phase' \in {"open", "closing", "joining", "closed"}
      BY <1>2, <2>1
         DEF WaitForCompaction, WaitCheck, SpuriousWakeup, BeginClose, Goto, PC
    <2>3. QED
      BY <1>2, <2>2
         DEF WaitForCompaction, WaitCheck, SpuriousWakeup, BeginClose
  <1>3. ASSUME NEW t \in Threads, BeginFlush(t) \/ BeginCompact(t)
        PROVE  TypeOK'
    <2>1. /\ DOMAIN disk' \subseteq Nat
          /\ \A id \in DOMAIN disk' : disk'[id] \in SUBSET Row
          /\ next_sst_id' \in Nat
          /\ mutex' = {}
          /\ pc' \in [Threads -> PC]
      BY <1>3 DEF BeginFlush, BeginCompact, Unlock, Goto, PC
    <2>2. job' \in [Threads -> Job]
      <3>1. CASE BeginFlush(t)
        <4>1. Head(immutables) \in SUBSET Row
          BY <3>1, PopFrontRows DEF BeginFlush
        <4>2. NewJob(next_sst_id, 0, "ROW", Head(immutables), {}) \in Job
          BY <4>1 DEF NewJob, Job, Layouts
        <4>3. QED BY <3>1, <4>2 DEF BeginFlush
      <3>2. CASE BeginCompact(t)
        <4>1. PICK task \in Pick(registry) :
                job' = [job EXCEPT ![t] =
                   NewJob(next_sst_id, task.dst, task.layout, {},
                          AtLevel(registry, task.src))]
          BY <3>2 DEF BeginCompact
        <4>2. /\ task.dst \in Nat /\ task.layout \in Layouts
              /\ AtLevel(registry, task.src) \in SUBSET Info
          BY <4>1, PickedLevel
        <4>3. NewJob(next_sst_id, task.dst, task.layout, {},
                     AtLevel(registry, task.src)) \in Job
          BY <4>2 DEF NewJob, Job
        <4>4. QED BY <4>1, <4>3
      <3>3. QED BY <1>3, <3>1, <3>2
    <2>3. QED BY <1>3, <2>1, <2>2 DEF BeginFlush, BeginCompact
  <1>4. ASSUME NEW t \in Threads, WriteFlush(t) \/ WriteCompaction(t)
        PROVE  TypeOK'
    <2>1. BuildTable(t)
      BY <1>4 DEF WriteFlush, WriteCompaction
    <2>2. SourceRows(t) \subseteq Row
      BY TableRowsTyped DEF SourceRows, Job
    <2>3. PICK lo \in SourceRows(t), hi \in SourceRows(t), size \in FileSizes :
            job' = [job EXCEPT ![t] =
                      BuiltJob(@, SourceRows(t), lo.key, hi.key, size)]
      BY <2>1 DEF BuildTable
    <2>4. lo.key \in Int /\ hi.key \in Int /\ size \in Nat
      BY <2>2, <2>3, MemoryAssumption, TreeAssumption DEF Row
    <2>5. job' \in [Threads -> Job]
      <3>1. BuiltJob(job[t], SourceRows(t), lo.key, hi.key, size) \in Job
        BY <2>2, <2>4 DEF Job, BuiltJob
      <3>2. QED BY <2>3, <3>1
    <2>6. /\ DOMAIN disk' \subseteq Nat
          /\ \A id \in DOMAIN disk' : disk'[id] \in SUBSET Row
      BY <2>1, <2>2 DEF BuildTable
    <2>7. pc' \in [Threads -> PC]
      BY <1>4 DEF WriteFlush, WriteCompaction, Goto, PC
    <2>8. QED BY <1>4, <2>5, <2>6, <2>7 DEF WriteFlush, WriteCompaction
  <1>5. ASSUME NEW t \in Threads, WriteThrows(t) PROVE TypeOK'
    <2>1. pc' \in [Threads -> PC] /\ job' \in [Threads -> Job]
      BY <1>5, NoJobTyped DEF WriteThrows, Goto, PC
    <2>2. faults' \in 0 .. MaxFaults
      BY <1>5, TreeAssumption DEF WriteThrows
    <2>3. QED BY <1>5, <2>1, <2>2 DEF WriteThrows
  <1>5a. ASSUME NEW t \in Threads, SaveFails(t) PROVE TypeOK'
    <2>1. pc' \in [Threads -> PC] /\ job' \in [Threads -> Job]
      BY <1>5a, NoJobTyped DEF SaveFails, Goto, PC
    <2>2. faults' \in 0 .. MaxFaults
      BY <1>5a, TreeAssumption DEF SaveFails
    <2>3. QED BY <1>5a, <2>1, <2>2 DEF SaveFails, Unlock
  <1>6. ASSUME NEW t \in Threads, CommitFlush(t) \/ CommitCompaction(t)
        PROVE  TypeOK'
    <2>1. Add(registry, NewInfo(t), adds) \in SUBSET Info
      BY DEF NewInfo, Info, Job, Add
    <2>2. registry' \in SUBSET Info /\ adds' \in Nat
      BY <1>6, <2>1 DEF CommitFlush, CommitCompaction
    <2>3. immutables' \in Seq((SUBSET Row) \ {{}})
      <3>1. CASE immutables = <<>>
        BY <1>6, <3>1 DEF CommitFlush, CommitCompaction, PopFront
      <3>2. CASE immutables # <<>>
        BY <1>6, <3>2, PopFrontRows DEF CommitFlush, CommitCompaction
      <3>3. QED BY <3>1, <3>2
    <2>4. pc' \in [Threads -> PC] /\ mutex' = {t}
      BY <1>6 DEF CommitFlush, CommitCompaction, Goto, Lock, PC
    <2>5. QED BY <1>6, <2>2, <2>3, <2>4 DEF CommitFlush, CommitCompaction
  <1>7. ASSUME NEW t \in Threads, RemoveOld(t) PROVE TypeOK'
    <2>1. job' \in [Threads -> Job]
      <3>1. \A o : JobWithOlds(job[t], job[t].olds \ {o}) \in Job
        BY DEF Job, JobWithOlds
      <3>2. PICK o \in job[t].olds :
              job' = [job EXCEPT ![t] = JobWithOlds(@, @.olds \ {o})]
        BY <1>7 DEF RemoveOld
      <3>3. QED BY <3>1, <3>2
    <2>2. /\ registry' \in SUBSET Info
          /\ DOMAIN disk' \subseteq Nat
          /\ \A id \in DOMAIN disk' : disk'[id] \in SUBSET Row
          /\ pc' \in [Threads -> PC]
      BY <1>7 DEF RemoveOld, Remove, Goto, PC
    <2>3. QED BY <1>7, <2>1, <2>2 DEF RemoveOld
  <1>8. ASSUME NEW t \in Threads, SaveManifest(t) PROVE TypeOK'
    <2>1. durable' \in SUBSET Row
      BY <1>8, TableRowsTyped DEF SaveManifest
    <2>2. /\ pc' \in [Threads -> PC] /\ job' \in [Threads -> Job]
          /\ manifest' \in [entries : SUBSET Info, next : Nat]
      BY <1>8, NoJobTyped DEF SaveManifest, ManifestOf, Goto, PC
    <2>3. QED BY <1>8, <2>1, <2>2 DEF SaveManifest
  <1>9. ASSUME NEW t \in Threads, EndDrain(t) PROVE TypeOK'
    <2>1. worker_busy' \in BOOLEAN
      BY <1>9 DEF EndDrain
    <2>2. pc' \in [Threads -> PC] /\ mutex' = {}
      BY <1>9 DEF EndDrain, NotifyIdle, Goto, Unlock, PC
    <2>3. QED BY <1>9, <2>1, <2>2 DEF EndDrain
  <1>10. CASE WorkerWakes \/ WorkerExits \/ SetStop
    <2>1. Worker \in Threads
      BY DEF Threads
    <2>2. /\ pc' \in [Threads -> PC]
          /\ mutex' = {} \/ \E t \in Threads : mutex' = {t}
      BY <1>10, <2>1
         DEF WorkerWakes, WorkerExits, SetStop, NotifyIdle, Goto, Lock, PC
    <2>3. QED BY <1>10, <2>2 DEF WorkerWakes, WorkerExits, SetStop
  <1>11. CASE EndClose \/ Crash
    <2>1. LoseMemory /\ UNCHANGED files /\ UNCHANGED <<inserts, adds>>
      BY <1>11 DEF EndClose, Crash
    <2>2. pc' \in [Threads -> PC]
      BY <2>1 DEF LoseMemory, EndedThreads, PC
    <2>3. job' \in [Threads -> Job]
      BY <2>1, NoJobTyped DEF LoseMemory
    <2>4. immutables' \in Seq((SUBSET Row) \ {{}})
      BY <2>1, EmptySeq DEF LoseMemory
    <2>5. faults' \in 0 .. MaxFaults
      BY <1>11, TreeAssumption DEF EndClose, Crash
    <2>6. /\ active' = {} /\ registry' = {} /\ next_sst_id' = 0
          /\ mutex' = {} /\ worker_busy' = FALSE /\ stop' = FALSE
          /\ phase' = "closed"
      BY <2>1 DEF LoseMemory
    <2>7. QED BY <2>1, <2>2, <2>3, <2>4, <2>5, <2>6
  <1>12. CASE Open
    <2>1. pc' \in [Threads -> PC]
      BY <1>12 DEF Open, StartedThreads, PC, Threads
    <2>2. registry' \in SUBSET Info /\ next_sst_id' \in Nat
      BY <1>12 DEF Open
    <2>3. QED BY <1>12, <2>1, <2>2 DEF Open
  <1>13. CASE UNCHANGED vars
    BY <1>13 DEF vars
  <1>14. QED
    BY <1>1, <1>2, <1>3, <1>4, <1>5, <1>5a, <1>6, <1>7, <1>8, <1>9, <1>10,
       <1>11, <1>12, <1>13 DEF Next, ClientStep, DrainStep

(* Type correctness, in every mode: in particular a frozen memtable is     *)
(* never empty and mutex_ has at most one holder.                          *)
THEOREM TypeCorrect == Spec => []TypeOK
  BY InitTypeOK, NextTypeOK, PTL DEF Spec

-----------------------------------------------------------------------------
(* Control: who holds mutex_ and who runs the drain loop.                  *)

LEMMA InitControl == Init => ControlInv
  BY TreeAssumption
     DEF Init, ControlInv, StartedThreads, Threads, LockedPC, JobPC, DrainPC

LEMMA NextControl == TypeOK /\ ControlInv /\ [Next]_vars => ControlInv'
  <1> SUFFICES ASSUME TypeOK, ControlInv, [Next]_vars PROVE ControlInv'
    OBVIOUS
  <1> USE DEF ControlInv, LockedPC, JobPC, DrainPC
  <1>0. pc \in [Threads -> PC] /\ Worker \in Threads /\ Worker \notin Clients
        /\ Clients \subseteq Threads
    BY TreeAssumption DEF TypeOK, Threads
  <1>1. ASSUME NEW c \in Clients, NEW k \in Keys, Insert(c, k) PROVE ControlInv'
    BY <1>0, <1>1
       DEF Insert, Goto, Drainers, catalog, files, flags
  <1>2. ASSUME NEW c \in Clients,
               \/ WaitForCompaction(c) \/ WaitCheck(c)
               \/ SpuriousWakeup(c) \/ BeginClose(c)
        PROVE  ControlInv'
    <2>1. CASE WaitForCompaction(c)
      BY <1>0, <2>1 DEF WaitForCompaction, Goto, Drainers, memory, catalog
    <2>2. CASE WaitCheck(c)
      BY <1>0, <2>2 DEF WaitCheck, Goto, Drainers, memory, catalog
    <2>3. CASE SpuriousWakeup(c)
      BY <1>0, <2>3 DEF SpuriousWakeup, Goto, Drainers, memory, catalog
    <2>4. CASE BeginClose(c)
      BY <1>0, <2>4 DEF BeginClose, Goto, Drainers, memory, catalog
    <2>5. QED BY <1>2, <2>1, <2>2, <2>3, <2>4
  <1>3. ASSUME NEW t \in Threads, BeginFlush(t) \/ BeginCompact(t)
        PROVE  ControlInv'
    <2>1. /\ pc[t] = "draining" /\ mutex' = {}
          /\ pc' = [pc EXCEPT ![t] = "flushing"]
             \/ pc' = [pc EXCEPT ![t] = "compacting"]
          /\ UNCHANGED <<active, immutables, registry, phase>>
      BY <1>3 DEF BeginFlush, BeginCompact, Goto, Unlock, memory
    <2>2. phase # "closed" /\ mutex = {t}
      BY <2>1
    <2>3. QED BY <1>0, <2>1, <2>2
  <1>4. ASSUME NEW t \in Threads, WriteFlush(t) \/ WriteCompaction(t)
        PROVE  ControlInv'
    BY <1>0, <1>4 DEF WriteFlush, WriteCompaction, Goto, memory, catalog
  <1>5. ASSUME NEW t \in Threads, WriteThrows(t) PROVE ControlInv'
    BY <1>0, <1>5 DEF WriteThrows, Goto, Drainers, memory, catalog
  <1>5a. ASSUME NEW t \in Threads, SaveFails(t) PROVE ControlInv'
    BY <1>0, <1>5a DEF SaveFails, Goto, Unlock, Drainers, memory, catalog
  <1>6. ASSUME NEW t \in Threads, CommitFlush(t) \/ CommitCompaction(t)
        PROVE  ControlInv'
    BY <1>0, <1>6 DEF CommitFlush, CommitCompaction, Goto, Lock, memory
  <1>7. ASSUME NEW t \in Threads, RemoveOld(t) \/ SaveManifest(t)
        PROVE  ControlInv'
    BY <1>0, <1>7 DEF RemoveOld, SaveManifest, Goto, memory, catalog
  <1>8. ASSUME NEW t \in Threads, EndDrain(t) PROVE ControlInv'
    BY <1>0, <1>8
       DEF EndDrain, NotifyIdle, Goto, Unlock, Drainers, memory, catalog
  <1>9. CASE WorkerWakes
    <2>1. /\ pc[Worker] = "waiting" /\ mutex = {} /\ mutex' = {Worker}
          /\ pc' = [pc EXCEPT ![Worker] = "draining"]
          /\ UNCHANGED <<active, immutables, registry, next_sst_id, phase>>
      BY <1>9 DEF WorkerWakes, Goto, Lock, memory, catalog
    <2>2. Background /\ Drainers = {Worker}
      BY <2>1 DEF Drainers
    <2>3. phase # "closed"
      BY <1>0, <2>1
    <2>4. QED BY <1>0, <2>1, <2>2, <2>3
  <1>10. CASE WorkerExits
    BY <1>0, <1>10 DEF WorkerExits, NotifyIdle, memory, catalog
  <1>11. CASE SetStop
    BY <1>0, <1>11 DEF SetStop, memory, catalog, threads
  <1>12. CASE EndClose \/ Crash
    BY <1>0, <1>12 DEF EndClose, Crash, LoseMemory, EndedThreads
  <1>13. CASE Open
    BY <1>0, <1>13 DEF Open, StartedThreads, memory
  <1>14. CASE UNCHANGED vars
    BY <1>14 DEF vars, memory, catalog, threads
  <1>15. QED
    BY <1>1, <1>2, <1>3, <1>4, <1>5, <1>5a, <1>6, <1>7, <1>8, <1>9, <1>10,
       <1>11, <1>12, <1>13, <1>14 DEF Next, ClientStep, DrainStep

-----------------------------------------------------------------------------
(* Data: what the memtables, the tables and the manifest hold.             *)

(* At most one thread is in the drain loop.                                *)
LEMMA OneDrainer ==
    ASSUME SingleDrainer, ControlInv,
           NEW t \in Threads, pc[t] \in DrainPC
    PROVE  \A u \in Threads : u # t => pc[u] \notin DrainPC
  BY DEF SingleDrainer, ControlInv

(* The threads with a job, and their jobs, stay as they are.               *)
SameJobs ==
    /\ job' = job
    /\ \A t \in Threads :
         \/ pc'[t] = pc[t]
         \/ pc[t] \notin BusyPC /\ pc'[t] \notin BusyPC

(* A step that touches neither the tables nor a job keeps everything that  *)
(* is said of them.                                                        *)
LEMMA TablesUntouched ==
    ASSUME DataInv, SameJobs, UNCHANGED <<catalog, files>>,
           phase # "closed" /\ phase' # "closed"
    PROVE  /\ IdInv' /\ DiskInv' /\ JobDirInv' /\ RemovingInv' /\ ManifestInv'
           /\ TablesRows(registry)' = TablesRows(registry)
           /\ \A i : RowsOf(i)' = RowsOf(i)
           /\ \A a, b : Removing(a, b)' <=> Removing(a, b)
  <1> USE DEF catalog, files
  <1>1. /\ \A t \in Threads, p \in BusyPC : pc'[t] = p <=> pc[t] = p
        /\ job' = job
    BY DEF SameJobs
  <1>2. \A i : RowsOf(i)' = RowsOf(i)
    BY DEF RowsOf
  <1>3. TablesRows(registry)' = TablesRows(registry)
        /\ TablesRows(manifest.entries)' = TablesRows(manifest.entries)
        /\ \A t \in Threads :
             TablesRows(job[t].olds)' = TablesRows(job[t].olds)
    BY <1>1 DEF TablesRows, RowsOf
  <1>4. IdInv' /\ DiskInv'
    BY DEF DataInv, IdInv, DiskInv, RegisteredOnDisk
  <1>5. JobDirInv'
    BY <1>1 DEF DataInv, JobDirInv, JobPC, BusyPC
  <1>6. RemovingInv'
    BY <1>1, <1>3 DEF DataInv, RemovingInv, BusyPC
  <1>7. \A a, b : Removing(a, b)' <=> Removing(a, b)
    BY <1>1 DEF Removing, BusyPC
  <1>8. DeleteWindow' <=> DeleteWindow
    BY <1>1 DEF DeleteWindow, BusyPC
  <1>9. ManifestInv'
    BY <1>2, <1>3, <1>8 DEF DataInv, ManifestInv
  <1>10. QED BY <1>2, <1>3, <1>4, <1>5, <1>6, <1>7, <1>9

(* A step of threads without a job that touches no data.                   *)
LEMMA ThreadStep ==
    ASSUME DataInv, SameJobs, UNCHANGED <<memory, catalog, files, counters>>,
           phase # "closed" /\ phase' # "closed"
    PROVE  DataInv' /\ Visible' = Visible
  <1> USE DEF memory, counters
  <1>1. /\ IdInv' /\ DiskInv' /\ JobDirInv' /\ RemovingInv' /\ ManifestInv'
        /\ TablesRows(registry)' = TablesRows(registry)
        /\ \A i : RowsOf(i)' = RowsOf(i)
        /\ \A a, b : Removing(a, b)' <=> Removing(a, b)
    BY TablesUntouched
  <1>2. DequeRows(immutables)' = DequeRows(immutables)
    BY DEF DequeRows
  <1>3. PartitionInv'
    BY <1>1, <1>2 DEF DataInv, PartitionInv, catalog
  <1>4. SeqInv'
    BY <1>1, <1>2 DEF DataInv, SeqInv, Visible
  <1>5. JobSourceInv'
    <2>1. /\ \A t \in Threads, p \in BusyPC : pc'[t] = p <=> pc[t] = p
          /\ job' = job /\ disk' = disk /\ registry' = registry
      BY DEF SameJobs, files, catalog
    <2>2. \A t \in Threads :
            TablesRows(job[t].olds)' = TablesRows(job[t].olds)
      BY <2>1 DEF TablesRows, RowsOf
    <2>3. QED BY <2>1, <2>2 DEF DataInv, JobSourceInv, BusyPC, JobPC
  <1>6. Visible' = Visible
    BY <1>1, <1>2 DEF Visible
  <1>7. QED BY <1>1, <1>3, <1>4, <1>5, <1>6 DEF DataInv

LEMMA InitData == Init => DataInv
  <1> SUFFICES ASSUME Init PROVE DataInv
    OBVIOUS
  <1>1. \A t \in Threads : pc[t] \notin BusyPC
    BY DEF Init, StartedThreads, BusyPC, JobPC
  <1>2. IdInv /\ DiskInv
    BY DEF Init, EmptyManifest, IdInv, DiskInv, RegisteredOnDisk
  <1>3. JobDirInv /\ JobSourceInv /\ RemovingInv
    BY <1>1 DEF JobDirInv, JobSourceInv, RemovingInv, BusyPC, JobPC
  <1>4. TablesRows(registry) = {} /\ TablesRows(manifest.entries) = {}
        /\ DequeRows(immutables) = {}
    BY DEF Init, EmptyManifest, TablesRows, DequeRows
  <1>5. PartitionInv
    BY <1>4 DEF Init, PartitionInv
  <1>6. ~DeleteWindow
    BY <1>1 DEF DeleteWindow, BusyPC
  <1>7. ManifestInv
    BY <1>4, <1>6 DEF Init, EmptyManifest, ManifestInv
  <1>8. SeqInv
    BY <1>4 DEF Init, SeqInv, Visible
  <1>9. QED BY <1>2, <1>3, <1>5, <1>7, <1>8, <1>6 DEF DataInv

(* The new row of insert() is in no memtable and no table yet.             *)
LEMMA InsertData ==
    ASSUME TypeOK, DataInv, NEW c \in Clients, NEW k \in Keys, Insert(c, k)
    PROVE  DataInv'
  <1> DEFINE row == [key |-> k, seq |-> inserts + 1]
             table == MemTableInsert(active, row)
  <1>0. /\ phase = "open" /\ phase' = "open"
        /\ inserts' = inserts + 1 /\ inserts \in Nat
        /\ UNCHANGED <<catalog, files, job>>
        /\ c \in Threads
    BY TreeAssumption DEF Insert, TypeOK, Threads
  <1>1. SameJobs
    BY <1>0 DEF SameJobs, Insert, Goto, BusyPC, JobPC, TypeOK
  <1>2. /\ IdInv' /\ DiskInv' /\ JobDirInv' /\ RemovingInv' /\ ManifestInv'
        /\ TablesRows(registry)' = TablesRows(registry)
        /\ \A i : RowsOf(i)' = RowsOf(i)
        /\ \A a, b : Removing(a, b)' <=> Removing(a, b)
    BY <1>0, <1>1, TablesUntouched
  <1>3. row \in Row /\ row.seq = inserts + 1
    BY <1>0 DEF Row
  <1>4. row \notin active \cup DequeRows(immutables) \cup TablesRows(registry)
    BY <1>0, <1>3 DEF DataInv, SeqInv, Visible
  <1>5. table \in (SUBSET Row) \ {{}} /\ table \subseteq active \cup {row}
    BY <1>3 DEF MemTableInsert, TypeOK
  <1>6. \/ /\ active' = table /\ immutables' = immutables
        \/ /\ active' = {} /\ immutables' = PushBack(immutables, table)
    BY DEF Insert, ToSortedImmutable
  <1>7. immutables \in Seq((SUBSET Row) \ {{}})
    BY DEF TypeOK
  <1> HIDE DEF table, row
  <1>8. active' \cup DequeRows(immutables')
          \subseteq active \cup DequeRows(immutables) \cup {row}
    BY <1>5, <1>6, <1>7, PushBackRows
  <1>9. PartitionInv'
    <2>1. CASE active' = table /\ immutables' = immutables
      BY <1>0, <1>2, <1>4, <1>5, <2>1 DEF DataInv, PartitionInv, catalog
    <2>2. CASE active' = {} /\ immutables' = PushBack(immutables, table)
      <3>1. DequeRows(immutables') = DequeRows(immutables) \cup table
        BY <2>2, <1>5, <1>7, PushBackRows
      <3>2. /\ Len(immutables') = Len(immutables) + 1 /\ Len(immutables) \in Nat
            /\ \A i \in 1 .. Len(immutables) : immutables'[i] = immutables[i]
            /\ immutables'[Len(immutables) + 1] = table
        BY <2>2, <1>5, <1>7, AppendProperties, LenProperties DEF PushBack
      <3>3. \A i \in 1 .. Len(immutables) :
              immutables[i] \subseteq DequeRows(immutables)
        BY DEF DequeRows
      <3>4. table \cap DequeRows(immutables) = {}
        BY <1>4, <1>5 DEF DataInv, PartitionInv
      <3>5. \A i, j \in 1 .. Len(immutables') :
              i # j => immutables'[i] \cap immutables'[j] = {}
        <4> TAKE i, j \in 1 .. Len(immutables')
        <4> HAVE i # j
        <4>1. CASE i = Len(immutables) + 1
          BY <4>1, <3>2, <3>3, <3>4
        <4>2. CASE j = Len(immutables) + 1
          BY <4>2, <3>2, <3>3, <3>4
        <4>3. CASE i \in 1 .. Len(immutables) /\ j \in 1 .. Len(immutables)
          BY <4>3, <3>2 DEF DataInv, PartitionInv
        <4>4. QED BY <4>1, <4>2, <4>3, <3>2
      <3>6. QED
        BY <1>0, <1>2, <1>4, <1>5, <2>2, <3>1, <3>5
           DEF DataInv, PartitionInv, catalog
    <2>3. QED BY <1>6, <2>1, <2>2
  <1>10. SeqInv'
    BY <1>0, <1>2, <1>3, <1>8 DEF DataInv, SeqInv, Visible
  <1>11. JobSourceInv'
    <2>1. /\ \A t \in Threads, p \in BusyPC : pc'[t] = p <=> pc[t] = p
          /\ job' = job /\ disk' = disk /\ registry' = registry
      BY <1>0, <1>1 DEF SameJobs, files, catalog
    <2>2. \A t \in Threads :
            TablesRows(job[t].olds)' = TablesRows(job[t].olds)
      BY <2>1 DEF TablesRows, RowsOf
    <2>3. immutables # <<>> =>
            immutables' # <<>> /\ Head(immutables') = Head(immutables)
      BY <1>5, <1>6, <1>7, AppendProperties, LenProperties, EmptySeq
         DEF PushBack
    <2>4. QED BY <2>1, <2>2, <2>3 DEF DataInv, JobSourceInv, BusyPC, JobPC
  <1>12. QED BY <1>2, <1>9, <1>10, <1>11 DEF DataInv

(* The directory a job creates has an id that no table has.                *)
LEMMA BeginData ==
    ASSUME SingleDrainer, TypeOK, ControlInv, DataInv,
           NEW t \in Threads, BeginFlush(t) \/ BeginCompact(t)
    PROVE  DataInv' /\ Visible' = Visible
  <1>0. /\ pc[t] = "draining"
        /\ next_sst_id' = next_sst_id + 1 /\ next_sst_id \in Nat
        /\ disk' = [id \in DOMAIN disk \cup {next_sst_id} |->
                       IF id = next_sst_id THEN {} ELSE disk[id]]
        /\ UNCHANGED <<active, immutables, registry, manifest, durable, phase,
                       inserts>>
        /\ pc' = [pc EXCEPT ![t] = pc'[t]]
        /\ pc'[t] \in {"flushing", "compacting"}
        /\ job'[t].id = next_sst_id
        /\ pc \in [Threads -> PC]
        /\ job \in [Threads -> Job]
    BY DEF BeginFlush, BeginCompact, Goto, memory, counters, TypeOK, NewJob
  <1>1. /\ \A u \in Threads : u # t => pc[u] \notin DrainPC
        /\ \A u \in Threads : u # t => pc'[u] \notin DrainPC
        /\ phase # "closed"
    BY <1>0, OneDrainer DEF ControlInv, DrainPC, LockedPC
  <1>2. /\ ~DeleteWindow /\ ~DeleteWindow'
        /\ \A a, b : ~Removing(a, b)
    BY <1>0, <1>1 DEF DeleteWindow, Removing, DrainPC, LockedPC
  <1>3. manifest.entries \subseteq registry
    BY <1>1, <1>2 DEF DataInv, ManifestInv
  <1>4. \A i \in registry : i.id \in Nat /\ i.id < next_sst_id
    BY DEF DataInv, IdInv, TypeOK, Info
  <1>5. \A i \in registry : i.id \in DOMAIN disk => disk'[i.id] = disk[i.id]
    BY <1>0, <1>4
  <1>6. /\ \A i \in registry : RowsOf(i)' = RowsOf(i)
        /\ DOMAIN disk' = DOMAIN disk \cup {next_sst_id}
    BY <1>0, <1>4, <1>5 DEF RowsOf
  <1>7. /\ TablesRows(registry)' = TablesRows(registry)
        /\ TablesRows(manifest.entries)' = TablesRows(manifest.entries)
    BY <1>0, <1>3, <1>6 DEF TablesRows
  <1>8. DequeRows(immutables)' = DequeRows(immutables)
    BY <1>0 DEF DequeRows
  <1>9. IdInv'
    BY <1>0, <1>4 DEF DataInv, IdInv, TypeOK
  <1>10. DiskInv'
    BY <1>0, <1>5, <1>6 DEF DataInv, DiskInv, RegisteredOnDisk
  <1>11. JobDirInv'
    BY <1>0, <1>1, <1>3, <1>4, <1>6 DEF JobDirInv, JobPC, DrainPC
  <1>12. JobSourceInv'
    <2>1. CASE BeginFlush(t)
      <3>1. /\ pc'[t] = "flushing" /\ immutables # <<>>
            /\ job'[t].rows = Head(immutables) /\ job'[t].olds = {}
            /\ job'[t].level = 0
        BY <1>0, <2>1 DEF BeginFlush, NewJob, Goto
      <3>2. QED
        BY <1>0, <1>1, <3>1 DEF JobSourceInv, DrainPC, LockedPC, JobPC
    <2>2. CASE BeginCompact(t)
      <3>1. PICK task \in Pick(registry) :
              job' = [job EXCEPT ![t] =
                        NewJob(next_sst_id, task.dst, task.layout, {},
                               AtLevel(registry, task.src))]
        BY <2>2 DEF BeginCompact
      <3>2. /\ task.dst > 0 /\ AtLevel(registry, task.src) # {}
            /\ AtLevel(registry, task.src) \subseteq registry
        BY PickedLevel DEF TypeOK
      <3>3. /\ pc'[t] = "compacting" /\ job'[t].rows = {}
            /\ job'[t].olds # {} /\ job'[t].olds \subseteq registry
            /\ job'[t].level > 0
        BY <1>0, <2>2, <3>1, <3>2 DEF BeginCompact, NewJob, Goto
      <3>4. QED
        BY <1>0, <1>1, <3>3 DEF JobSourceInv, DrainPC, LockedPC, JobPC
    <2>3. QED BY <2>1, <2>2
  <1>13. RemovingInv'
    BY <1>0, <1>1 DEF RemovingInv, DrainPC, LockedPC
  <1>14. PartitionInv'
    BY <1>0, <1>2, <1>6, <1>7, <1>8 DEF DataInv, PartitionInv
  <1>15. ManifestInv'
    BY <1>0, <1>2, <1>3, <1>5, <1>6, <1>7 DEF DataInv, ManifestInv
  <1>16. SeqInv'
    BY <1>0, <1>7, <1>8 DEF DataInv, SeqInv, Visible
  <1>17. Visible' = Visible
    BY <1>0, <1>7, <1>8 DEF Visible
  <1>18. QED
    BY <1>9, <1>10, <1>11, <1>12, <1>13, <1>14, <1>15, <1>16, <1>17 DEF DataInv

(* A builder fills only its own directory.                                 *)
LEMMA WriteData ==
    ASSUME SingleDrainer, TypeOK, ControlInv, DataInv,
           NEW t \in Threads, WriteFlush(t) \/ WriteCompaction(t)
    PROVE  DataInv' /\ Visible' = Visible
  <1>0. /\ pc \in [Threads -> PC] /\ job \in [Threads -> Job]
        /\ UNCHANGED <<active, immutables, registry, next_sst_id, manifest,
                       durable, phase, inserts>>
        /\ disk' = [disk EXCEPT ![job[t].id] = SourceRows(t)]
        /\ \/ pc[t] = "flushing" /\ pc' = [pc EXCEPT ![t] = "flushed"]
           \/ pc[t] = "compacting" /\ pc' = [pc EXCEPT ![t] = "compacted"]
    BY DEF WriteFlush, WriteCompaction, BuildTable, Goto, memory, catalog,
           counters, TypeOK
  <1>1. /\ \A u \in Threads : u # t => pc[u] \notin DrainPC
        /\ \A u \in Threads : u # t => pc'[u] \notin DrainPC
        /\ phase # "closed"
    BY <1>0, OneDrainer DEF ControlInv, DrainPC, JobPC
  <1>2. /\ ~DeleteWindow /\ ~DeleteWindow'
        /\ \A a, b : ~Removing(a, b)
    BY <1>0, <1>1 DEF DeleteWindow, Removing, DrainPC, LockedPC
  <1>3. manifest.entries \subseteq registry
    BY <1>1, <1>2 DEF DataInv, ManifestInv
  <1>4. /\ job[t].id \in DOMAIN disk /\ job[t].id < next_sst_id
        /\ \A i \in registry : i.id # job[t].id
    BY <1>0 DEF DataInv, JobDirInv, JobPC
  <1>5. /\ job'[t].id = job[t].id /\ job'[t].level = job[t].level
        /\ job'[t].olds = job[t].olds /\ job'[t].rows = SourceRows(t)
    <2>1. \E lo, hi \in SourceRows(t), size \in FileSizes :
            job' = [job EXCEPT ![t] =
                      BuiltJob(@, SourceRows(t), lo.key, hi.key, size)]
      BY DEF WriteFlush, WriteCompaction, BuildTable
    <2>2. QED BY <1>0, <2>1 DEF BuiltJob
  <1>6. /\ DOMAIN disk' = DOMAIN disk
        /\ \A i \in registry : disk'[i.id] = disk[i.id]
        /\ disk'[job[t].id] = SourceRows(t)
    BY <1>0, <1>4
  <1>7. \A i \in registry : RowsOf(i)' = RowsOf(i)
    BY <1>6 DEF RowsOf
  <1>8. /\ TablesRows(registry)' = TablesRows(registry)
        /\ TablesRows(manifest.entries)' = TablesRows(manifest.entries)
    BY <1>0, <1>3, <1>7 DEF TablesRows
  <1>9. DequeRows(immutables)' = DequeRows(immutables)
    BY <1>0 DEF DequeRows
  <1>10. IdInv' /\ DiskInv'
    BY <1>0, <1>6 DEF DataInv, IdInv, DiskInv, RegisteredOnDisk
  <1>11. JobDirInv'
    BY <1>0, <1>1, <1>3, <1>4, <1>5, <1>6 DEF JobDirInv, JobPC, DrainPC
  <1>12. JobSourceInv'
    <2>1. CASE pc[t] = "flushing"
      <3>1. /\ immutables # <<>> /\ job[t].rows = Head(immutables)
            /\ job[t].olds = {} /\ job[t].level = 0
        BY <2>1 DEF DataInv, JobSourceInv
      <3>2. SourceRows(t) = Head(immutables)
        BY <3>1 DEF SourceRows, TablesRows
      <3>3. QED
        BY <1>0, <1>1, <1>5, <1>6, <2>1, <3>1, <3>2
           DEF JobSourceInv, DrainPC, LockedPC, JobPC
    <2>2. CASE pc[t] = "compacting"
      <3>1. /\ job[t].olds # {} /\ job[t].olds \subseteq registry
            /\ job[t].level > 0 /\ job[t].rows = {}
        BY <2>2 DEF DataInv, JobSourceInv
      <3>2. SourceRows(t) = TablesRows(job[t].olds)
        BY <3>1 DEF SourceRows
      <3>3. TablesRows(job[t].olds)' = TablesRows(job[t].olds)
        BY <1>5, <1>7, <3>1 DEF TablesRows
      <3>4. QED
        BY <1>0, <1>1, <1>5, <1>6, <2>2, <3>1, <3>2, <3>3
           DEF JobSourceInv, DrainPC, LockedPC, JobPC
    <2>3. QED BY <1>0, <2>1, <2>2
  <1>13. RemovingInv'
    BY <1>0, <1>1 DEF RemovingInv, DrainPC, LockedPC
  <1>14. PartitionInv'
    BY <1>0, <1>2, <1>7, <1>8, <1>9 DEF DataInv, PartitionInv
  <1>15. ManifestInv'
    BY <1>0, <1>2, <1>3, <1>6, <1>7, <1>8 DEF DataInv, ManifestInv
  <1>16. SeqInv'
    BY <1>0, <1>8, <1>9 DEF DataInv, SeqInv, Visible
  <1>17. Visible' = Visible
    BY <1>0, <1>8, <1>9 DEF Visible
  <1>18. QED
    BY <1>10, <1>11, <1>12, <1>13, <1>14, <1>15, <1>16, <1>17 DEF DataInv

(* A table that could not be written leaves everything but its directory   *)
(* as it was.                                                              *)
LEMMA WriteThrowsData ==
    ASSUME SingleDrainer, TypeOK, ControlInv, DataInv,
           NEW t \in Threads, WriteThrows(t)
    PROVE  DataInv' /\ Visible' = Visible
  <1>0. /\ pc \in [Threads -> PC] /\ job \in [Threads -> Job]
        /\ pc[t] \in {"flushing", "compacting"}
        /\ pc' = [pc EXCEPT ![t] = "idle"]
        /\ UNCHANGED <<active, immutables, registry, next_sst_id, disk,
                       manifest, durable, phase, inserts>>
    BY DEF WriteThrows, Goto, memory, catalog, files, TypeOK
  <1>1. /\ \A u \in Threads : u # t => pc[u] \notin DrainPC
        /\ \A u \in Threads : pc'[u] \notin DrainPC
        /\ phase # "closed"
    BY <1>0, OneDrainer DEF ControlInv, DrainPC, JobPC, LockedPC
  <1>2. /\ ~DeleteWindow /\ ~DeleteWindow'
        /\ \A a, b : ~Removing(a, b)
    BY <1>0, <1>1 DEF DeleteWindow, Removing, DrainPC, LockedPC
  <1>3. /\ \A i : RowsOf(i)' = RowsOf(i)
        /\ TablesRows(registry)' = TablesRows(registry)
        /\ TablesRows(manifest.entries)' = TablesRows(manifest.entries)
        /\ DequeRows(immutables)' = DequeRows(immutables)
    BY <1>0 DEF RowsOf, TablesRows, DequeRows
  <1>4. IdInv' /\ DiskInv'
    BY <1>0 DEF DataInv, IdInv, DiskInv, RegisteredOnDisk
  <1>5. JobDirInv' /\ JobSourceInv' /\ RemovingInv'
    BY <1>1 DEF JobDirInv, JobSourceInv, RemovingInv, DrainPC, JobPC, LockedPC
  <1>6. PartitionInv'
    BY <1>0, <1>2, <1>3 DEF DataInv, PartitionInv
  <1>7. ManifestInv'
    BY <1>0, <1>2, <1>3 DEF DataInv, ManifestInv
  <1>8. SeqInv'
    BY <1>0, <1>3 DEF DataInv, SeqInv, Visible
  <1>9. Visible' = Visible
    BY <1>0, <1>3 DEF Visible
  <1>10. QED BY <1>4, <1>5, <1>6, <1>7, <1>8, <1>9 DEF DataInv

(* The info that registry_.add() records for the finished job of t.        *)
AddedInfo(t) ==
    [id |-> job[t].id, level |-> job[t].level, pos |-> adds,
     min_key |-> job[t].min_key, max_key |-> job[t].max_key,
     size |-> job[t].size, layout |-> job[t].layout]

(* A flush moves the rows of the front memtable into a table, in one step  *)
(* under mutex_.                                                           *)
LEMMA CommitFlushData ==
    ASSUME SingleDrainer, TypeOK, ControlInv, DataInv,
           NEW t \in Threads, CommitFlush(t)
    PROVE  DataInv' /\ Visible' = Visible
  <1> DEFINE n == AddedInfo(t)
  <1>0. /\ pc \in [Threads -> PC] /\ job \in [Threads -> Job]
        /\ pc[t] = "flushed" /\ pc' = [pc EXCEPT ![t] = "saving"]
        /\ registry' = registry \cup {n}
        /\ immutables' = PopFront(immutables)
        /\ UNCHANGED <<active, next_sst_id, disk, manifest, durable, job,
                       phase, inserts>>
    BY DEF CommitFlush, Add, NewInfo, AddedInfo, Goto, files, TypeOK
  <1>1. /\ \A u \in Threads : u # t => pc[u] \notin DrainPC
        /\ \A u \in Threads : u # t => pc'[u] \notin DrainPC
        /\ phase # "closed"
    BY <1>0, OneDrainer DEF ControlInv, DrainPC, JobPC
  <1>2. /\ immutables # <<>> /\ job[t].rows = Head(immutables)
        /\ job[t].level = 0
        /\ disk[job[t].id] = job[t].rows
        /\ job[t].id \in DOMAIN disk /\ job[t].id < next_sst_id
        /\ \A i \in registry \cup manifest.entries : i.id # job[t].id
    BY <1>0 DEF DataInv, JobSourceInv, JobDirInv, JobPC
  <1>3. /\ ~DeleteWindow /\ ~DeleteWindow'
        /\ \A a, b : ~Removing(a, b)
    BY <1>0, <1>1, <1>2 DEF DeleteWindow, Removing, DrainPC, LockedPC
  <1>4. manifest.entries \subseteq registry
    BY <1>1, <1>3 DEF DataInv, ManifestInv
  <1>5. immutables \in Seq((SUBSET Row) \ {{}})
    BY DEF TypeOK
  <1>6. /\ Head(immutables) # {}
        /\ DequeRows(immutables) = Head(immutables) \cup DequeRows(immutables')
        /\ \A i \in 1 .. Len(immutables') :
             i + 1 \in 1 .. Len(immutables)
             /\ immutables'[i] = immutables[i + 1]
        /\ Head(immutables) = immutables[1] /\ 1 \in 1 .. Len(immutables)
    BY <1>0, <1>2, <1>5, PopFrontRows
  <1>7. /\ \A i : RowsOf(i)' = RowsOf(i)
        /\ RowsOf(n) = Head(immutables) /\ n.id = job[t].id
    BY <1>0, <1>2 DEF RowsOf, AddedInfo
  <1> HIDE DEF n
  <1>8. TablesRows(registry)' = TablesRows(registry) \cup Head(immutables)
        /\ TablesRows(manifest.entries)' = TablesRows(manifest.entries)
    BY <1>0, <1>7 DEF TablesRows
  <1>9. IdInv'
    BY <1>0, <1>2, <1>7 DEF DataInv, IdInv
  <1>10. DiskInv'
    BY <1>0, <1>2, <1>6, <1>7 DEF DataInv, DiskInv, RegisteredOnDisk
  <1>11. JobDirInv' /\ JobSourceInv' /\ RemovingInv'
    BY <1>0, <1>1 DEF JobDirInv, JobSourceInv, RemovingInv, DrainPC, JobPC,
                      LockedPC
  <1>12. PartitionInv'
    <2>1. Head(immutables) \cap DequeRows(immutables') = {}
      <3>1. \A i \in 1 .. Len(immutables') :
              Head(immutables) \cap immutables'[i] = {}
        <4> TAKE i \in 1 .. Len(immutables')
        <4>1. i \in Nat /\ i >= 1 /\ i + 1 # 1
          BY <1>6
        <4>2. QED BY <1>6, <4>1 DEF DataInv, PartitionInv
      <3>2. QED BY <3>1 DEF DequeRows
    <2>2. \A i, j \in 1 .. Len(immutables') :
            i # j => immutables'[i] \cap immutables'[j] = {}
      <3> TAKE i, j \in 1 .. Len(immutables')
      <3> HAVE i # j
      <3>1. i + 1 # j + 1
        BY <1>6
      <3>2. QED BY <1>6, <3>1 DEF DataInv, PartitionInv
    <2>3. \A i \in registry : RowsOf(i) \subseteq TablesRows(registry)
      BY DEF TablesRows
    <2>4. \A a, b \in registry' : a # b => RowsOf(a) \cap RowsOf(b) = {}
      BY <1>0, <1>3, <1>6, <1>7, <2>3 DEF DataInv, PartitionInv
    <2>5. /\ active' \cap DequeRows(immutables') = {}
          /\ TablesRows(registry)' \cap active' = {}
          /\ TablesRows(registry)' \cap DequeRows(immutables') = {}
      BY <1>0, <1>6, <1>8, <2>1 DEF DataInv, PartitionInv
    <2>6. QED BY <1>7, <2>2, <2>4, <2>5 DEF PartitionInv
  <1>13. ManifestInv'
    BY <1>0, <1>3, <1>4, <1>7, <1>8 DEF DataInv, ManifestInv
  <1>14. SeqInv'
    BY <1>0, <1>1, <1>6, <1>8 DEF DataInv, SeqInv, Visible
  <1>15. Visible' = Visible
    BY <1>0, <1>1, <1>6, <1>8 DEF Visible
  <1>16. QED BY <1>9, <1>10, <1>11, <1>12, <1>13, <1>14, <1>15 DEF DataInv

(* A compaction first adds the merged table, which holds the rows of its   *)
(* candidates, all of them registered.                                     *)
LEMMA CommitCompactionData ==
    ASSUME SingleDrainer, TypeOK, ControlInv, DataInv,
           NEW t \in Threads, CommitCompaction(t)
    PROVE  DataInv' /\ Visible' = Visible
  <1> DEFINE n == AddedInfo(t)
  <1>0. /\ pc \in [Threads -> PC] /\ job \in [Threads -> Job]
        /\ pc[t] = "compacted" /\ pc' = [pc EXCEPT ![t] = "removing"]
        /\ registry' = registry \cup {n}
        /\ UNCHANGED <<active, immutables, next_sst_id, disk, manifest,
                       durable, job, phase, inserts>>
    BY DEF CommitCompaction, Add, NewInfo, AddedInfo, Goto, files, memory,
           TypeOK
  <1>1. /\ \A u \in Threads : u # t => pc[u] \notin DrainPC
        /\ \A u \in Threads : u # t => pc'[u] \notin DrainPC
        /\ phase # "closed"
    BY <1>0, OneDrainer DEF ControlInv, DrainPC, JobPC
  <1>2. /\ job[t].olds # {} /\ job[t].olds \subseteq registry
        /\ job[t].level > 0
        /\ job[t].rows = TablesRows(job[t].olds)
        /\ disk[job[t].id] = job[t].rows
        /\ job[t].id \in DOMAIN disk /\ job[t].id < next_sst_id
        /\ \A i \in registry \cup manifest.entries : i.id # job[t].id
    BY <1>0 DEF DataInv, JobSourceInv, JobDirInv, JobPC
  <1>3. /\ ~DeleteWindow /\ DeleteWindow'
        /\ \A a, b : ~Removing(a, b)
    BY <1>0, <1>1 DEF DeleteWindow, Removing, DrainPC, LockedPC
  <1>4. manifest.entries \subseteq registry
    BY <1>1, <1>3 DEF DataInv, ManifestInv
  <1>5. /\ \A i : RowsOf(i)' = RowsOf(i)
        /\ RowsOf(n) = job[t].rows /\ n.id = job[t].id
    BY <1>0, <1>2 DEF RowsOf, AddedInfo
  <1> HIDE DEF n
  <1>6. job[t].rows # {}
    <2>1. PICK o \in job[t].olds : TRUE
      BY <1>2
    <2>2. RowsOf(o) # {}
      BY <1>2, <2>1 DEF DataInv, DiskInv, RegisteredOnDisk, RowsOf
    <2>3. RowsOf(o) \subseteq TablesRows(job[t].olds)
      BY <2>1 DEF TablesRows
    <2>4. QED BY <1>2, <2>2, <2>3
  <1>7. /\ TablesRows(job[t].olds) \subseteq TablesRows(registry)
        /\ TablesRows(job[t].olds)' = TablesRows(job[t].olds)
    BY <1>0, <1>2, <1>5 DEF TablesRows
  <1>8. TablesRows(registry)' = TablesRows(registry)
    <2>1. TablesRows(registry)' = TablesRows(registry) \cup job[t].rows
      BY <1>0, <1>5 DEF TablesRows
    <2>2. QED BY <1>2, <1>7, <2>1
  <1>9. DequeRows(immutables)' = DequeRows(immutables)
    BY <1>0 DEF DequeRows
  <1>10. IdInv'
    BY <1>0, <1>2, <1>5 DEF DataInv, IdInv
  <1>11. DiskInv'
    BY <1>0, <1>2, <1>5, <1>6 DEF DataInv, DiskInv, RegisteredOnDisk
  <1>12. JobDirInv' /\ JobSourceInv'
    BY <1>0, <1>1 DEF JobDirInv, JobSourceInv, DrainPC, JobPC, LockedPC
  <1>13. RemovingInv'
    <2>1. \E i \in registry' : i.id = job[t].id
      BY <1>0, <1>5
    <2>2. QED
      BY <1>0, <1>1, <1>2, <1>7, <2>1 DEF RemovingInv, DrainPC, LockedPC
  <1>14. PartitionInv'
    <2>1. ASSUME NEW a, a = n, NEW b \in registry, ~Removing(a, b)'
          PROVE  RowsOf(a) \cap RowsOf(b) = {}
      <3>1. b \notin job[t].olds
        BY <1>0, <1>5, <2>1 DEF Removing
      <3>2. \A o \in job[t].olds : RowsOf(o) \cap RowsOf(b) = {}
        BY <1>2, <1>3, <3>1 DEF DataInv, PartitionInv
      <3>3. TablesRows(job[t].olds) \cap RowsOf(b) = {}
        BY <3>2 DEF TablesRows
      <3>4. QED BY <1>2, <1>5, <2>1, <3>3
    <2>2. \A a, b : Removing(a, b)' <=> Removing(b, a)'
      BY DEF Removing
    <2>3. \A a, b \in registry : a # b => RowsOf(a) \cap RowsOf(b) = {}
      BY <1>3 DEF DataInv, PartitionInv
    <2>4. \A a, b \in registry' :
            a # b /\ ~Removing(a, b)' => RowsOf(a) \cap RowsOf(b) = {}
      BY <1>0, <2>1, <2>2, <2>3
    <2>5. QED BY <1>0, <1>5, <1>8, <1>9, <2>4 DEF DataInv, PartitionInv
  <1>15. ManifestInv'
    <2>1. durable = TablesRows(manifest.entries)
      BY <1>3 DEF DataInv, ManifestInv
    <2>2. durable \subseteq TablesRows(registry)
      BY <1>4, <2>1 DEF TablesRows
    <2>3. QED BY <1>0, <1>3, <1>8, <2>2 DEF ManifestInv
  <1>16. SeqInv'
    BY <1>0, <1>1, <1>8, <1>9 DEF DataInv, SeqInv, Visible
  <1>17. Visible' = Visible
    BY <1>0, <1>1, <1>8, <1>9 DEF Visible
  <1>18. QED
    BY <1>10, <1>11, <1>12, <1>13, <1>14, <1>15, <1>16, <1>17 DEF DataInv

(* Then it takes the candidates away one by one; the merged table keeps    *)
(* their rows.                                                             *)
LEMMA RemoveOldData ==
    ASSUME SingleDrainer, TypeOK, ControlInv, DataInv,
           NEW t \in Threads, RemoveOld(t)
    PROVE  DataInv' /\ Visible' = Visible
  <1>1. PICK o \in job[t].olds :
          /\ registry' = Remove(registry, o.id)
          /\ disk' = [id \in DOMAIN disk \ {o.id} |-> disk[id]]
          /\ job' = [job EXCEPT ![t] = JobWithOlds(@, @.olds \ {o})]
          /\ pc' = [pc EXCEPT ![t] = IF job[t].olds = {o} THEN "saving"
                                                          ELSE "removing"]
    BY DEF RemoveOld, Goto
  <1>2. /\ pc \in [Threads -> PC] /\ job \in [Threads -> Job]
        /\ pc[t] = "removing"
        /\ UNCHANGED <<active, immutables, next_sst_id, manifest, durable,
                       phase, inserts>>
        /\ registry' = {i \in registry : i.id # o.id}
        /\ pc'[t] = IF job[t].olds = {o} THEN "saving" ELSE "removing"
        /\ \A u \in Threads : u # t => pc'[u] = pc[u] /\ job'[u] = job[u]
    BY <1>1 DEF RemoveOld, Remove, memory, counters, TypeOK
  <1>3. /\ job'[t].id = job[t].id /\ job'[t].level = job[t].level
        /\ job'[t].rows = job[t].rows /\ job'[t].olds = job[t].olds \ {o}
    BY <1>1, <1>2 DEF JobWithOlds
  <1>4. /\ \A u \in Threads : u # t => pc[u] \notin DrainPC
        /\ \A u \in Threads : u # t => pc'[u] \notin DrainPC
        /\ phase # "closed"
    BY <1>2, OneDrainer DEF ControlInv, DrainPC, LockedPC
  <1>5. /\ job[t].level > 0 /\ job[t].olds \subseteq registry
        /\ \A p \in job[t].olds : p.id # job[t].id
        /\ disk[job[t].id] = job[t].rows
        /\ TablesRows(job[t].olds) \subseteq job[t].rows
    BY <1>2 DEF DataInv, RemovingInv
  <1>6. PICK n \in registry : n.id = job[t].id
    BY <1>2 DEF DataInv, RemovingInv
  <1>7. n \in registry' /\ RowsOf(n) = job[t].rows
    BY <1>2, <1>5, <1>6 DEF DataInv, DiskInv, RegisteredOnDisk, RowsOf
  <1>8. DeleteWindow /\ DeleteWindow'
    BY <1>2, <1>3, <1>5 DEF DeleteWindow
  <1>9. /\ \A i \in registry' : disk'[i.id] = disk[i.id] /\ i.id \in DOMAIN disk'
        /\ \A i \in registry' : RowsOf(i)' = RowsOf(i)
        /\ registry' \subseteq registry
    BY <1>1, <1>2 DEF DataInv, DiskInv, RegisteredOnDisk, RowsOf
  <1>10. job'[t].olds \subseteq registry' /\ o \notin registry'
    BY <1>2, <1>3, <1>5 DEF DataInv, IdInv
  <1>11. TablesRows(registry)' = TablesRows(registry)
    <2>1. TablesRows(registry)' = UNION {RowsOf(i) : i \in registry'}
      BY <1>9 DEF TablesRows
    <2>2. \A i \in registry : i \in registry' \/ i = o
      BY <1>2, <1>5 DEF DataInv, IdInv
    <2>3. RowsOf(o) \subseteq RowsOf(n)
      BY <1>5, <1>7 DEF TablesRows
    <2>4. QED BY <1>7, <1>9, <2>1, <2>2, <2>3 DEF TablesRows
  <1>12. DequeRows(immutables)' = DequeRows(immutables)
    BY <1>2 DEF DequeRows
  <1>13. IdInv'
    BY <1>2, <1>9 DEF DataInv, IdInv
  <1>14. DiskInv'
    BY <1>9 DEF DataInv, DiskInv, RegisteredOnDisk
  <1>15. JobDirInv' /\ JobSourceInv'
    BY <1>2, <1>4 DEF JobDirInv, JobSourceInv, DrainPC, JobPC, LockedPC
  <1>16. RemovingInv'
    <2>1. TablesRows(job[t].olds)' \subseteq job[t].rows
      BY <1>3, <1>5, <1>9, <1>10 DEF TablesRows
    <2>2. disk'[job[t].id] = job[t].rows
      BY <1>5, <1>6, <1>7, <1>9
    <2>3. QED
      BY <1>2, <1>3, <1>4, <1>5, <1>6, <1>7, <1>10, <2>1, <2>2
         DEF RemovingInv, DrainPC, LockedPC
  <1>17. PartitionInv'
    <2>1. ASSUME NEW a \in registry', NEW b \in registry', Removing(a, b)
          PROVE  Removing(a, b)'
      <3>1. /\ a.id = job[t].id \/ b.id = job[t].id
            /\ a \in job[t].olds \/ b \in job[t].olds
        BY <1>2, <1>4, <2>1 DEF Removing, DrainPC, LockedPC
      <3>2. a \in job'[t].olds \/ b \in job'[t].olds
        BY <1>3, <1>10, <2>1, <3>1
      <3>3. pc'[t] = "removing"
        BY <1>2, <1>3, <3>2
      <3>4. QED BY <1>3, <3>1, <3>2, <3>3 DEF Removing
    <2>2. \A a, b \in registry' :
            a # b /\ ~Removing(a, b)' => RowsOf(a)' \cap RowsOf(b)' = {}
      BY <1>9, <2>1 DEF DataInv, PartitionInv
    <2>3. QED BY <1>2, <1>11, <1>12, <2>2 DEF DataInv, PartitionInv
  <1>18. ManifestInv'
    BY <1>2, <1>8, <1>11 DEF DataInv, ManifestInv
  <1>19. SeqInv'
    BY <1>2, <1>4, <1>11, <1>12 DEF DataInv, SeqInv, Visible
  <1>20. Visible' = Visible
    BY <1>2, <1>4, <1>11, <1>12 DEF Visible
  <1>21. QED
    BY <1>11, <1>13, <1>14, <1>15, <1>16, <1>17, <1>18, <1>19, <1>20 DEF DataInv

(* A save makes the manifest equal to the registry, whose tables are all   *)
(* complete and disjoint.                                                  *)
LEMMA SaveManifestData ==
    ASSUME SingleDrainer, TypeOK, ControlInv, DataInv,
           NEW t \in Threads, SaveManifest(t)
    PROVE  DataInv' /\ Visible' = Visible
  <1>0. /\ pc \in [Threads -> PC] /\ job \in [Threads -> Job]
        /\ pc[t] = "saving" /\ pc' = [pc EXCEPT ![t] = "draining"]
        /\ manifest'.entries = registry /\ manifest'.next = next_sst_id
        /\ durable' = TablesRows(registry)
        /\ next_sst_id \in Nat
        /\ UNCHANGED <<active, immutables, registry, next_sst_id, disk, phase,
                       inserts>>
    BY DEF SaveManifest, ManifestOf, Goto, memory, catalog, counters, TypeOK
  <1>1. /\ \A u \in Threads : u # t => pc[u] \notin DrainPC
        /\ \A u \in Threads : u # t => pc'[u] \notin DrainPC
        /\ phase # "closed"
    BY <1>0, OneDrainer DEF ControlInv, DrainPC, LockedPC
  <1>2. /\ ~DeleteWindow'
        /\ \A a, b : ~Removing(a, b)
    BY <1>0, <1>1 DEF DeleteWindow, Removing, DrainPC, LockedPC
  <1>3. /\ \A i : RowsOf(i)' = RowsOf(i)
        /\ TablesRows(registry)' = TablesRows(registry)
        /\ TablesRows(manifest.entries)' = TablesRows(registry)
        /\ DequeRows(immutables)' = DequeRows(immutables)
    BY <1>0 DEF RowsOf, TablesRows, DequeRows
  <1>4. IdInv' /\ DiskInv'
    BY <1>0 DEF DataInv, IdInv, DiskInv, RegisteredOnDisk
  <1>5. JobDirInv' /\ JobSourceInv' /\ RemovingInv'
    BY <1>0, <1>1 DEF JobDirInv, JobSourceInv, RemovingInv, DrainPC, JobPC,
                      LockedPC
  <1>6. PartitionInv'
    BY <1>0, <1>2, <1>3 DEF DataInv, PartitionInv
  <1>7. ManifestInv'
    BY <1>0, <1>2, <1>3
       DEF DataInv, ManifestInv, PartitionInv, DiskInv, RegisteredOnDisk
  <1>8. SeqInv'
    BY <1>0, <1>1, <1>3 DEF DataInv, SeqInv, Visible
  <1>9. Visible' = Visible
    BY <1>0, <1>1, <1>3 DEF Visible
  <1>10. QED BY <1>4, <1>5, <1>6, <1>7, <1>8, <1>9 DEF DataInv

(* A failed save leaves the registry ahead of the manifest; unless a       *)
(* compaction had just deleted its candidates, the manifest still names    *)
(* complete tables.                                                        *)
LEMMA SaveFailsData ==
    ASSUME SingleDrainer, ~CrashInWindow, TypeOK, ControlInv, DataInv,
           NEW t \in Threads, SaveFails(t)
    PROVE  DataInv' /\ Visible' = Visible
  <1>0. /\ pc \in [Threads -> PC] /\ job \in [Threads -> Job]
        /\ pc[t] = "saving" /\ pc' = [pc EXCEPT ![t] = "idle"]
        /\ ~DeleteWindow
        /\ UNCHANGED <<active, immutables, registry, next_sst_id, disk,
                       manifest, durable, phase, inserts>>
    BY DEF SaveFails, Goto, memory, catalog, files, TypeOK
  <1>1. /\ \A u \in Threads : u # t => pc[u] \notin DrainPC
        /\ \A u \in Threads : pc'[u] \notin DrainPC
        /\ phase # "closed"
    BY <1>0, OneDrainer DEF ControlInv, DrainPC, LockedPC, JobPC
  <1>2. /\ ~DeleteWindow'
        /\ \A a, b : ~Removing(a, b)
    BY <1>0, <1>1 DEF DeleteWindow, Removing, DrainPC, LockedPC
  <1>3. /\ \A i : RowsOf(i)' = RowsOf(i)
        /\ TablesRows(registry)' = TablesRows(registry)
        /\ TablesRows(manifest.entries)' = TablesRows(manifest.entries)
        /\ DequeRows(immutables)' = DequeRows(immutables)
    BY <1>0 DEF RowsOf, TablesRows, DequeRows
  <1>4. IdInv' /\ DiskInv'
    BY <1>0 DEF DataInv, IdInv, DiskInv, RegisteredOnDisk
  <1>5. JobDirInv' /\ JobSourceInv' /\ RemovingInv'
    BY <1>1 DEF JobDirInv, JobSourceInv, RemovingInv, DrainPC, JobPC, LockedPC
  <1>6. PartitionInv'
    BY <1>0, <1>2, <1>3 DEF DataInv, PartitionInv
  <1>7. ManifestInv'
    BY <1>0, <1>2, <1>3 DEF DataInv, ManifestInv
  <1>8. SeqInv'
    BY <1>0, <1>3 DEF DataInv, SeqInv, Visible
  <1>9. Visible' = Visible
    BY <1>0, <1>3 DEF Visible
  <1>10. QED BY <1>4, <1>5, <1>6, <1>7, <1>8, <1>9 DEF DataInv

(* A close or a crash never falls into the delete window, so the files it  *)
(* leaves behind are those of a complete manifest.                         *)
LEMMA EndOfProcess ==
    ASSUME SingleDrainer, ~CrashInWindow, TypeOK, ControlInv, DataInv,
           EndClose \/ Crash
    PROVE  /\ DataInv'
           /\ ~DeleteWindow
           /\ phase # "closed"
           /\ TablesRows(manifest.entries) \subseteq Visible
           /\ Visible' = TablesRows(manifest.entries)
           /\ durable' = durable
  <1>0. /\ LoseMemory /\ UNCHANGED <<disk, manifest, durable, inserts>>
        /\ phase # "closed"
    BY DEF EndClose, Crash, files, counters
  <1>1. ~DeleteWindow
    <2>1. CASE Crash
      BY <2>1 DEF Crash
    <2>2. CASE EndClose
      <3>1. \A u \in Threads : pc[u] \notin DrainPC
        BY <2>2 DEF EndClose, ControlInv, Drainers, DrainPC, LockedPC, JobPC,
                    TypeOK
      <3>2. QED BY <3>1 DEF DeleteWindow, DrainPC, LockedPC
    <2>3. QED BY <2>1, <2>2
  <1>2. /\ active' = {} /\ immutables' = <<>> /\ registry' = {}
        /\ next_sst_id' = 0 /\ phase' = "closed"
        /\ \A u \in Threads : pc'[u] \notin DrainPC
    BY <1>0 DEF LoseMemory, EndedThreads, DrainPC, LockedPC, JobPC
  <1>3. ~DeleteWindow'
    BY <1>2 DEF DeleteWindow, DrainPC, LockedPC
  <1>4. /\ \A i : RowsOf(i)' = RowsOf(i)
        /\ TablesRows(registry)' = {}
        /\ TablesRows(manifest.entries)' = TablesRows(manifest.entries)
        /\ DequeRows(immutables)' = {}
    BY <1>0, <1>2 DEF RowsOf, TablesRows, DequeRows
  <1>5. manifest.entries \subseteq registry
    BY <1>0, <1>1 DEF DataInv, ManifestInv
  <1>6. TablesRows(manifest.entries) \subseteq Visible
    BY <1>0, <1>5 DEF TablesRows, Visible
  <1>7. Visible' = TablesRows(manifest.entries)
    BY <1>2, <1>4 DEF Visible
  <1>8. IdInv' /\ DiskInv'
    BY <1>0, <1>2 DEF DataInv, IdInv, DiskInv, RegisteredOnDisk
  <1>9. JobDirInv' /\ JobSourceInv' /\ RemovingInv'
    BY <1>2 DEF JobDirInv, JobSourceInv, RemovingInv, DrainPC, JobPC, LockedPC
  <1>10. PartitionInv'
    BY <1>2, <1>4 DEF PartitionInv
  <1>11. ManifestInv'
    BY <1>0, <1>1, <1>2, <1>3, <1>4 DEF DataInv, ManifestInv
  <1>12. SeqInv'
    BY <1>0, <1>6, <1>7 DEF DataInv, SeqInv
  <1>13. QED
    BY <1>0, <1>1, <1>6, <1>7, <1>8, <1>9, <1>10, <1>11, <1>12 DEF DataInv

(* Reopening reads back what the manifest covers.                          *)
LEMMA OpenData ==
    ASSUME TypeOK, ControlInv, DataInv, Open
    PROVE  DataInv' /\ Visible' = Visible /\ durable' = durable
  <1>0. /\ phase = "closed" /\ phase' = "open"
        /\ registry' = manifest.entries /\ next_sst_id' = manifest.next
        /\ manifest.next \in Nat
        /\ UNCHANGED <<active, immutables, disk, manifest, durable, inserts>>
        /\ pc' = StartedThreads
    BY DEF Open, memory, files, counters, TypeOK
  <1>1. /\ active = {} /\ immutables = <<>> /\ registry = {}
        /\ \A u \in Threads : pc[u] \in {"idle", "exited"}
        /\ \A u \in Threads : pc'[u] \notin DrainPC
    BY <1>0 DEF ControlInv, StartedThreads, DrainPC, LockedPC, JobPC
  <1>2. ~DeleteWindow' /\ ~DeleteWindow
    BY <1>1 DEF DeleteWindow, DrainPC, LockedPC
  <1>3. /\ \A i : RowsOf(i)' = RowsOf(i)
        /\ TablesRows(registry)' = TablesRows(manifest.entries)
        /\ TablesRows(manifest.entries)' = TablesRows(manifest.entries)
        /\ DequeRows(immutables)' = {}
    BY <1>0, <1>1 DEF RowsOf, TablesRows, DequeRows
  <1>4. Visible' = Visible
    BY <1>0, <1>1, <1>3 DEF Visible
  <1>5. IdInv' /\ DiskInv'
    BY <1>0, <1>2 DEF DataInv, IdInv, DiskInv, RegisteredOnDisk, ManifestInv
  <1>6. JobDirInv' /\ JobSourceInv' /\ RemovingInv'
    BY <1>1 DEF JobDirInv, JobSourceInv, RemovingInv, DrainPC, JobPC, LockedPC
  <1>7. PartitionInv'
    BY <1>0, <1>1, <1>2, <1>3 DEF DataInv, ManifestInv, PartitionInv
  <1>8. ManifestInv'
    BY <1>0, <1>2, <1>3 DEF DataInv, ManifestInv
  <1>9. SeqInv'
    BY <1>0, <1>4 DEF DataInv, SeqInv
  <1>10. QED BY <1>0, <1>4, <1>5, <1>6, <1>7, <1>8, <1>9 DEF DataInv

(* Everything else only moves threads.                                     *)
LEMMA ThreadActions ==
    ASSUME TypeOK, ControlInv, DataInv,
           \/ \E c \in Clients : \/ WaitForCompaction(c) \/ WaitCheck(c)
                                 \/ SpuriousWakeup(c) \/ BeginClose(c)
           \/ \E t \in Threads : EndDrain(t)
           \/ WorkerWakes \/ WorkerExits \/ SetStop
    PROVE  /\ SameJobs
           /\ UNCHANGED <<memory, catalog, files, counters>>
           /\ phase # "closed" /\ phase' # "closed"
  <1>0. /\ pc \in [Threads -> PC] /\ Worker \in Threads
        /\ Clients \subseteq Threads
    BY DEF TypeOK, Threads
  <1> USE DEF SameJobs, BusyPC, JobPC, ControlInv
  <1>1. ASSUME NEW c \in Clients,
               \/ WaitForCompaction(c) \/ WaitCheck(c)
               \/ SpuriousWakeup(c) \/ BeginClose(c)
        PROVE  /\ SameJobs
               /\ UNCHANGED <<memory, catalog, files, counters>>
               /\ phase # "closed" /\ phase' # "closed"
    BY <1>0, <1>1
       DEF WaitForCompaction, WaitCheck, SpuriousWakeup, BeginClose, Goto
  <1>2. ASSUME NEW t \in Threads, EndDrain(t)
        PROVE  /\ SameJobs
               /\ UNCHANGED <<memory, catalog, files, counters>>
               /\ phase # "closed" /\ phase' # "closed"
    BY <1>0, <1>2 DEF EndDrain, Goto, NotifyIdle
  <1>3. CASE WorkerWakes \/ WorkerExits \/ SetStop
    BY <1>0, <1>3 DEF WorkerWakes, WorkerExits, SetStop, Goto, NotifyIdle,
                      threads
  <1>4. QED BY <1>1, <1>2, <1>3

(* Every step keeps the data part of the invariant.                        *)
LEMMA NextData ==
    ASSUME SingleDrainer, ~CrashInWindow, TypeOK, ControlInv, DataInv,
           [Next]_vars
    PROVE  DataInv'
  <1>1. ASSUME NEW c \in Clients, NEW k \in Keys, Insert(c, k) PROVE DataInv'
    BY <1>1, InsertData
  <1>2. ASSUME NEW t \in Threads, BeginFlush(t) \/ BeginCompact(t)
        PROVE  DataInv'
    BY <1>2, BeginData
  <1>3. ASSUME NEW t \in Threads, WriteFlush(t) \/ WriteCompaction(t)
        PROVE  DataInv'
    BY <1>3, WriteData
  <1>4. ASSUME NEW t \in Threads, WriteThrows(t) PROVE DataInv'
    BY <1>4, WriteThrowsData
  <1>5. ASSUME NEW t \in Threads, CommitFlush(t) PROVE DataInv'
    BY <1>5, CommitFlushData
  <1>6. ASSUME NEW t \in Threads, CommitCompaction(t) PROVE DataInv'
    BY <1>6, CommitCompactionData
  <1>7. ASSUME NEW t \in Threads, RemoveOld(t) PROVE DataInv'
    BY <1>7, RemoveOldData
  <1>8. ASSUME NEW t \in Threads, SaveManifest(t) PROVE DataInv'
    BY <1>8, SaveManifestData
  <1>8a. ASSUME NEW t \in Threads, SaveFails(t) PROVE DataInv'
    BY <1>8a, SaveFailsData
  <1>9. CASE EndClose \/ Crash
    BY <1>9, EndOfProcess
  <1>10. CASE Open
    BY <1>10, OpenData
  <1>11. CASE \/ \E c \in Clients : \/ WaitForCompaction(c) \/ WaitCheck(c)
                                    \/ SpuriousWakeup(c) \/ BeginClose(c)
              \/ \E t \in Threads : EndDrain(t)
              \/ WorkerWakes \/ WorkerExits \/ SetStop
    BY <1>11, ThreadActions, ThreadStep
  <1>12. CASE UNCHANGED vars
    <2> USE DEF vars, memory, catalog, files, threads, counters
    <2>1. /\ TablesRows(registry)' = TablesRows(registry)
          /\ TablesRows(manifest.entries)' = TablesRows(manifest.entries)
          /\ DequeRows(immutables)' = DequeRows(immutables)
          /\ \A t \in Threads :
               TablesRows(job[t].olds)' = TablesRows(job[t].olds)
          /\ \A i : RowsOf(i)' = RowsOf(i)
          /\ \A a, b : Removing(a, b)' <=> Removing(a, b)
          /\ DeleteWindow' <=> DeleteWindow
      BY <1>12 DEF TablesRows, RowsOf, DequeRows, Removing,
                   DeleteWindow
    <2>2. IdInv' /\ DiskInv' /\ JobDirInv'
      BY <1>12 DEF DataInv, IdInv, DiskInv, RegisteredOnDisk, JobDirInv
    <2>3. JobSourceInv' /\ RemovingInv'
      BY <1>12, <2>1 DEF DataInv, JobSourceInv, RemovingInv
    <2>4. PartitionInv' /\ ManifestInv'
      BY <1>12, <2>1 DEF DataInv, PartitionInv, ManifestInv
    <2>5. SeqInv'
      BY <1>12, <2>1 DEF DataInv, SeqInv, Visible
    <2>6. QED BY <2>2, <2>3, <2>4, <2>5 DEF DataInv
  <1>13. QED
    BY <1>1, <1>2, <1>3, <1>4, <1>5, <1>6, <1>7, <1>8, <1>8a, <1>9, <1>10,
       <1>11, <1>12 DEF Next, ClientStep, DrainStep

(* The invariant of the tree, for background mode and for synchronous mode *)
(* driven by one thread, with crashes at every point but the delete        *)
(* window.                                                                 *)
THEOREM TreeInvariant ==
    ASSUME SingleDrainer, ~CrashInWindow
    PROVE  Spec => []TreeInv
  <1>1. Init => TreeInv
    BY InitTypeOK, InitControl, InitData DEF TreeInv
  <1>2. TreeInv /\ [Next]_vars => TreeInv'
    BY NextTypeOK, NextControl, NextData DEF TreeInv
  <1>3. QED BY <1>1, <1>2, PTL DEF Spec

-----------------------------------------------------------------------------
(* What follows from the invariant.                                        *)

(* flush_one_locked and compact_one_locked never let a scan see a row      *)
(* twice.                                                                  *)
THEOREM RowsSeenOnce ==
    ASSUME SingleDrainer, ~CrashInWindow
    PROVE  Spec => []EachRowOnce
  <1>1. TreeInv => EachRowOnce
    <2> SUFFICES ASSUME TreeInv, Quiet PROVE EachRowOnce
      BY DEF EachRowOnce
    <2>1. \A t \in Threads : pc[t] # "removing"
      BY DEF TreeInv, ControlInv, Quiet, LockedPC
    <2>2. \A a, b : ~Removing(a, b)
      BY <2>1 DEF Removing
    <2>3. QED
      BY <2>2 DEF TreeInv, DataInv, PartitionInv, EachRowOnce
  <1>2. QED BY <1>1, TreeInvariant, PTL

(* A scan finds every registered table complete on disk.                   *)
THEOREM TablesOnDisk ==
    ASSUME SingleDrainer, ~CrashInWindow
    PROVE  Spec => []RegisteredOnDisk
  <1>1. TreeInv => RegisteredOnDisk
    BY DEF TreeInv, DataInv, DiskInv
  <1>2. QED BY <1>1, TreeInvariant, PTL

(* The pop at the end of a flush drops the memtable that was written.      *)
THEOREM FlushDropsWhatItWrote ==
    ASSUME SingleDrainer, ~CrashInWindow
    PROVE  Spec => []FlushTakesOldest
  <1>1. TreeInv => FlushTakesOldest
    BY DEF TreeInv, DataInv, JobSourceInv, FlushTakesOldest
  <1>2. QED BY <1>1, TreeInvariant, PTL

(* Ids may be reused after a crash, directories in use are not.            *)
THEOREM BuildersArePrivate ==
    ASSUME SingleDrainer, ~CrashInWindow
    PROVE  Spec => []JobDirPrivate
  <1>1. TreeInv => JobDirPrivate
    BY DEF TreeInv, DataInv, JobDirInv, JobPC, JobDirPrivate
  <1>2. QED BY <1>1, TreeInvariant, PTL

(* The rows of a saved manifest survive a crash and a close.               *)
THEOREM SavedRowsSurvive ==
    ASSUME SingleDrainer, ~CrashInWindow
    PROVE  Spec => []DurableSurvives
  <1>1. TreeInv => DurableSurvives
    <2> SUFFICES ASSUME TreeInv, phase = "closed" PROVE durable \subseteq Visible
      BY DEF DurableSurvives
    <2>1. ~DeleteWindow
      BY DEF TreeInv, ControlInv, DeleteWindow
    <2>2. durable = TablesRows(manifest.entries)
      BY <2>1 DEF TreeInv, DataInv, ManifestInv
    <2>3. QED BY <2>2 DEF Visible
  <1>2. QED BY <1>1, TreeInvariant, PTL

-----------------------------------------------------------------------------
(* The tree implements the abstract store.                                 *)

(* While the tree is open, durable rows are in registered tables, so an    *)
(* insert, which replaces rows of the active memtable only, replaces none. *)
LEMMA DurableRegistered ==
    ASSUME TreeInv, phase # "closed"
    PROVE  durable \subseteq TablesRows(registry)
  <1>1. CASE DeleteWindow
    BY <1>1 DEF TreeInv, DataInv, ManifestInv
  <1>2. CASE ~DeleteWindow
    <2>1. durable = TablesRows(manifest.entries)
          /\ manifest.entries \subseteq registry
      BY <1>2 DEF TreeInv, DataInv, ManifestInv
    <2>2. QED BY <2>1 DEF TablesRows
  <1>3. QED BY <1>1, <1>2

(* insert() is InsertRow.                                                  *)
LEMMA InsertRefines ==
    ASSUME TreeInv, NEW c \in Clients, NEW k \in Keys, Insert(c, k)
    PROVE  Store!InsertRow
  <1> DEFINE row == [key |-> k, seq |-> inserts + 1]
             old == {r \in active : r.key = k}
             table == MemTableInsert(active, row)
  <1>0. /\ phase = "open" /\ phase' = "open" /\ inserts \in Nat
        /\ inserts < MaxInserts /\ MaxInserts \in Nat
        /\ UNCHANGED <<disk, registry, durable>>
        /\ active \in SUBSET Row
        /\ immutables \in Seq((SUBSET Row) \ {{}})
    BY TreeAssumption DEF Insert, TreeInv, TypeOK, catalog, files
  <1>1. row \in [key : Keys, seq : 1 .. MaxInserts] /\ row \in Row
        /\ row.seq = inserts + 1
    BY <1>0 DEF Row
  <1>2. row \notin Visible
    BY <1>0, <1>1 DEF TreeInv, DataInv, SeqInv
  <1>3. table = (active \ old) \cup {row} /\ table \in (SUBSET Row) \ {{}}
    BY <1>0, <1>1 DEF MemTableInsert
  <1>4. \/ active' = table /\ immutables' = immutables
        \/ active' = {} /\ immutables' = PushBack(immutables, table)
    BY DEF Insert, ToSortedImmutable
  <1>5. old \subseteq active /\ \A r \in old : r.key = row.key
    OBVIOUS
  <1> HIDE DEF table, row, old
  <1>6. active' \cup DequeRows(immutables') = table \cup DequeRows(immutables)
    <2>1. CASE active' = table /\ immutables' = immutables
      BY <2>1
    <2>2. CASE active' = {} /\ immutables' = PushBack(immutables, table)
      <3>1. DequeRows(PushBack(immutables, table))
              = DequeRows(immutables) \cup table
        BY <1>0, <1>3, PushBackRows
      <3>2. QED BY <2>2, <3>1
    <2>3. QED BY <1>4, <2>1, <2>2
  <1>7. TablesRows(registry)' = TablesRows(registry)
    BY <1>0 DEF TablesRows, RowsOf
  <1>8. /\ Visible = active \cup DequeRows(immutables) \cup TablesRows(registry)
        /\ Visible' = active' \cup DequeRows(immutables')
                        \cup TablesRows(registry)'
    BY <1>0 DEF Visible
  <1>9. /\ old \cap DequeRows(immutables) = {}
        /\ old \cap TablesRows(registry) = {}
    BY <1>5 DEF TreeInv, DataInv, PartitionInv
  <1>10. Visible' = (Visible \ old) \cup {row}
    BY <1>3, <1>6, <1>7, <1>8, <1>9
  <1>11. old \subseteq Visible \ durable
    BY <1>0, <1>5, <1>8, <1>9, DurableRegistered
  <1>12. old \in SUBSET {r \in Visible \ durable : r.key = row.key}
    BY <1>5, <1>11
  <1>13. QED BY <1>0, <1>1, <1>2, <1>10, <1>12 DEF Store!InsertRow, Mode

(* Every step of the tree is a step of the store or invisible to it.       *)
LEMMA StepRefines ==
    ASSUME SingleDrainer, ~CrashInWindow, TreeInv, [Next]_vars
    PROVE  [Store!StoreNext]_<<Visible, durable, Mode>>
  <1> USE DEF TreeInv
  <1>1. ASSUME NEW c \in Clients, NEW k \in Keys, Insert(c, k)
        PROVE  Store!StoreNext
    BY <1>1, InsertRefines DEF Store!StoreNext
  <1>2. ASSUME NEW t \in Threads,
               \/ BeginFlush(t) \/ BeginCompact(t) \/ WriteFlush(t)
               \/ WriteCompaction(t) \/ WriteThrows(t) \/ SaveFails(t)
               \/ CommitFlush(t) \/ CommitCompaction(t) \/ RemoveOld(t)
        PROVE  UNCHANGED <<Visible, durable, Mode>>
    <2>1. durable' = durable
      BY <1>2 DEF BeginFlush, BeginCompact, WriteFlush, WriteCompaction,
                  WriteThrows, SaveFails, CommitFlush, CommitCompaction,
                  RemoveOld, files
    <2>2. Visible' = Visible
      BY <1>2, BeginData, WriteData, WriteThrowsData, SaveFailsData,
         CommitFlushData, CommitCompactionData, RemoveOldData
    <2>3. Mode' = Mode
      BY <1>2 DEF BeginFlush, BeginCompact, WriteFlush, WriteCompaction,
                  WriteThrows, SaveFails, CommitFlush, CommitCompaction,
                  RemoveOld, Mode
    <2>4. QED BY <2>1, <2>2, <2>3
  <1>3. ASSUME NEW t \in Threads, SaveManifest(t) PROVE Store!StoreNext
    <2>1. Visible' = Visible /\ durable' = TablesRows(registry)
      BY <1>3, SaveManifestData DEF SaveManifest
    <2>2. phase # "closed" /\ phase' = phase
      BY <1>3 DEF SaveManifest, ControlInv
    <2>3. TablesRows(registry) \subseteq Visible
      BY <2>2 DEF Visible
    <2>4. durable \subseteq TablesRows(registry)
      BY <2>2, DurableRegistered
    <2>5. QED BY <2>1, <2>2, <2>3, <2>4 DEF Store!StoreNext, Store!Persist, Mode
  <1>4. CASE EndClose \/ Crash
    <2>1. /\ ~DeleteWindow
          /\ TablesRows(manifest.entries) \subseteq Visible
          /\ Visible' = TablesRows(manifest.entries)
          /\ durable' = durable
      BY <1>4, EndOfProcess
    <2>2. durable = TablesRows(manifest.entries)
      BY <2>1 DEF DataInv, ManifestInv
    <2>3. phase # "closed" /\ phase' = "closed"
      BY <1>4 DEF EndClose, Crash, LoseMemory
    <2>4. QED BY <2>1, <2>2, <2>3 DEF Store!StoreNext, Store!Stop, Mode
  <1>5. CASE Open
    BY <1>5, OpenData DEF Open, files, Store!StoreNext, Store!Start, Mode
  <1>6. CASE \/ \E c \in Clients : \/ WaitForCompaction(c) \/ WaitCheck(c)
                                   \/ SpuriousWakeup(c) \/ BeginClose(c)
             \/ \E t \in Threads : EndDrain(t)
             \/ WorkerWakes \/ WorkerExits \/ SetStop
    <2>1. Visible' = Visible
      BY <1>6, ThreadActions, ThreadStep
    <2>2. durable' = durable
      BY <1>6, ThreadActions DEF files
    <2>3. Mode' = Mode
      BY <1>6, ThreadActions DEF Mode
    <2>4. QED BY <2>1, <2>2, <2>3
  <1>7. CASE UNCHANGED vars
    BY <1>7 DEF vars, memory, catalog, files, Visible, TablesRows, RowsOf,
                DequeRows, Mode
  <1>8. QED
    BY <1>1, <1>2, <1>3, <1>4, <1>5, <1>6, <1>7 DEF Next, ClientStep, DrainStep

(* The tree implements RowStore: while it is open, flushes and compactions *)
(* change nothing a reader sees and no row is lost; inserts never replace  *)
(* a durable row, and crashes and closes never lose one.                   *)
THEOREM TreeImplementsStore ==
    ASSUME SingleDrainer, ~CrashInWindow
    PROVE  Spec => ImplementsRowStore
  <1>1. Init => Store!StoreInit
    BY DEF Init, Store!StoreInit, Visible, TablesRows, DequeRows, Mode
  <1>2. TreeInv /\ [Next]_vars => [Store!StoreNext]_<<Visible, durable, Mode>>
    BY StepRefines
  <1>3. QED
    BY <1>1, <1>2, TreeInvariant, PTL
       DEF Spec, ImplementsRowStore, Store!StoreSpec, Store!storeVars

-----------------------------------------------------------------------------
(* wait_for_compaction() is a barrier and ~LSMTree loses only the active    *)
(* memtable, in every configuration in which no write fails in a process     *)
(* that goes on.                                                             *)

LEMMA InitBarrier == Init => BarrierInv
  BY TreeAssumption
     DEF Init, BarrierInv, FlagInv, SavedInv, QueueInv, WaitedFor,
         StartedThreads, Threads, EmptyManifest, DrainPC, LockedPC, JobPC

-----------------------------------------------------------------------------
(* The flags.                                                              *)

(* stop_ and worker_busy_ follow the threads.                              *)
LEMMA NextFlag ==
    ASSUME TypeOK, ControlInv, FlagInv, [Next]_vars
    PROVE  FlagInv'
  <1> USE DEF FlagInv, LockedPC, JobPC, DrainPC, flags, threads
  <1>0. pc \in [Threads -> PC] /\ Worker \in Threads /\ Worker \notin Clients
        /\ Clients \subseteq Threads
    BY TreeAssumption DEF TypeOK, Threads
  <1>1. ASSUME NEW c \in Clients, NEW k \in Keys, Insert(c, k) PROVE FlagInv'
    BY <1>0, <1>1 DEF Insert, Goto
  <1>2. ASSUME NEW c \in Clients,
               \/ WaitForCompaction(c) \/ WaitCheck(c)
               \/ SpuriousWakeup(c) \/ BeginClose(c)
        PROVE  FlagInv'
    BY <1>0, <1>2
       DEF WaitForCompaction, WaitCheck, SpuriousWakeup, BeginClose, Goto
  <1>3. ASSUME NEW t \in Threads,
               \/ BeginFlush(t) \/ BeginCompact(t) \/ WriteFlush(t)
               \/ WriteCompaction(t) \/ WriteThrows(t) \/ CommitFlush(t)
               \/ CommitCompaction(t) \/ RemoveOld(t) \/ SaveManifest(t)
               \/ SaveFails(t)
        PROVE  FlagInv'
    <2>1. /\ pc[t] \in DrainPC
          /\ \E label \in DrainPC \cup {"idle"} : pc' = [pc EXCEPT ![t] = label]
          /\ UNCHANGED <<stop, worker_busy, phase>>
      BY <1>3 DEF BeginFlush, BeginCompact, WriteFlush, WriteCompaction,
                  WriteThrows, CommitFlush, CommitCompaction, RemoveOld,
                  SaveManifest, SaveFails, Goto
    <2>2. phase = "joining" => t \notin Clients
      BY <2>1
    <2>3. QED BY <1>0, <2>1, <2>2
  <1>4. ASSUME NEW t \in Threads, EndDrain(t) PROVE FlagInv'
    BY <1>0, <1>4 DEF EndDrain, NotifyIdle, Goto, ControlInv
  <1>5. CASE WorkerWakes
    BY <1>0, <1>5 DEF WorkerWakes, Goto
  <1>6. CASE WorkerExits
    BY <1>0, <1>6 DEF WorkerExits, NotifyIdle
  <1>7. CASE SetStop
    BY <1>0, <1>7 DEF SetStop
  <1>8. CASE EndClose \/ Crash
    BY <1>0, <1>8 DEF EndClose, Crash, LoseMemory, EndedThreads
  <1>9. CASE Open
    BY <1>0, <1>9 DEF Open, StartedThreads
  <1>10. CASE UNCHANGED vars
    BY <1>10 DEF vars
  <1>11. QED
    BY <1>1, <1>2, <1>3, <1>4, <1>5, <1>6, <1>7, <1>8, <1>9, <1>10
       DEF Next, ClientStep, DrainStep

-----------------------------------------------------------------------------
(* The manifest.                                                           *)

(* A commit is followed by a save before the drain loop goes on, and a     *)
(* reopened tree starts from its manifest.                                 *)
LEMMA NextSaved ==
    ASSUME WritesSucceed, TypeOK, ControlInv, SavedInv, [Next]_vars
    PROVE  SavedInv'
  <1> USE DEF SavedInv, catalog, files
  <1>0. pc \in [Threads -> PC] /\ Worker \in Threads /\ Clients \subseteq Threads
    BY DEF TypeOK, Threads
  <1>1. ASSUME NEW c \in Clients, NEW k \in Keys, Insert(c, k) PROVE SavedInv'
    BY <1>0, <1>1 DEF Insert, Goto
  <1>2. ASSUME NEW c \in Clients,
               \/ WaitForCompaction(c) \/ WaitCheck(c)
               \/ SpuriousWakeup(c) \/ BeginClose(c)
        PROVE  SavedInv'
    BY <1>0, <1>2
       DEF WaitForCompaction, WaitCheck, SpuriousWakeup, BeginClose, Goto
  <1>3. ASSUME NEW t \in Threads,
               \/ BeginFlush(t) \/ BeginCompact(t) \/ WriteFlush(t)
               \/ WriteCompaction(t) \/ WriteThrows(t)
        PROVE  SavedInv'
    BY <1>0, <1>3
       DEF BeginFlush, BeginCompact, WriteFlush, WriteCompaction, WriteThrows,
           Goto
  <1>4. ASSUME NEW t \in Threads,
               CommitFlush(t) \/ CommitCompaction(t) \/ RemoveOld(t)
        PROVE  SavedInv'
    <2>1. pc'[t] \in {"removing", "saving"}
      BY <1>0, <1>4 DEF CommitFlush, CommitCompaction, RemoveOld, Goto
    <2>2. QED BY <2>1
  <1>5. ASSUME NEW t \in Threads, SaveManifest(t) PROVE SavedInv'
    BY <1>5 DEF SaveManifest, ManifestOf
  <1>6. ASSUME NEW t \in Threads, SaveFails(t) PROVE SavedInv'
    BY <1>6 DEF SaveFails, WritesSucceed, TypeOK
  <1>7. ASSUME NEW t \in Threads, EndDrain(t) PROVE SavedInv'
    BY <1>0, <1>7 DEF EndDrain, NotifyIdle, Goto
  <1>8. CASE WorkerWakes \/ WorkerExits \/ SetStop
    BY <1>0, <1>8
       DEF WorkerWakes, WorkerExits, SetStop, NotifyIdle, Goto, threads
  <1>9. CASE EndClose \/ Crash
    BY <1>9 DEF EndClose, Crash, LoseMemory
  <1>10. CASE Open
    BY <1>10 DEF Open
  <1>11. CASE UNCHANGED vars
    BY <1>11 DEF vars, threads
  <1>12. QED
    BY <1>1, <1>2, <1>3, <1>4, <1>5, <1>6, <1>7, <1>8, <1>9, <1>10, <1>11
       DEF Next, ClientStep, DrainStep

-----------------------------------------------------------------------------
(* The queue.                                                              *)

(* A job that the invariant describes can read its source.                 *)
LEMMA JobSourceReadable ==
    ASSUME TreeInv, NEW t \in Threads, pc[t] \in {"flushing", "compacting"}
    PROVE  SourcesReadable(t)
  BY DEF TreeInv, DataInv, JobSourceInv, DiskInv, RegisteredOnDisk,
         SourcesReadable

(* In synchronous mode the queue is empty between two calls.               *)
LEMMA NextSyncQueue ==
    ASSUME MaxFaults = 0, ~Background, TreeInv, FlagInv, QueueInv, [Next]_vars,
           \A t \in Threads : pc'[t] \notin DrainPC
    PROVE  immutables' = <<>>
  <1> USE DEF QueueInv, memory
  <1>0. /\ pc \in [Threads -> PC] /\ Worker \in Threads
        /\ Clients \subseteq Threads /\ pc[Worker] = "exited"
        /\ faults = 0
    BY DEF TreeInv, TypeOK, ControlInv, Threads
  <1>1. ASSUME NEW t \in Threads, EndDrain(t) PROVE immutables' = <<>>
    <2>1. ~stop
      BY <1>1 DEF EndDrain, TreeInv, ControlInv, FlagInv, DrainPC, LockedPC
    <2>2. QED BY <1>1, <2>1 DEF EndDrain, DrainDone, HasPendingWork
  <1>2. ASSUME NEW t \in Threads, WriteThrows(t) PROVE FALSE
    BY <1>0, <1>2, JobSourceReadable DEF WriteThrows
  <1>3. ASSUME NEW t \in Threads, SaveFails(t) PROVE FALSE
    BY <1>0, <1>3 DEF SaveFails
  <1>4. ASSUME NEW t \in Threads,
               \/ BeginFlush(t) \/ BeginCompact(t) \/ WriteFlush(t)
               \/ WriteCompaction(t) \/ CommitFlush(t) \/ CommitCompaction(t)
               \/ RemoveOld(t) \/ SaveManifest(t)
        PROVE  FALSE
    <2>1. pc'[t] \in DrainPC
      BY <1>0, <1>4
         DEF BeginFlush, BeginCompact, WriteFlush, WriteCompaction, CommitFlush,
             CommitCompaction, RemoveOld, SaveManifest, Goto, DrainPC, LockedPC,
             JobPC
    <2>2. QED BY <2>1
  <1>5. ASSUME NEW c \in Clients,
               WaitForCompaction(c) \/ \E k \in Keys : Insert(c, k)
        PROVE  FALSE
    <2>1. pc'[c] = "draining"
      BY <1>0, <1>5 DEF WaitForCompaction, Insert, Goto
    <2>2. QED BY <1>0, <2>1 DEF DrainPC, LockedPC
  <1>6. ASSUME NEW c \in Clients,
               WaitCheck(c) \/ SpuriousWakeup(c) \/ BeginClose(c)
        PROVE  immutables' = <<>>
    <2>1. \A t \in Threads : pc[t] \notin DrainPC
      BY <1>0, <1>6 DEF WaitCheck, SpuriousWakeup, BeginClose, Goto, DrainPC,
                        LockedPC, JobPC
    <2>2. QED BY <1>6, <2>1 DEF WaitCheck, SpuriousWakeup, BeginClose
  <1>7. CASE WorkerWakes \/ WorkerExits
    BY <1>0, <1>7 DEF WorkerWakes, WorkerExits
  <1>8. CASE SetStop \/ UNCHANGED vars
    BY <1>8 DEF SetStop, threads, vars
  <1>9. CASE EndClose \/ Crash
    BY <1>9 DEF EndClose, Crash, LoseMemory
  <1>10. CASE Open
    BY <1>10 DEF Open, TreeInv, ControlInv
  <1>11. QED
    BY <1>1, <1>2, <1>3, <1>4, <1>5, <1>6, <1>7, <1>8, <1>9, <1>10
       DEF Next, ClientStep, DrainStep

(* In background mode nothing is pending once the wait of the destructor   *)
(* has returned, and the worker starts no job any more.                    *)
LEMMA NextWaitedFor ==
    ASSUME Background, TreeInv, FlagInv, QueueInv, [Next]_vars, WaitedFor'
    PROVE  ~HasPendingWork' /\ pc'[Worker] \notin BusyPC
  <1> USE DEF QueueInv, memory, catalog, WaitedFor, BusyPC, JobPC
  <1>0. /\ pc \in [Threads -> PC] /\ Worker \in Threads
        /\ Clients \subseteq Threads /\ Worker \notin Clients
        /\ \A t \in Threads : pc[t] \in DrainPC => t = Worker
        /\ \A t \in Threads : t \in Clients \/ t = Worker
    BY TreeAssumption DEF TreeInv, TypeOK, ControlInv, Threads, Drainers
  <1>1. UNCHANGED <<immutables, registry>> => HasPendingWork' = HasPendingWork
    BY DEF HasPendingWork
  <1>2. ASSUME NEW c \in Clients,
               \/ \E k \in Keys : Insert(c, k)
               \/ WaitForCompaction(c) \/ SpuriousWakeup(c) \/ BeginClose(c)
        PROVE  FALSE
    <2>1. pc[c] = "asleep" => ~WaitedFor
      BY DEF FlagInv
    <2>2. SpuriousWakeup(c) => ~WaitedFor'
      BY <1>0, <2>1 DEF SpuriousWakeup, Goto, FlagInv
    <2>3. BeginClose(c) => ~WaitedFor'
      BY <1>0 DEF BeginClose, Goto
    <2>4. QED BY <1>2, <2>2, <2>3 DEF Insert, WaitForCompaction
  <1>3. ASSUME NEW c \in Clients, WaitCheck(c)
        PROVE  ~HasPendingWork' /\ pc'[Worker] \notin BusyPC
    <2>1. phase = "closing" /\ pc'[c] = "idle"
      BY <1>0, <1>3 DEF WaitCheck, Goto, FlagInv
    <2>2. IdlePredicate /\ ~stop
      BY <1>0, <1>3, <2>1 DEF WaitCheck, Goto, FlagInv
    <2>3. ~HasPendingWork /\ pc[Worker] \notin BusyPC
      BY <2>2 DEF IdlePredicate, FlagInv, DrainPC, LockedPC
    <2>4. QED BY <1>0, <1>1, <1>3, <2>3 DEF WaitCheck, Goto
  <1>4. ASSUME NEW t \in Threads,
               \/ BeginFlush(t) \/ BeginCompact(t) \/ WriteFlush(t)
               \/ WriteCompaction(t) \/ WriteThrows(t) \/ CommitFlush(t)
               \/ CommitCompaction(t) \/ RemoveOld(t) \/ SaveManifest(t)
               \/ SaveFails(t)
        PROVE  FALSE
    <2>1. /\ pc[t] \in DrainPC /\ phase' = phase
          /\ \E label \in PC : pc' = [pc EXCEPT ![t] = label]
          /\ pc[t] = "draining" => BeginFlush(t) \/ BeginCompact(t)
      BY <1>4 DEF BeginFlush, BeginCompact, WriteFlush, WriteCompaction,
                  WriteThrows, CommitFlush, CommitCompaction, RemoveOld,
                  SaveManifest, SaveFails, Goto, DrainPC, LockedPC, PC
    <2>2. t = Worker
      BY <1>0, <2>1
    <2>3. WaitedFor
      BY <1>0, <2>1, <2>2
    <2>4. pc[t] = "draining"
      BY <2>1, <2>2, <2>3 DEF DrainPC, LockedPC
    <2>5. HasPendingWork
      BY <2>1, <2>4 DEF BeginFlush, BeginCompact, HasPendingWork
    <2>6. QED BY <2>3, <2>5
  <1>5. ASSUME NEW t \in Threads, EndDrain(t)
        PROVE  ~HasPendingWork' /\ pc'[Worker] \notin BusyPC
    <2>1. t = Worker
      BY <1>0, <1>5 DEF EndDrain, DrainPC, LockedPC
    <2>2. WaitedFor
      BY <1>0, <1>5, <2>1 DEF EndDrain, NotifyIdle
    <2>3. QED BY <1>0, <1>1, <1>5, <2>1, <2>2 DEF EndDrain, NotifyIdle
  <1>6. CASE WorkerWakes \/ WorkerExits \/ SetStop
    <2>1. WaitedFor
      BY <1>0, <1>6 DEF WorkerWakes, WorkerExits, SetStop, NotifyIdle, Goto,
                        threads
    <2>2. pc'[Worker] \notin BusyPC
      BY <1>0, <1>6, <2>1 DEF WorkerWakes, WorkerExits, SetStop, NotifyIdle,
                              Goto, threads
    <2>3. QED BY <1>1, <1>6, <2>1, <2>2 DEF WorkerWakes, WorkerExits, SetStop
  <1>7. CASE EndClose \/ Crash \/ Open
    BY <1>7 DEF EndClose, Crash, LoseMemory, Open
  <1>8. CASE UNCHANGED vars
    BY <1>1, <1>8 DEF vars, threads
  <1>9. QED
    BY <1>2, <1>3, <1>4, <1>5, <1>6, <1>7, <1>8 DEF Next, ClientStep, DrainStep

(* The barrier part of the invariant.                                      *)
LEMMA NextBarrier ==
    ASSUME WritesSucceed, TreeInv, BarrierInv, [Next]_vars
    PROVE  BarrierInv'
  <1>1. FlagInv' /\ SavedInv'
    BY NextFlag, NextSaved DEF BarrierInv, TreeInv
  <1>2. QueueInv'
    BY NextSyncQueue, NextWaitedFor DEF BarrierInv, QueueInv, WritesSucceed
  <1>3. QED BY <1>1, <1>2 DEF BarrierInv

LEMMA BarrierInvariant ==
    ASSUME SingleDrainer, ~CrashInWindow, WritesSucceed
    PROVE  Spec => [](TreeInv /\ BarrierInv)
  <1>1. TreeInv /\ BarrierInv /\ [Next]_vars => BarrierInv'
    BY NextBarrier
  <1>2. QED BY <1>1, InitBarrier, TreeInvariant, PTL DEF Spec

-----------------------------------------------------------------------------
(* What callers may rely on.                                               *)

(* While nobody is between a commit and its save and nothing is pending,   *)
(* all rows but the active ones are durable.                               *)
LEMMA SettledRows ==
    ASSUME TreeInv, BarrierInv, phase # "closed", immutables = <<>>,
           \A t \in Threads : pc[t] \notin {"removing", "saving"}
    PROVE  /\ TablesRows(manifest.entries) = TablesRows(registry)
           /\ durable = TablesRows(registry)
           /\ Visible \ active = TablesRows(registry)
  <1>1. manifest.entries = registry
    BY DEF BarrierInv, SavedInv
  <1>2. durable = TablesRows(manifest.entries)
    BY DEF TreeInv, DataInv, ManifestInv, DeleteWindow
  <1>3. DequeRows(immutables) = {}
    BY DEF DequeRows
  <1>4. Visible \ active = TablesRows(registry)
    BY <1>3 DEF TreeInv, DataInv, PartitionInv, Visible
  <1>5. QED BY <1>1, <1>2, <1>4

(* When wait_for_compaction() or a synchronous drain returns, every row    *)
(* that is not in the active memtable is covered by the manifest on disk,  *)
(* and no work is pending.                                                 *)
THEOREM WaitIsABarrier ==
    ASSUME SingleDrainer, ~CrashInWindow, WritesSucceed
    PROVE  Spec => BarrierDurable
  <1> DEFINE Returns(c) == /\ pc[c] \in {"waitcheck", "draining"}
                           /\ pc'[c] = "idle"
                           /\ phase' # "closed"
             Settled == Visible \ active \subseteq durable /\ ~HasPendingWork
  <1>1. ASSUME TreeInv, BarrierInv, [Next]_vars, NEW c \in Clients, Returns(c)
        PROVE  Settled
    <2>0. /\ pc \in [Threads -> PC] /\ c \in Threads
          /\ Worker \notin Clients
      BY <1>1, TreeAssumption DEF TreeInv, TypeOK, Threads
    <2>1. WaitCheck(c) \/ EndDrain(c)
      <3>1. ASSUME NEW d \in Clients,
                   \/ \E k \in Keys : Insert(d, k)
                   \/ WaitForCompaction(d) \/ WaitCheck(d)
                   \/ SpuriousWakeup(d) \/ BeginClose(d)
            PROVE  WaitCheck(c)
        BY <1>1, <2>0, <3>1 DEF Insert, WaitForCompaction, WaitCheck,
                                SpuriousWakeup, BeginClose, Goto, threads
      <3>2. ASSUME NEW t \in Threads,
                   \/ BeginFlush(t) \/ BeginCompact(t) \/ WriteFlush(t)
                   \/ WriteCompaction(t) \/ WriteThrows(t) \/ CommitFlush(t)
                   \/ CommitCompaction(t) \/ RemoveOld(t) \/ SaveManifest(t)
                   \/ SaveFails(t)
            PROVE  FALSE
        BY <1>1, <2>0, <3>2 DEF BeginFlush, BeginCompact, WriteFlush,
             WriteCompaction, WriteThrows, CommitFlush, CommitCompaction,
             RemoveOld, SaveManifest, SaveFails, Goto
      <3>3. ASSUME NEW t \in Threads, EndDrain(t) PROVE EndDrain(c)
        BY <1>1, <2>0, <3>3 DEF EndDrain, NotifyIdle, Goto
      <3>4. CASE WorkerWakes \/ WorkerExits \/ SetStop \/ UNCHANGED vars
        BY <1>1, <2>0, <3>4 DEF WorkerWakes, WorkerExits, SetStop, NotifyIdle,
                                Goto, threads, vars
      <3>5. CASE EndClose \/ Crash \/ Open
        BY <1>1, <2>0, <3>5 DEF EndClose, Crash, LoseMemory, Open, TreeInv,
                                ControlInv
      <3>6. QED
        BY <1>1, <3>1, <3>2, <3>3, <3>4, <3>5 DEF Next, ClientStep, DrainStep
    <2>2. phase # "closed" /\ ~stop
      BY <1>1, <2>0 DEF TreeInv, ControlInv, BarrierInv, FlagInv
    <2>3. ~HasPendingWork
      BY <1>1, <2>0, <2>1, <2>2
         DEF WaitCheck, EndDrain, Goto, IdlePredicate, DrainDone
    <2>4. \A t \in Threads : pc[t] \notin {"removing", "saving"}
      BY <1>1, <2>0, <2>1 DEF WaitCheck, EndDrain, TreeInv, ControlInv, LockedPC
    <2>5. immutables = <<>>
      BY <2>3 DEF HasPendingWork
    <2>6. QED BY <1>1, <2>2, <2>3, <2>4, <2>5, SettledRows
  <1>2. TreeInv /\ BarrierInv /\ [Next]_vars =>
          [\A c \in Clients : Returns(c) => Settled]_vars
    BY <1>1
  <1>3. QED BY <1>2, BarrierInvariant, PTL DEF Spec, BarrierDurable

(* ~LSMTree loses the active memtable and nothing else.                    *)
THEOREM DestructorKeepsFrozenRows ==
    ASSUME SingleDrainer, ~CrashInWindow, WritesSucceed
    PROVE  Spec => CloseLosesOnlyActive
  <1> DEFINE Closes == phase = "joining" /\ phase' = "closed" /\ faults' = faults
  <1>1. ASSUME TreeInv, BarrierInv, [Next]_vars, Closes
        PROVE  Visible' = Visible \ active
    <2>0. /\ faults \in Nat
          /\ Worker \in Threads
          /\ \A t \in Threads : t \in Clients \/ t = Worker
      BY <1>1, TreeAssumption DEF TreeInv, TypeOK, Threads
    <2>1. EndClose
      BY <1>1, <2>0 DEF Next, ClientStep, DrainStep, Insert, WaitForCompaction,
           WaitCheck, SpuriousWakeup, BeginClose, BeginFlush, BeginCompact,
           WriteFlush, WriteCompaction, WriteThrows, CommitFlush,
           CommitCompaction, RemoveOld, SaveManifest, SaveFails, EndDrain,
           WorkerWakes, WorkerExits, SetStop, Crash, Open, vars
    <2>2. \A t \in Threads : pc[t] \notin DrainPC
      BY <1>1, <2>0, <2>1
         DEF EndClose, BarrierInv, FlagInv, DrainPC, LockedPC, JobPC
    <2>3. immutables = <<>>
      BY <1>1, <2>2 DEF BarrierInv, QueueInv, WaitedFor, HasPendingWork
    <2>4. /\ TablesRows(manifest.entries) = TablesRows(registry)
          /\ Visible \ active = TablesRows(registry)
      BY <1>1, <2>2, <2>3, SettledRows DEF DrainPC, LockedPC
    <2>5. Visible' = TablesRows(manifest.entries)
      BY <2>1 DEF EndClose, LoseMemory, files, Visible, TablesRows, RowsOf
    <2>6. QED BY <2>4, <2>5
  <1>2. TreeInv /\ BarrierInv /\ [Next]_vars =>
          [Closes => Visible' = Visible \ active]_vars
    BY <1>1
  <1>3. QED BY <1>2, BarrierInvariant, PTL DEF Spec, CloseLosesOnlyActive

-----------------------------------------------------------------------------
(* What scan() relies on: the order of its sources is an order of age, and *)
(* skipping tables by their key bounds loses no row.  With the barrier     *)
(* this completes the inductive invariant of the tree.                     *)

(* No table is being replaced unless the one drainer removes old tables.   *)
LEMMA NothingRemoved ==
    ASSUME SingleDrainer, ControlInv,
           NEW t \in Threads, pc[t] \in DrainPC, pc[t] # "removing"
    PROVE  \A a, b : ~Removing(a, b)
  BY OneDrainer DEF Removing, DrainPC, LockedPC

(* An SSTable is immutable: no step rewrites the rows of a table that the  *)
(* registry or the manifest names, it can only delete the whole table.     *)
LEMMA TablesImmutable ==
    ASSUME SingleDrainer, TreeInv, [Next]_vars
    PROVE  \A i \in registry \cup manifest.entries : RowsOf(i)' \subseteq RowsOf(i)
  <1> USE DEF files
  <1>1. ASSUME NEW t \in Threads, BeginFlush(t) \/ BeginCompact(t)
        PROVE  \A i \in registry \cup manifest.entries :
                 RowsOf(i)' \subseteq RowsOf(i)
    <2>1. phase # "closed"
      BY <1>1 DEF BeginFlush, BeginCompact, TreeInv, ControlInv
    <2>2. manifest.next \in Nat /\ next_sst_id \in Nat
          /\ \A i \in registry \cup manifest.entries : i.id \in Nat
      BY DEF TreeInv, TypeOK, Info
    <2>3. \A i \in registry \cup manifest.entries : i.id < next_sst_id
      BY <2>1, <2>2 DEF TreeInv, DataInv, IdInv
    <2>4. \A i \in registry \cup manifest.entries : i.id # next_sst_id
      BY <2>2, <2>3
    <2>5. disk' = [id \in DOMAIN disk \cup {next_sst_id} |->
                     IF id = next_sst_id THEN {} ELSE disk[id]]
      BY <1>1 DEF BeginFlush, BeginCompact
    <2>6. QED BY <2>4, <2>5 DEF RowsOf
  <1>2. ASSUME NEW t \in Threads, WriteFlush(t) \/ WriteCompaction(t)
        PROVE  \A i \in registry \cup manifest.entries :
                 RowsOf(i)' \subseteq RowsOf(i)
    <2>1. \A i \in registry \cup manifest.entries : i.id # job[t].id
      BY <1>2 DEF WriteFlush, WriteCompaction, TreeInv, DataInv, JobDirInv, JobPC
    <2>2. disk' = [disk EXCEPT ![job[t].id] = SourceRows(t)]
      BY <1>2 DEF WriteFlush, WriteCompaction, BuildTable
    <2>3. QED BY <2>1, <2>2 DEF RowsOf
  <1>3. ASSUME NEW t \in Threads, RemoveOld(t)
        PROVE  \A i \in registry \cup manifest.entries :
                 RowsOf(i)' \subseteq RowsOf(i)
    <2>1. PICK o \in job[t].olds :
            disk' = [id \in DOMAIN disk \ {o.id} |-> disk[id]]
      BY <1>3 DEF RemoveOld
    <2>2. QED BY <2>1 DEF RowsOf
  <1>4. CASE UNCHANGED disk
    BY <1>4 DEF RowsOf
  <1>5. ASSUME NEW t \in Threads,
               \/ WriteThrows(t) \/ SaveFails(t) \/ CommitFlush(t)
               \/ CommitCompaction(t) \/ SaveManifest(t) \/ EndDrain(t)
        PROVE  UNCHANGED disk
    BY <1>5 DEF WriteThrows, SaveFails, CommitFlush, CommitCompaction,
                SaveManifest, EndDrain
  <1>6. ASSUME NEW c \in Clients,
               \/ \E k \in Keys : Insert(c, k)
               \/ WaitForCompaction(c) \/ WaitCheck(c)
               \/ SpuriousWakeup(c) \/ BeginClose(c)
        PROVE  UNCHANGED disk
    BY <1>6 DEF Insert, WaitForCompaction, WaitCheck, SpuriousWakeup, BeginClose
  <1>7. CASE \/ WorkerWakes \/ WorkerExits \/ SetStop
             \/ EndClose \/ Crash \/ Open \/ UNCHANGED vars
    BY <1>4, <1>7 DEF WorkerWakes, WorkerExits, SetStop, EndClose, Crash, Open,
                      vars
  <1>8. QED
    BY <1>1, <1>2, <1>3, <1>4, <1>5, <1>6, <1>7 DEF Next, ClientStep, DrainStep

-----------------------------------------------------------------------------
(* The key bounds.                                                         *)

LEMMA InitBounds == Init => BoundsInv
  BY DEF Init, BoundsInv, EmptyManifest, StartedThreads

(* The bounds recorded for a table are those of the rows its builder was   *)
(* given, and the table never changes afterwards.                          *)
LEMMA NextBounds ==
    ASSUME SingleDrainer, TreeInv, BoundsInv, [Next]_vars
    PROVE  BoundsInv'
  <1> USE DEF Within, catalog, files, threads
  <1>0. /\ pc \in [Threads -> PC] /\ job \in [Threads -> Job]
        /\ Worker \in Threads /\ Clients \subseteq Threads
    BY DEF TreeInv, TypeOK, Threads
  <1> DEFINE Kept(i) == Within(RowsOf(i), i.min_key, i.max_key)'
  <1>1. \A i \in registry \cup manifest.entries : Kept(i)
    BY TablesImmutable DEF BoundsInv
  <1> DEFINE Jobs == \A t \in Threads : pc'[t] \in {"flushed", "compacted"} =>
                       Within(job'[t].rows, job'[t].min_key, job'[t].max_key)
  <1>2. ASSUME NEW t \in Threads,
               \/ BeginFlush(t) \/ BeginCompact(t) \/ WriteThrows(t)
               \/ SaveFails(t) \/ SaveManifest(t) \/ RemoveOld(t)
        PROVE  BoundsInv'
    <2>1. /\ pc'[t] \notin {"flushed", "compacted"}
          /\ \A u \in Threads : u # t => pc'[u] = pc[u] /\ job'[u] = job[u]
          /\ registry' \subseteq registry
          /\ manifest'.entries \subseteq registry \cup manifest.entries
      <3>1. CASE BeginFlush(t) \/ BeginCompact(t)
        BY <1>0, <3>1 DEF BeginFlush, BeginCompact, Goto
      <3>2. CASE WriteThrows(t) \/ SaveFails(t)
        BY <1>0, <3>2 DEF WriteThrows, SaveFails, Goto
      <3>3. CASE SaveManifest(t)
        BY <1>0, <3>3 DEF SaveManifest, ManifestOf, Goto
      <3>4. CASE RemoveOld(t)
        BY <1>0, <3>4 DEF RemoveOld, Remove, Goto
      <3>5. QED BY <1>2, <3>1, <3>2, <3>3, <3>4
    <2>2. Jobs
      BY <2>1 DEF BoundsInv
    <2>3. QED BY <1>1, <2>1, <2>2 DEF BoundsInv
  <1>3. ASSUME NEW t \in Threads, WriteFlush(t) \/ WriteCompaction(t)
        PROVE  BoundsInv'
    <2>1. PICK lo \in SourceRows(t), hi \in SourceRows(t), size \in FileSizes :
            /\ \A r \in SourceRows(t) : lo.key <= r.key /\ r.key <= hi.key
            /\ job' = [job EXCEPT ![t] =
                         BuiltJob(@, SourceRows(t), lo.key, hi.key, size)]
      BY <1>3 DEF WriteFlush, WriteCompaction, BuildTable
    <2>2. /\ job'[t].rows = SourceRows(t)
          /\ job'[t].min_key = lo.key /\ job'[t].max_key = hi.key
          /\ \A u \in Threads : u # t => pc'[u] = pc[u] /\ job'[u] = job[u]
          /\ UNCHANGED <<registry, manifest>>
      BY <1>0, <1>3, <2>1 DEF BuiltJob, WriteFlush, WriteCompaction, Goto
    <2>3. Jobs
      BY <2>1, <2>2 DEF BoundsInv
    <2>4. QED BY <1>1, <2>2, <2>3 DEF BoundsInv
  <1>4. ASSUME NEW t \in Threads, CommitFlush(t) \/ CommitCompaction(t)
        PROVE  BoundsInv'
    <2>0. PICK n : n = AddedInfo(t)
      OBVIOUS
    <2>1. /\ pc[t] \in {"flushed", "compacted"}
          /\ pc'[t] \in {"saving", "removing"}
          /\ \A u \in Threads : u # t => pc'[u] = pc[u]
          /\ registry' = registry \cup {n}
          /\ UNCHANGED <<manifest, disk, job>>
      BY <1>0, <1>4, <2>0
         DEF CommitFlush, CommitCompaction, Add, NewInfo, AddedInfo, Goto
    <2>2. RowsOf(n)' = job[t].rows
      <3>1. job[t].id \in DOMAIN disk /\ disk[job[t].id] = job[t].rows
        BY <2>1 DEF TreeInv, DataInv, JobDirInv, JobSourceInv, JobPC
      <3>2. QED BY <2>0, <2>1, <3>1 DEF RowsOf, AddedInfo
    <2>3. Kept(n)
      BY <2>0, <2>1, <2>2 DEF BoundsInv, AddedInfo
    <2>4. Jobs
      BY <2>1 DEF BoundsInv
    <2>5. QED BY <1>1, <2>1, <2>3, <2>4 DEF BoundsInv
  <1>5. ASSUME NEW c \in Clients, NEW k \in Keys, Insert(c, k)
        PROVE  BoundsInv'
    <2>1. Jobs
      BY <1>0, <1>5 DEF Insert, Goto, BoundsInv
    <2>2. QED BY <1>1, <1>5, <2>1 DEF Insert, BoundsInv
  <1>6. CASE \/ \E c \in Clients : \/ WaitForCompaction(c) \/ WaitCheck(c)
                                   \/ SpuriousWakeup(c) \/ BeginClose(c)
             \/ \E t \in Threads : EndDrain(t)
             \/ WorkerWakes \/ WorkerExits \/ SetStop
    <2>1. SameJobs /\ UNCHANGED <<registry, manifest>>
      BY <1>6, ThreadActions DEF TreeInv
    <2>2. Jobs
      BY <2>1 DEF SameJobs, BoundsInv, BusyPC, JobPC
    <2>3. QED BY <1>1, <2>1, <2>2 DEF BoundsInv
  <1>7. CASE EndClose \/ Crash
    <2>1. /\ registry' = {} /\ manifest' = manifest
          /\ \A t \in Threads : pc'[t] \in {"idle", "exited"}
      BY <1>7 DEF EndClose, Crash, LoseMemory, EndedThreads
    <2>2. QED BY <1>1, <2>1 DEF BoundsInv
  <1>8. CASE Open
    <2>1. /\ registry' = manifest.entries /\ manifest' = manifest
          /\ \A t \in Threads : pc'[t] \in {"idle", "exited", "waiting"}
      BY <1>8 DEF Open, StartedThreads
    <2>2. QED BY <1>1, <2>1 DEF BoundsInv
  <1>9. CASE UNCHANGED vars
    BY <1>1, <1>9 DEF vars, BoundsInv
  <1>10. QED
    BY <1>2, <1>3, <1>4, <1>5, <1>6, <1>7, <1>8, <1>9
       DEF Next, ClientStep, DrainStep

-----------------------------------------------------------------------------
(* The order of age.                                                       *)

LEMMA InitAge == Init => AgeInv
  BY DEF Init, AgeInv, Older, EmptyManifest, StartedThreads, TablesRows,
         DequeRows

(* A step that changes neither a memtable nor the registry, and deletes no *)
(* table that it does not also forget.                                     *)
LEMMA AgeFrame ==
    ASSUME AgeInv, UNCHANGED <<active, immutables, registry, manifest, adds>>,
           \A i \in registry \cup manifest.entries :
             RowsOf(i)' \subseteq RowsOf(i),
           \A a, b \in registry : Removing(a, b) => Removing(a, b)',
           \A t \in Threads : pc'[t] \in {"compacting", "compacted", "removing"} =>
             job'[t].olds = AtLevel(registry, job'[t].level - 1)
    PROVE  AgeInv'
  <1>1. TablesRows(registry)' \subseteq TablesRows(registry)
    BY DEF TablesRows
  <1>2. DequeRows(immutables)' = DequeRows(immutables)
    BY DEF DequeRows
  <1>3. /\ (Older(TablesRows(registry), active \cup DequeRows(immutables)))'
        /\ (Older(DequeRows(immutables), active))'
        /\ (\A i, j \in 1 .. Len(immutables) :
             i < j => Older(immutables[i], immutables[j]))'
    BY <1>1, <1>2 DEF AgeInv, Older
  <1>4. (\A a, b \in registry :
           Deeper(a, b) /\ ~Removing(a, b) => Older(RowsOf(a), RowsOf(b)))'
    <2> SUFFICES ASSUME NEW a \in registry, NEW b \in registry,
                        Deeper(a, b), ~Removing(a, b)'
                 PROVE  Older(RowsOf(a)', RowsOf(b)')
      BY DEF Older, Deeper
    <2>1. Older(RowsOf(a), RowsOf(b))
      BY DEF AgeInv
    <2>2. QED BY <2>1 DEF Older
  <1>5. (\A a, b \in manifest.entries :
           Deeper(a, b) => Older(RowsOf(a), RowsOf(b)))'
    <2> SUFFICES ASSUME NEW a \in manifest.entries,
                        NEW b \in manifest.entries, Deeper(a, b)
                 PROVE  Older(RowsOf(a)', RowsOf(b)')
      BY DEF Older, Deeper
    <2>1. Older(RowsOf(a), RowsOf(b))
      BY DEF AgeInv
    <2>2. QED BY <2>1 DEF Older
  <1>6. QED BY <1>3, <1>4, <1>5 DEF AgeInv, AtLevel

(* The row of an insert is newer than every other.                         *)
LEMMA InsertAge ==
    ASSUME SingleDrainer, TreeInv, AgeInv,
           NEW c \in Clients, NEW k \in Keys, Insert(c, k)
    PROVE  AgeInv'
  <1> DEFINE row == [key |-> k, seq |-> inserts + 1]
             table == MemTableInsert(active, row)
  <1>0. /\ phase = "open" /\ phase' = "open" /\ inserts \in Nat
        /\ UNCHANGED <<catalog, files, job, adds>>
        /\ pc \in [Threads -> PC] /\ c \in Threads
        /\ active \in SUBSET Row
        /\ immutables \in Seq((SUBSET Row) \ {{}})
    BY TreeAssumption DEF Insert, TreeInv, TypeOK, Threads
  <1>1. SameJobs
    BY <1>0 DEF SameJobs, Insert, Goto, BusyPC, JobPC
  <1>2. /\ TablesRows(registry)' = TablesRows(registry)
        /\ \A i : RowsOf(i)' = RowsOf(i)
        /\ \A a, b : Removing(a, b)' <=> Removing(a, b)
    BY <1>0, <1>1, TablesUntouched DEF TreeInv
  <1>3. /\ row \in Row /\ row.seq = inserts + 1
        /\ table \in (SUBSET Row) \ {{}} /\ table \subseteq active \cup {row}
    <2>1. row \in Row /\ row.seq = inserts + 1
      BY <1>0 DEF Row
    <2>2. QED BY <1>0, <2>1 DEF MemTableInsert
  <1>4. \/ active' = table /\ immutables' = immutables
        \/ active' = {} /\ immutables' = PushBack(immutables, table)
    BY DEF Insert, ToSortedImmutable
  <1> HIDE DEF table, row
  <1>5. \A r \in active \cup DequeRows(immutables) \cup TablesRows(registry) :
          r.seq < row.seq
    <2>1. \A r \in active \cup DequeRows(immutables) \cup TablesRows(registry) :
            r.seq \in 1 .. inserts
      BY <1>0 DEF TreeInv, DataInv, SeqInv, Visible
    <2>2. QED BY <1>0, <1>3, <2>1
  <1>6. active' \cup DequeRows(immutables')
          \subseteq active \cup DequeRows(immutables) \cup {row}
    BY <1>0, <1>3, <1>4, PushBackRows
  <1>7. (Older(TablesRows(registry), active \cup DequeRows(immutables)))'
    BY <1>2, <1>5, <1>6 DEF AgeInv, Older
  <1>8. (Older(DequeRows(immutables), active))'
    <2>1. CASE active' = table /\ immutables' = immutables
      BY <1>3, <1>5, <2>1 DEF AgeInv, Older
    <2>2. CASE active' = {}
      BY <2>2 DEF Older
    <2>3. QED BY <1>4, <2>1, <2>2
  <1>9. (\A i, j \in 1 .. Len(immutables) :
           i < j => Older(immutables[i], immutables[j]))'
    <2>1. CASE immutables' = immutables
      BY <2>1 DEF AgeInv, Older
    <2>2. CASE immutables' = PushBack(immutables, table)
      <3>1. /\ Len(immutables') = Len(immutables) + 1 /\ Len(immutables) \in Nat
            /\ \A i \in 1 .. Len(immutables) : immutables'[i] = immutables[i]
            /\ immutables'[Len(immutables) + 1] = table
        BY <1>0, <1>3, <2>2, AppendProperties, LenProperties DEF PushBack
      <3>2. \A i \in 1 .. Len(immutables) :
              immutables[i] \subseteq DequeRows(immutables)
        BY DEF DequeRows
      <3>3. \A i \in 1 .. Len(immutables) : Older(immutables[i], table)
        BY <1>3, <1>5, <3>2 DEF AgeInv, Older
      <3>4. ASSUME NEW i \in 1 .. Len(immutables'),
                   NEW j \in 1 .. Len(immutables'), i < j
            PROVE  Older(immutables'[i], immutables'[j])
        <4>1. CASE j = Len(immutables) + 1
          BY <3>1, <3>3, <3>4, <4>1
        <4>2. CASE j \in 1 .. Len(immutables)
          BY <3>1, <3>4, <4>2 DEF AgeInv
        <4>3. QED BY <3>1, <4>1, <4>2
      <3>5. QED BY <3>4 DEF Older
    <2>3. QED BY <1>4, <2>1, <2>2
  <1>10. /\ (\A a, b \in registry :
               Deeper(a, b) /\ ~Removing(a, b) => Older(RowsOf(a), RowsOf(b)))'
         /\ (\A a, b \in manifest.entries :
               Deeper(a, b) => Older(RowsOf(a), RowsOf(b)))'
    BY <1>0, <1>2 DEF AgeInv, catalog, files, Older, Deeper
  <1>11. \A t \in Threads : pc'[t] \in {"compacting", "compacted", "removing"} =>
           job'[t].olds = AtLevel(registry', job'[t].level - 1)
    BY <1>0, <1>1 DEF AgeInv, SameJobs, BusyPC, JobPC, catalog
  <1>12. QED
    BY <1>0, <1>7, <1>8, <1>9, <1>10, <1>11 DEF AgeInv, catalog, files, AtLevel

(* The table of a flush is the oldest memtable, and the newest table.      *)
LEMMA CommitFlushAge ==
    ASSUME SingleDrainer, TreeInv, AgeInv,
           NEW t \in Threads, CommitFlush(t)
    PROVE  AgeInv'
  <1>0. PICK n : n = AddedInfo(t)
    OBVIOUS
  <1>1. /\ pc \in [Threads -> PC]
        /\ pc[t] = "flushed" /\ pc' = [pc EXCEPT ![t] = "saving"]
        /\ registry' = registry \cup {n}
        /\ immutables' = PopFront(immutables)
        /\ adds' = adds + 1 /\ adds \in Nat
        /\ UNCHANGED <<active, disk, manifest, job>>
    BY <1>0 DEF CommitFlush, Add, NewInfo, AddedInfo, Goto, files, TreeInv,
                TypeOK
  <1>2. /\ \A u \in Threads : u # t => pc[u] \notin DrainPC
        /\ \A u \in Threads : pc'[u] \notin {"compacting", "compacted", "removing"}
        /\ \A a, b : ~Removing(a, b)
    <2>1. \A u \in Threads : u # t => pc[u] \notin DrainPC
      BY <1>1, OneDrainer DEF TreeInv, DrainPC, JobPC
    <2>2. QED BY <1>1, <2>1 DEF Removing, DrainPC, JobPC, LockedPC
  <1>3. /\ immutables # <<>> /\ job[t].rows = Head(immutables)
        /\ job[t].level = 0
        /\ disk[job[t].id] = job[t].rows /\ job[t].id \in DOMAIN disk
    BY <1>1 DEF TreeInv, DataInv, JobSourceInv, JobDirInv, JobPC
  <1>4. /\ immutables \in Seq((SUBSET Row) \ {{}})
        /\ \A i \in registry : i.level \in Nat /\ i.pos \in Nat
    BY DEF TreeInv, TypeOK, Info
  <1>5. /\ DequeRows(immutables) = Head(immutables) \cup DequeRows(immutables')
        /\ \A i \in 1 .. Len(immutables') :
             i + 1 \in 1 .. Len(immutables)
             /\ immutables'[i] = immutables[i + 1]
        /\ Head(immutables) = immutables[1] /\ 1 \in 1 .. Len(immutables)
    BY <1>1, <1>3, <1>4, PopFrontRows
  <1>6. /\ \A i : RowsOf(i)' = RowsOf(i)
        /\ RowsOf(n) = Head(immutables)
        /\ n.level = 0 /\ n.pos = adds
    BY <1>0, <1>1, <1>3 DEF RowsOf, AddedInfo
  <1>7. TablesRows(registry)' = TablesRows(registry) \cup Head(immutables)
    BY <1>1, <1>6 DEF TablesRows
  <1>8. Older(Head(immutables), DequeRows(immutables'))
    <2>1. \A i \in 1 .. Len(immutables') :
            Older(Head(immutables), immutables'[i])
      <3> TAKE i \in 1 .. Len(immutables')
      <3>1. 1 < i + 1
        BY <1>5
      <3>2. QED BY <1>5, <3>1 DEF AgeInv
    <2>2. QED BY <2>1 DEF Older, DequeRows
  <1>9. /\ (Older(TablesRows(registry), active \cup DequeRows(immutables)))'
        /\ (Older(DequeRows(immutables), active))'
    BY <1>1, <1>5, <1>7, <1>8 DEF AgeInv, Older
  <1>10. (\A i, j \in 1 .. Len(immutables) :
            i < j => Older(immutables[i], immutables[j]))'
    <2> SUFFICES ASSUME NEW i \in 1 .. Len(immutables'),
                        NEW j \in 1 .. Len(immutables'), i < j
                 PROVE  Older(immutables'[i], immutables'[j])
      BY DEF Older
    <2>1. i + 1 < j + 1
      BY <1>5
    <2>2. QED BY <1>5, <2>1 DEF AgeInv
  <1>11. (\A a, b \in registry :
            Deeper(a, b) /\ ~Removing(a, b) => Older(RowsOf(a), RowsOf(b)))'
    <2> SUFFICES ASSUME NEW a \in registry', NEW b \in registry', Deeper(a, b)
                 PROVE  Older(RowsOf(a), RowsOf(b))
      BY <1>6 DEF Older, Deeper
    <2>1. CASE b = n
      <3>1. a \in registry
        BY <1>1, <1>6, <2>1 DEF Deeper
      <3>2. RowsOf(a) \subseteq TablesRows(registry)
        BY <3>1 DEF TablesRows
      <3>3. QED BY <1>5, <1>6, <2>1, <3>2 DEF AgeInv, Older
    <2>2. CASE a = n /\ b \in registry
      BY <1>1, <1>4, <1>6, <2>2 DEF AgeInv, Deeper
    <2>3. CASE a \in registry /\ b \in registry
      BY <1>2, <2>3 DEF AgeInv
    <2>4. QED BY <1>1, <2>1, <2>2, <2>3
  <1>12. (\A a, b \in manifest.entries :
            Deeper(a, b) => Older(RowsOf(a), RowsOf(b)))'
    BY <1>1, <1>6 DEF AgeInv, Older, Deeper
  <1>13. \A i \in registry' \cup manifest'.entries : i.pos < adds'
    <2>1. \A i \in registry \cup manifest.entries : i.pos \in Nat
      BY DEF TreeInv, TypeOK, Info
    <2>2. QED BY <1>1, <1>6, <2>1 DEF AgeInv
  <1>14. QED
    BY <1>2, <1>9, <1>10, <1>11, <1>12, <1>13 DEF AgeInv

(* A compaction takes all of a level: what is deeper than one of its old   *)
(* tables is older than the new one, and what is above them is newer.      *)
LEMMA CommitCompactionAge ==
    ASSUME SingleDrainer, TreeInv, AgeInv,
           NEW t \in Threads, CommitCompaction(t)
    PROVE  AgeInv'
  <1>0. PICK n : n = AddedInfo(t)
    OBVIOUS
  <1>1. /\ pc \in [Threads -> PC]
        /\ pc[t] = "compacted" /\ pc' = [pc EXCEPT ![t] = "removing"]
        /\ registry' = registry \cup {n}
        /\ adds' = adds + 1 /\ adds \in Nat
        /\ UNCHANGED <<active, immutables, disk, manifest, job>>
    BY <1>0 DEF CommitCompaction, Add, NewInfo, AddedInfo, Goto, files, memory,
                TreeInv, TypeOK
  <1>2. /\ \A u \in Threads : u # t => pc'[u] \notin DrainPC
        /\ \A a, b : ~Removing(a, b)
    BY <1>1, OneDrainer, NothingRemoved DEF TreeInv, DrainPC, JobPC
  <1>3. /\ job[t].level > 0 /\ job[t].level \in Nat
        /\ job[t].rows = TablesRows(job[t].olds)
        /\ disk[job[t].id] = job[t].rows /\ job[t].id \in DOMAIN disk
        /\ job[t].olds = AtLevel(registry, job[t].level - 1)
    BY <1>1 DEF TreeInv, TypeOK, Job, DataInv, JobSourceInv, JobDirInv, JobPC,
                AgeInv
  <1>4. \A i \in registry \cup manifest.entries :
          i.level \in Nat /\ i.pos \in Nat /\ i.pos < adds
    BY DEF TreeInv, TypeOK, Info, AgeInv
  <1>5. /\ \A i : RowsOf(i)' = RowsOf(i)
        /\ RowsOf(n) = TablesRows(job[t].olds)
        /\ n.level = job[t].level /\ n.pos = adds /\ n.id = job[t].id
    BY <1>0, <1>1, <1>3 DEF RowsOf, AddedInfo
  <1>6. /\ TablesRows(registry)' = TablesRows(registry)
        /\ DequeRows(immutables)' = DequeRows(immutables)
    <2>1. TablesRows(registry)' = TablesRows(registry) \cup RowsOf(n)
      BY <1>1, <1>5 DEF TablesRows
    <2>2. RowsOf(n) \subseteq TablesRows(registry)
      BY <1>3, <1>5 DEF TablesRows, AtLevel
    <2>3. QED BY <1>1, <2>1, <2>2 DEF DequeRows
  <1>7. /\ (Older(TablesRows(registry), active \cup DequeRows(immutables)))'
        /\ (Older(DequeRows(immutables), active))'
        /\ (\A i, j \in 1 .. Len(immutables) :
              i < j => Older(immutables[i], immutables[j]))'
    BY <1>1, <1>6 DEF AgeInv, Older
  <1>8. \A o \in job[t].olds : o \in registry /\ o.level = n.level - 1
    BY <1>3, <1>5 DEF AtLevel
  <1>9. (\A a, b \in registry :
           Deeper(a, b) /\ ~Removing(a, b) => Older(RowsOf(a), RowsOf(b)))'
    <2> SUFFICES ASSUME NEW a \in registry', NEW b \in registry',
                        Deeper(a, b), ~Removing(a, b)'
                 PROVE  Older(RowsOf(a), RowsOf(b))
      BY <1>5 DEF Older, Deeper
    <2>1. CASE a = n /\ b \in registry
      <3>1. b \notin job[t].olds
        BY <1>1, <1>5, <2>1 DEF Removing
      <3>2. b.level < n.level - 1
        <4>1. b.level # n.level - 1
          BY <1>3, <1>5, <2>1, <3>1 DEF AtLevel
        <4>2. b.level < n.level
          <5>1. b.level \in Nat /\ b.pos \in Nat /\ b.pos < adds
            BY <1>4, <2>1
          <5>2. ~(n.level = b.level /\ n.pos < b.pos)
            BY <1>1, <1>5, <5>1
          <5>3. QED BY <2>1, <5>2 DEF Deeper
        <4>3. QED BY <1>3, <1>4, <1>5, <2>1, <4>1, <4>2
      <3>3. \A o \in job[t].olds : Older(RowsOf(o), RowsOf(b))
        BY <1>2, <1>8, <2>1, <3>2 DEF AgeInv, Deeper
      <3>4. QED BY <1>5, <2>1, <3>3 DEF Older, TablesRows
    <2>2. CASE b = n /\ a \in registry
      <3>1. a.level > n.level - 1
        BY <1>3, <1>4, <1>5, <2>2 DEF Deeper
      <3>2. \A o \in job[t].olds : Older(RowsOf(a), RowsOf(o))
        BY <1>2, <1>8, <2>2, <3>1 DEF AgeInv, Deeper
      <3>3. QED BY <1>5, <2>2, <3>2 DEF Older, TablesRows
    <2>3. CASE a = n /\ b = n
      BY <1>1, <1>3, <1>5, <2>3 DEF Deeper
    <2>4. CASE a \in registry /\ b \in registry
      BY <1>2, <2>4 DEF AgeInv
    <2>5. QED BY <1>1, <2>1, <2>2, <2>3, <2>4
  <1>10. (\A a, b \in manifest.entries :
            Deeper(a, b) => Older(RowsOf(a), RowsOf(b)))'
    BY <1>1, <1>5 DEF AgeInv, Older, Deeper
  <1>11. \A i \in registry' \cup manifest'.entries : i.pos < adds'
    BY <1>1, <1>4, <1>5
  <1>12. \A u \in Threads : pc'[u] \in {"compacting", "compacted", "removing"} =>
           job'[u].olds = AtLevel(registry', job'[u].level - 1)
    <2>1. AtLevel(registry', job[t].level - 1) = AtLevel(registry, job[t].level - 1)
      BY <1>1, <1>3, <1>5 DEF AtLevel
    <2>2. QED BY <1>1, <1>2, <1>3, <2>1 DEF DrainPC, JobPC, LockedPC
  <1>13. QED
    BY <1>7, <1>9, <1>10, <1>11, <1>12 DEF AgeInv

(* The old tables go; what is left keeps its order.                        *)
LEMMA RemoveOldAge ==
    ASSUME SingleDrainer, TreeInv, AgeInv, [Next]_vars,
           NEW t \in Threads, RemoveOld(t)
    PROVE  AgeInv'
  <1>1. PICK o \in job[t].olds :
          /\ registry' = {i \in registry : i.id # o.id}
          /\ job' = [job EXCEPT ![t] = JobWithOlds(@, @.olds \ {o})]
          /\ pc' = [pc EXCEPT ![t] = IF job[t].olds = {o} THEN "saving"
                                                          ELSE "removing"]
    BY DEF RemoveOld, Remove, Goto
  <1>2. /\ pc \in [Threads -> PC] /\ job \in [Threads -> Job]
        /\ pc[t] = "removing"
        /\ UNCHANGED <<active, immutables, manifest, adds>>
        /\ \A u \in Threads : u # t => pc'[u] = pc[u] /\ job'[u] = job[u]
        /\ job'[t].olds = job[t].olds \ {o}
        /\ job'[t].id = job[t].id /\ job'[t].level = job[t].level
        /\ pc'[t] = IF job[t].olds = {o} THEN "saving" ELSE "removing"
    BY <1>1 DEF RemoveOld, memory, counters, JobWithOlds, TreeInv, TypeOK
  <1>3. \A u \in Threads : u # t => pc[u] \notin DrainPC /\ pc'[u] \notin DrainPC
    BY <1>2, OneDrainer DEF TreeInv, DrainPC, LockedPC
  <1>4. \A i \in registry \cup manifest.entries : RowsOf(i)' \subseteq RowsOf(i)
    BY TablesImmutable
  <1>5. registry' = registry \ {o}
    <2>1. o \in registry
      BY <1>2 DEF TreeInv, DataInv, RemovingInv
    <2>2. QED BY <1>1, <2>1 DEF TreeInv, DataInv, IdInv
  <1>6. /\ TablesRows(registry)' \subseteq TablesRows(registry)
        /\ DequeRows(immutables)' = DequeRows(immutables)
    BY <1>2, <1>4, <1>5 DEF TablesRows, DequeRows
  <1>7. /\ (Older(TablesRows(registry), active \cup DequeRows(immutables)))'
        /\ (Older(DequeRows(immutables), active))'
        /\ (\A i, j \in 1 .. Len(immutables) :
              i < j => Older(immutables[i], immutables[j]))'
    BY <1>2, <1>6 DEF AgeInv, Older
  <1>8. (\A a, b \in registry :
           Deeper(a, b) /\ ~Removing(a, b) => Older(RowsOf(a), RowsOf(b)))'
    <2> SUFFICES ASSUME NEW a \in registry', NEW b \in registry',
                        Deeper(a, b), ~Removing(a, b)'
                 PROVE  Older(RowsOf(a)', RowsOf(b)')
      BY DEF Older, Deeper
    <2>1. ~Removing(a, b)
      <3> SUFFICES ASSUME Removing(a, b) PROVE FALSE
        OBVIOUS
      <3>1. /\ a.id = job[t].id \/ b.id = job[t].id
            /\ a \in job[t].olds \/ b \in job[t].olds
        BY <1>2, <1>3 DEF Removing, DrainPC, LockedPC
      <3>2. a \in job'[t].olds \/ b \in job'[t].olds
        BY <1>2, <1>5, <3>1
      <3>3. pc'[t] = "removing"
        BY <1>2, <3>2
      <3>4. QED BY <1>2, <3>1, <3>2, <3>3 DEF Removing
    <2>2. Older(RowsOf(a), RowsOf(b))
      BY <1>5, <2>1 DEF AgeInv
    <2>3. QED BY <1>4, <1>5, <2>2 DEF Older
  <1>9. (\A a, b \in manifest.entries :
           Deeper(a, b) => Older(RowsOf(a), RowsOf(b)))'
    BY <1>2, <1>4 DEF AgeInv, Older, Deeper
  <1>10. \A u \in Threads : pc'[u] \in {"compacting", "compacted", "removing"} =>
           job'[u].olds = AtLevel(registry', job'[u].level - 1)
    BY <1>2, <1>3, <1>5 DEF AgeInv, AtLevel, DrainPC, JobPC, LockedPC
  <1>11. \A i \in registry' \cup manifest'.entries : i.pos < adds'
    BY <1>2, <1>5 DEF AgeInv
  <1>12. QED
    BY <1>7, <1>8, <1>9, <1>10, <1>11 DEF AgeInv

(* A drain step that neither commits nor saves.                            *)
LEMMA JobStepAge ==
    ASSUME SingleDrainer, TreeInv, AgeInv, [Next]_vars, NEW t \in Threads,
           \/ BeginFlush(t) \/ BeginCompact(t) \/ WriteFlush(t)
           \/ WriteCompaction(t) \/ WriteThrows(t) \/ SaveFails(t)
    PROVE  AgeInv'
  <1>0. /\ pc \in [Threads -> PC] /\ job \in [Threads -> Job]
    BY DEF TreeInv, TypeOK
  <1>1. /\ pc[t] \in DrainPC /\ pc[t] # "removing"
        /\ pc'[t] \in JobPC \cup {"idle"}
        /\ \A u \in Threads : u # t => pc'[u] = pc[u]
        /\ UNCHANGED <<active, immutables, registry, manifest, adds>>
    <2>1. CASE BeginFlush(t) \/ BeginCompact(t)
      BY <1>0, <2>1 DEF BeginFlush, BeginCompact, Goto, memory, counters,
                        DrainPC, LockedPC, JobPC
    <2>2. CASE WriteFlush(t) \/ WriteCompaction(t)
      BY <1>0, <2>2 DEF WriteFlush, WriteCompaction, Goto, memory, counters,
                        catalog, DrainPC, LockedPC, JobPC
    <2>3. CASE WriteThrows(t) \/ SaveFails(t)
      BY <1>0, <2>3 DEF WriteThrows, SaveFails, Goto, memory, catalog, files,
                        DrainPC, LockedPC, JobPC
    <2>4. QED BY <2>1, <2>2, <2>3
  <1>2. /\ \A u \in Threads : u # t => pc'[u] \notin DrainPC
        /\ \A a, b : ~Removing(a, b)
    BY <1>1, OneDrainer, NothingRemoved DEF TreeInv
  <1>3. pc'[t] \in {"compacting", "compacted", "removing"} =>
          job'[t].olds = AtLevel(registry, job'[t].level - 1)
    <2>1. CASE BeginCompact(t)
      <3>1. PICK task \in Pick(registry) :
              job' = [job EXCEPT ![t] =
                        NewJob(next_sst_id, task.dst, task.layout, {},
                               AtLevel(registry, task.src))]
        BY <2>1 DEF BeginCompact
      <3>2. task.src \in Nat /\ task.dst = task.src + 1
        BY PickedLevel DEF TreeInv, TypeOK
      <3>3. /\ job'[t].olds = AtLevel(registry, task.src)
            /\ job'[t].level = task.src + 1
        BY <1>0, <3>1, <3>2 DEF NewJob
      <3>4. QED BY <3>2, <3>3
    <2>2. CASE WriteCompaction(t)
      <3>1. job[t].olds = AtLevel(registry, job[t].level - 1)
        BY <2>2 DEF WriteCompaction, AgeInv
      <3>2. job'[t].olds = job[t].olds /\ job'[t].level = job[t].level
        BY <1>0, <2>2 DEF WriteCompaction, BuildTable, BuiltJob
      <3>3. QED BY <3>1, <3>2
    <2>3. CASE BeginFlush(t) \/ WriteFlush(t)
      BY <1>0, <2>3 DEF BeginFlush, WriteFlush, Goto
    <2>4. CASE WriteThrows(t) \/ SaveFails(t)
      BY <1>0, <2>4 DEF WriteThrows, SaveFails, Goto
    <2>5. QED BY <2>1, <2>2, <2>3, <2>4
  <1>4. \A u \in Threads : pc'[u] \in {"compacting", "compacted", "removing"} =>
          job'[u].olds = AtLevel(registry, job'[u].level - 1)
    BY <1>2, <1>3 DEF DrainPC, JobPC, LockedPC
  <1>5. QED BY <1>1, <1>2, <1>4, TablesImmutable, AgeFrame

(* Every step keeps the order.                                             *)
LEMMA NextAge ==
    ASSUME SingleDrainer, TreeInv, AgeInv, [Next]_vars
    PROVE  AgeInv'
  <1>1. ASSUME NEW c \in Clients, NEW k \in Keys, Insert(c, k) PROVE AgeInv'
    BY <1>1, InsertAge
  <1>2. ASSUME NEW t \in Threads,
               \/ BeginFlush(t) \/ BeginCompact(t) \/ WriteFlush(t)
               \/ WriteCompaction(t) \/ WriteThrows(t) \/ SaveFails(t)
        PROVE  AgeInv'
    BY <1>2, JobStepAge
  <1>3. ASSUME NEW t \in Threads,
               CommitFlush(t) \/ CommitCompaction(t) \/ RemoveOld(t)
        PROVE  AgeInv'
    BY <1>3, CommitFlushAge, CommitCompactionAge, RemoveOldAge
  <1>4. ASSUME NEW t \in Threads, SaveManifest(t) PROVE AgeInv'
    <2>1. /\ manifest'.entries = registry
          /\ UNCHANGED <<active, immutables, registry, disk, adds>>
          /\ pc[t] = "saving" /\ pc' = [pc EXCEPT ![t] = "draining"]
          /\ pc \in [Threads -> PC]
      BY <1>4 DEF SaveManifest, ManifestOf, memory, catalog, counters, Goto,
                  TreeInv, TypeOK
    <2>2. /\ \A u \in Threads : pc'[u] \notin {"compacting", "compacted", "removing"}
          /\ \A a, b : ~Removing(a, b)
      <3>1. \A u \in Threads : u # t => pc[u] \notin DrainPC
        BY <2>1, OneDrainer DEF TreeInv, DrainPC, LockedPC
      <3>2. QED BY <2>1, <3>1 DEF Removing, DrainPC, LockedPC, JobPC
    <2>3. /\ \A i : RowsOf(i)' = RowsOf(i)
          /\ TablesRows(registry)' = TablesRows(registry)
          /\ DequeRows(immutables)' = DequeRows(immutables)
      BY <2>1 DEF RowsOf, TablesRows, DequeRows
    <2>4. \A a, b \in registry : Deeper(a, b) => Older(RowsOf(a), RowsOf(b))
      BY <2>2 DEF AgeInv
    <2>5. /\ (\A a, b \in registry :
                Deeper(a, b) /\ ~Removing(a, b) => Older(RowsOf(a), RowsOf(b)))'
          /\ (\A a, b \in manifest.entries :
                Deeper(a, b) => Older(RowsOf(a), RowsOf(b)))'
      BY <2>1, <2>3, <2>4 DEF Older, Deeper
    <2>6. /\ (Older(TablesRows(registry), active \cup DequeRows(immutables)))'
          /\ (Older(DequeRows(immutables), active))'
          /\ (\A i, j \in 1 .. Len(immutables) :
                i < j => Older(immutables[i], immutables[j]))'
      BY <2>1, <2>3 DEF AgeInv, Older
    <2>7. \A i \in registry' \cup manifest'.entries : i.pos < adds'
      BY <2>1 DEF AgeInv
    <2>8. QED BY <2>2, <2>5, <2>6, <2>7 DEF AgeInv
  <1>5. CASE \/ \E c \in Clients : \/ WaitForCompaction(c) \/ WaitCheck(c)
                                   \/ SpuriousWakeup(c) \/ BeginClose(c)
             \/ \E t \in Threads : EndDrain(t)
             \/ WorkerWakes \/ WorkerExits \/ SetStop
    <2>1. /\ SameJobs
          /\ UNCHANGED <<active, immutables, registry, manifest, adds>>
      BY <1>5, ThreadActions
         DEF TreeInv, memory, catalog, files, counters
    <2>2. \A a, b : Removing(a, b) => Removing(a, b)'
      BY <2>1 DEF Removing, SameJobs, BusyPC
    <2>3. \A t \in Threads : pc'[t] \in {"compacting", "compacted", "removing"} =>
            job'[t].olds = AtLevel(registry, job'[t].level - 1)
      BY <2>1 DEF AgeInv, SameJobs, BusyPC, JobPC
    <2>4. QED BY <2>1, <2>2, <2>3, TablesImmutable, AgeFrame
  <1>6. CASE EndClose \/ Crash
    <2>1. /\ active' = {} /\ immutables' = <<>> /\ registry' = {}
          /\ UNCHANGED <<disk, manifest, adds>>
          /\ \A t \in Threads : pc'[t] \in {"idle", "exited"}
      BY <1>6 DEF EndClose, Crash, LoseMemory, EndedThreads, files, counters
    <2>2. /\ \A i : RowsOf(i)' = RowsOf(i)
          /\ TablesRows(registry)' = {} /\ DequeRows(immutables)' = {}
          /\ Len(immutables') = 0
      BY <2>1 DEF RowsOf, TablesRows, DequeRows
    <2>3. QED BY <2>1, <2>2 DEF AgeInv, Older, Deeper
  <1>7. CASE Open
    <2>1. /\ registry' = manifest.entries
          /\ active' = {} /\ immutables' = <<>>
          /\ UNCHANGED <<disk, manifest, adds>>
          /\ \A t \in Threads : pc'[t] \in {"idle", "exited", "waiting"}
      BY <1>7 DEF Open, StartedThreads, memory, files, counters, TreeInv,
                  ControlInv
    <2>2. /\ \A i : RowsOf(i)' = RowsOf(i)
          /\ DequeRows(immutables)' = {}
          /\ Len(immutables') = 0
      BY <2>1 DEF RowsOf, DequeRows
    <2>3. QED BY <2>1, <2>2 DEF AgeInv, Older, Deeper
  <1>8. CASE UNCHANGED vars
    <2>1. /\ UNCHANGED <<active, immutables, registry, manifest, adds, pc, job>>
      BY <1>8 DEF vars, memory, catalog, files, counters, threads
    <2>2. \A a, b : Removing(a, b) => Removing(a, b)'
      BY <2>1 DEF Removing
    <2>3. \A t \in Threads : pc'[t] \in {"compacting", "compacted", "removing"} =>
            job'[t].olds = AtLevel(registry, job'[t].level - 1)
      BY <2>1 DEF AgeInv
    <2>4. QED BY <2>1, <2>2, <2>3, TablesImmutable, AgeFrame
  <1>9. QED
    BY <1>1, <1>2, <1>3, <1>4, <1>5, <1>6, <1>7, <1>8
       DEF Next, ClientStep, DrainStep

-----------------------------------------------------------------------------
(* What follows.                                                           *)

(* The whole invariant.  The barrier part needs writes that do not fail.   *)
THEOREM WholeInvariant ==
    ASSUME SingleDrainer, ~CrashInWindow
    PROVE  Spec => []WholeInv
  <1>1. Init => (WritesSucceed => BarrierInv) /\ AgeInv /\ BoundsInv
    BY InitBarrier, InitAge, InitBounds
  <1>2. TreeInv /\ (WritesSucceed => BarrierInv) /\ AgeInv /\ BoundsInv
          /\ [Next]_vars
        => ((WritesSucceed => BarrierInv) /\ AgeInv /\ BoundsInv)'
    <2>1. (WritesSucceed => BarrierInv) /\ TreeInv /\ [Next]_vars
          => (WritesSucceed => BarrierInv)'
      BY NextBarrier DEF WritesSucceed
    <2>2. QED BY <2>1, NextAge, NextBounds
  <1>3. QED BY <1>1, <1>2, TreeInvariant, PTL DEF Spec, WholeInv

(* scan() visits its sources in the order of age, whatever flushes and     *)
(* compactions have made of them.                                          *)
THEOREM SourcesOrderedByAge ==
    ASSUME SingleDrainer, ~CrashInWindow
    PROVE  Spec => []AgeOrdered
  <1>1. TreeInv /\ AgeInv => AgeOrdered
    <2> SUFFICES ASSUME TreeInv, AgeInv, Quiet PROVE AgeOrdered
      BY DEF AgeOrdered
    <2>1. \A a, b : ~Removing(a, b)
      BY DEF TreeInv, ControlInv, Quiet, LockedPC, Removing
    <2>2. QED BY <2>1 DEF AgeInv, AgeOrdered, Deeper
  <1>2. QED BY <1>1, WholeInvariant, PTL DEF WholeInv

(* overlapping() skips no table that holds a row of the range.             *)
LEMMA OverlappingFound ==
    ASSUME TypeOK, BoundsInv, NEW from \in OptKeys, NEW to \in OptKeys,
           NEW i \in registry, NEW r \in InRange(RowsOf(i), from, to)
    PROVE  i \in Overlapping(registry, i.level, from, to)
  <1>1. i.min_key <= r.key /\ r.key <= i.max_key
    BY DEF BoundsInv, Within, InRange
  <1>2. /\ \A f \in from : r.key >= f
        /\ \A t \in to : r.key < t
    BY DEF InRange
  <1>3. /\ from \subseteq Int /\ to \subseteq Int
        /\ i.min_key \in Int /\ i.max_key \in Int
    BY MemoryAssumption DEF OptKeys, TypeOK, Info
  <1>4. r.key \in Int
    <2>1. r \in Row
      BY DEF TypeOK, RowsOf, InRange
    <2>2. QED BY <2>1, MemoryAssumption DEF Row
  <1>5. /\ \A f \in from : i.max_key >= f
        /\ \A t \in to : i.min_key < t
    BY <1>1, <1>2, <1>3, <1>4
  <1>6. QED BY <1>5 DEF Overlapping, AtLevel

(* A range scan reads the rows of the range.                               *)
LEMMA RangeScanExact ==
    ASSUME TypeOK, BoundsInv, phase # "closed",
           NEW from \in OptKeys, NEW to \in OptKeys
    PROVE  ScanRows(from, to) = InRange(Visible, from, to)
  <1> DEFINE levels == {i.level : i \in registry}
             tables == UNION {Overlapping(registry, level, from, to) :
                                level \in levels}
             all == active \cup DequeRows(immutables)
  <1>1. tables \subseteq registry
    BY DEF Overlapping, AtLevel
  <1>2. ASSUME NEW i \in registry, NEW r \in InRange(RowsOf(i), from, to)
        PROVE  i \in tables
    BY <1>2, OverlappingFound
  <1>3. InRange(TablesRows(tables), from, to)
          = InRange(TablesRows(registry), from, to)
    BY <1>1, <1>2 DEF InRange, TablesRows
  <1>4. /\ ScanRows(from, to) = InRange(all \cup TablesRows(tables), from, to)
        /\ Visible = all \cup TablesRows(registry)
    BY DEF ScanRows, Visible
  <1> HIDE DEF tables, all
  <1>5. QED BY <1>3, <1>4 DEF InRange

THEOREM RangeScansAreComplete ==
    ASSUME SingleDrainer, ~CrashInWindow
    PROVE  Spec => []RangeScanComplete
  <1>1. TreeInv /\ BoundsInv => RangeScanComplete
    BY RangeScanExact DEF TreeInv, Quiet, RangeScanComplete
  <1>2. QED BY <1>1, WholeInvariant, PTL DEF WholeInv
=============================================================================
