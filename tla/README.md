# A TLA+ verification of the HTAP LSM-tree storage

The repository is a storage engine with a small SQL front end. Rows are
inserted into an LSM tree; a background thread flushes frozen memtables to
SSTables and merges levels; upper levels are stored by row, lower ones by
column; queries read through caches, a sparse index and block statistics.

Paths below are relative to the root of the repository.

## 1. Inventory

| Part | State | Operations | Talks to |
|---|---|---|---|
| LSM tree (`src/lsmtree/lsmtree.cpp`) | `mutex_`, two condition variables, `worker_busy_`, `stop_`, `next_sst_id_`, registry, memory layer, caches | constructor, `insert`, `scan`, `wait_for_compaction`, `flush_one_locked`, `compact_one_locked`, worker loop, destructor | everything below |
| Memory layer (`src/lsmtree/mem`) | active map, queue of frozen memtables | insert with overwrite, freeze at the limit, front, pop | owned by the tree, read by cursors |
| Registry and manifest (`src/lsmtree/sstable/metadata`) | vectors of tables per level; `manifest.bin` | add, remove, overlap; save (tmp + rename), load | tree |
| Compaction (`src/lsmtree/compaction`) | none | pick a level, merge its tables into one of the next level | registry, builders, cursors |
| Builders (`src/lsmtree/sstable/build`) | unfinished block, metadata, statistics | add, flush a block, finish | files |
| Table cursors and selection (`src/storage/cursor`, `src/storage/read/sstable`) | open file, selected blocks, position | select, open, next | caches, reader |
| Composition (`cursor_factory`, chain, merge) | heap or current source | next | the cursors of a scan |
| Caches (metadata pages, data blocks) | LRU list, map, byte counter | read through | reader |
| Data skipping | none | which blocks may satisfy a predicate | statistics, executor |
| Executor (`src/executor/executor.cpp`) | result, rows to sort, groups | plan, plain, global and grouped SELECT; INSERT; CREATE TABLE | storage engine |
| Lexer and parser (`src/parser`) | position in the text, one token of lookahead | text to tokens to syntax tree | binder |
| Binder (`src/executor/binder.cpp`) | none | checks and types a statement against the schema of its table | executor, engine |
| `LSMStorageEngine` | map of trees | create, insert, get, scan | trees |
| Mock engine (`src/storage/mock`) | map of maps | the same; stands for the engine in the tests of the executor | - |
| Schema | columns | builder, validation of a value | everyone |

What is hard in it:

* **One mutex, released in the middle.** A flush and a compaction give up
  `mutex_` while they write a table. Inserts, freezes, scans and, in
  synchronous mode, other drains run meanwhile. Correct: every row is visible
  exactly once, and the memtable popped is the memtable written.
* **Cursors outlive the lock.** `scan()` builds a cursor under `mutex_` and it
  is read without. Correct: what it reads stays alive, no row is lost between
  two sources.
* **Crashes.** Table directories and the manifest are written separately.
  Correct: what a saved manifest covered can be read after a restart.
* **Wakeups.** Worker, barrier and destructor wait on condition variables.
  Correct: all of them end, and the work gets done.
* **Numbers.** Thresholds, key ranges at INT64_MAX, INT64 compared with
  DOUBLE, steps of the sparse index, the last short page.
* **Two sides of a format.** Writers and readers compute sizes, offsets and
  null bitmaps on their own; a NULL takes no byte and a string any number.
* **Promises between layers.** The executor loads only the columns it thinks
  it needs, and trusts the binder that an aggregate meets values it can add.
  Correct: an accepted statement runs to its end, and answers alike wherever
  the rows lie.
* **One token of lookahead.** Precedence, optional clauses and lists are
  decided by one token, literals by one character.
* **Repeated keys.** A key inserted again after its row was frozen has two
  rows: nothing merges generations. Ordering, block selection and ORDER BY
  all meet this.

`PROJECT.json` lists the hazards at their lines, with the properties that
would catch each one.

## 2. Modules

| Module | Models | Notes |
|---|---|---|
| `MemoryLayer` | memtable, frozen queue | operators on a set of rows and a sequence of sets |
| `SSTableRegistry` | registry | a table is a record with level and position in its level |
| `CompactionPolicy` | `pick` | thresholds modulo `SizeModulus`, the machine word |
| `LSMTree` | the tree: threads, lock, files, crashes | the core; `EXTENDS` the three above |
| `LSMTreeInv` | - | the inductive invariant `WholeInv`, in named parts |
| `LSMTreeProof` | - | theorems about the tree: its steps, then what `scan()` relies on |
| `RowStore` | - | what a tree promises: a set of rows and the durable ones |
| `TreeScan` | a cursor read while the tree works | composes a cursor and the caches' map with `LSMTree` |
| `TreeScanInv`, `TreeScanProof` | - | its inductive invariant `ScanInv`; theorems |
| `SSTableFile`, `SSTableFileProof` | builder, sparse index, cursor of one table | both layouts; which rows are found; invariant `FileInv` |
| `BlockFormat` | bytes of the data, metadata and statistics files, both ways | both layouts; what a cell becomes |
| `ComposedCursor`, `ComposedCursorProof` | `compose_cursors`, chain, merge | invariant `ComposeInv` |
| `LRUCache`, `MetadataCache`, `BlockCache` | the caches | the first holds what the two share |
| `CacheProof` | - | theorems about both caches; invariants `MetaInv`, `BlockInv` |
| `SelectPlan` | evaluation of WHERE, key range, data skipping | operators |
| `SelectExecution` | the three kinds of SELECT over blocks with statistics | `EXTENDS SelectPlan` |
| `SelectProof` | - | theorems about the three kinds of SELECT; invariants `PlainInv`, `AggregateInv` |
| `Sums` | - | the sum of a column over a set of rows, for the two modules of SELECT |
| `LeastElement` | - | lemmas that most proofs use: least elements, sums |
| `QuerySyntax` | syntax trees | shared by the next two |
| `QueryLexer` | lexer | with the lexical rules as a reference |
| `QueryParser` | parser | with the grammar, and a printer, as references |
| `Statements` | schema, binder, executor of all statements, both engines | `EXTENDS QuerySyntax`, `INSTANCE SelectPlan`; invariant `StmtInv` |
| `StatementsProof` | - | theorems about the engines, INSERT and SELECT |
| `MCReadPath`, `MCFrontEnd` | - | compositions: the layers of the read path, and those of the front end |
| other `MC...` | - | small values of the constants for TLC |

### State and code

`LSMTree` has one variable per member of the class. `pc` says where a thread
is: between two values of it the code holds the lock, or is in one of the
stretches without it (`flushing`/`flushed`, `compacting`/`compacted`), or runs
a call that touches a file (`removing`, one old table at a time, and
`saving`), so that a crash can fall between any two of them. `insert` in
background mode is one step, as it holds the lock throughout; in synchronous
mode it continues in the drain loop. Rows are `[key, seq]`; `seq` numbers the
inserts, so that two rows with one key can be told apart. `disk` maps ids to
the rows of a directory and `{}` is one that is not finished. `durable`,
`inserts`, `adds` and `faults` are history.

A crash (`Crash`) loses all but `disk` and `manifest`. A builder that throws
(`WriteThrows`) and a manifest save that throws (`SaveFails`) end the drain in
synchronous mode; in background mode the exception ends the process, which is a
crash. After `SaveFails` the registry is ahead of the manifest until a later
save; `ManifestInv` allows for it. Whether a crash may fall between
the deletion of compacted tables and the save of the manifest is the constant
`CrashInWindow`.

`TreeScan` adds one open cursor: map iterators into the active memtable,
iterators into frozen ones, open files of tables. `SelectExecution` reads a
table made of a memtable and the blocks of one SSTable; the rest of the read
path is in the modules before it.

`BlockFormat` keeps three files as sequences of bytes. `FlushBlock` is the
`flush_block` of either builder, `FinishTable` writes the statistics, and the
two reads decode what is there with the arithmetic of the readers. Bytes have
2 bits and integers 3 or 5 bytes, so that a bitmap of three rows and the length
of a string take more than one byte. A DOUBLE is copied bit by bit by the code
and is the number of its bits here.

`Statements` runs one statement after another on an LSM engine and a mock
engine at once: `Reject`, `CreateTable`, `Insert` and `Select` are a whole
`Bind` and `Execute`. What the tree does in between is `Flush` and `Compact`:
rows move from memory to row blocks to column blocks, and with them what the
cursor returns for a column that is not projected. Expressions that throw have
the value `Thrown`, which spreads to the outcome `Failed` exactly where the
code evaluates the expression. `QueryLexer` and `QueryParser` work on abstract
characters and tokens; a token of type "error" is a place at which the lexer
throws.

`MCReadPath` and `MCFrontEnd` put components side by side that share no state.
Their variable `part` names the one a behaviour is about; the others rest. One
run then checks all of them.

## 3. Runs

All passing runs finish in about a minute or less with two workers.

| Run | Instance | Shows |
|---|---|---|
| `background` | 2 clients and the worker, 6 inserts of 2 keys, memtables of 2 rows, level 0 trigger 2, tables of size 1 or 3, fair scheduling | no interleaving of inserts, barriers, flushes, cascades, close and reopen loses, repeats or reorders a row; barriers return, the destructor ends, work is done |
| `recovery` | 1 client, 6 inserts, up to 2 crashes outside the window | the inductive invariant `WholeInv` holds; ids reused after a crash never clobber a table; saved rows survive; the tree implements `RowStore` |
| `sync` | synchronous mode, 1 thread, memtables of 1 row, 5 inserts, a crash, a failed write or a failed save | the tree implements `RowStore` also while it is ahead of its manifest; every drain ends |
| `scan` | 1 client, 5 inserts, every table leaves level 0 at once | the inductive invariant `ScanInv` holds; frozen memtables and files outlive a cursor; a scan is complete; cached metadata belongs to its table |
| `read_path` | tables of at most 5 rows over 4 keys in both layouts, one fixed and four adaptive steps, every range; 5 metadata blocks in pages of 2 under a budget that two ROW pages or less than one COLUMN page fill; 6 data blocks, one over the budget; tables of one or two blocks and up to 5 columns, with NULLs, strings and every projection; up to 3 sources of up to 2 rows | a cursor returns exactly the rows of the range unless the lower bound's key runs over the end of a block; answers are exact whatever is cached, budgets hold, recent pages stay; what is written is read; a composition is ordered, deterministic and complete |
| `front_end` | every text of at most 4 characters over 11; every condition of at most 4 tokens over 9 and 5 over 7; 127 statements with every edit of one token; one table of at most 3 rows, key, DOUBLE and STRING, about 235 statements | tokens are the longest ones and know their place; the parser accepts what the grammar does and reads it in the one way there is; an edit gives another statement or none; the two engines agree; an accepted well typed SELECT runs to its end; a grouped item is constant in its group; an INSERT stores what it says |
| `select` | three rows in memtable and blocks, INT64_MAX = 7, doubles exact up to 4, about 340 queries | plan, data skipping and early stop change no answer; order, LIMIT (from 1 on for a plain SELECT), aggregates and groups are right |
| `sync_two_threads` (violation) | synchronous mode, 2 threads | both write the same memtable; the second pop drops one that nobody wrote |
| `crash_window` (violation) | a crash between delete and save | the manifest names deleted tables |
| `scan_freeze` (violation) | a freeze under an open cursor | iterators into the active map dangle |
| `table_scan_duplicates` (violation) | repeated keys across blocks | a scan from that key misses rows |
| `key_against_double` (violation) | `WHERE key > 1.0` | the planner throws for a comparison the binder accepts |

The first four violation runs show that the restrictions of the passing results are
needed: one drainer, no crash in the window, frozen sources only, no split at
the lower bound. The last one shows why `WellTypedSelectRuns` has an exception.

**Why the bounds are enough.** With a trigger of 2, four inserts reach level 1
and a table of size 3 cascades to level 2; six leave more memtables behind.
`sync` with memtables of one row reaches two tables in a deeper level. Two
clients suffice for a barrier that races inserts and another barrier. Five rows
make up to five blocks with every position of a range relative to index
entries. A bitmap byte of 2 bits holds two columns or rows, so three of them
need the second byte, as nine do in the code. Four characters hold a literal
with a doubled quote, a `-`, a point and a digit on either side; conditions of five
tokens hold every pair of operators next to each other, and the edited
statements every clause. Three rows make a group of two and one of one, in
memory, row block and column block at the same time. `IntMax = 7` and `ExactBelow = 4` put keys at the end of the type and
values where `double` rounds.

**Fairness.** Weak fairness of each thread inside the drain loop, of the
worker's wakeup (`wait_for` has a timeout, so it is not a notification alone
that wakes it), of its exit and of `join`. Strong fairness of the two steps
that compete for `mutex_` with the worker, the re-check of a woken waiter and
`stop_ = true`: a mutex that is free again and again is got in the end. A
sleeping waiter is not assumed to wake by itself: it needs the notification
(spurious wakeups may happen and are not fair). Clients need not call anything.
Inserts are bounded, so the claim is that work ends once inserts cease.

Deadlock checking is off only in `read_path`, `front_end`,
`key_against_double`, `select` and `table_scan_duplicates`, where a cursor, a
text or a query ends.

## 4. Proofs

Every theorem holds for all values of the constants that satisfy the named
assumptions of the modules. Among these are: a level 0 trigger of at least 1
(with 0 the code would compact an empty level 0 for ever; the configuration
does not refuse it), sources of a composition that are sorted, rows and queries
of the right types, and blocks that are told apart by table, kind, id and, in a
COLUMN table, column. TLC evaluates all of them on the instances of the runs.

### The tree (`LSMTreeProof`)

| Theorem | States | Needs |
|---|---|---|
| `TypeCorrect` | `TypeOK` | - |
| `TreeInvariant` | `TreeInv` | S |
| `RowsSeenOnce`, `TablesOnDisk`, `FlushDropsWhatItWrote`, `BuildersArePrivate`, `SavedRowsSurvive` | `EachRowOnce`, `RegisteredOnDisk`, `FlushTakesOldest`, `JobDirPrivate`, `DurableSurvives` | S |
| `TreeImplementsStore` | `ImplementsRowStore` | S |
| `WaitIsABarrier`, `DestructorKeepsFrozenRows` | `BarrierDurable`, `CloseLosesOnlyActive` | S, W |
| `WholeInvariant` | `WholeInv` | S |
| `SourcesOrderedByAge`, `RangeScansAreComplete` | `AgeOrdered`, `RangeScanComplete` | S |

S is `SingleDrainer` (background mode, or synchronous mode with one thread) and
`~CrashInWindow`. The runs `sync_two_threads` and `crash_window` show that
neither can be dropped. W is `WritesSucceed`: background mode, where an
exception ends the process and is a crash, or synchronous mode without failing
writes. It is needed because a synchronous save that fails after the pop leaves
the registry ahead of the manifest, and the next drain finds no work and
returns without a save.

None of the safety properties is inductive. `EachRowOnce` speaks of the
instants at which the lock is free, so `PartitionInv` also describes the time
during which a compaction's new table coexists with the old ones
(`RemovingInv`); that needs to know what a job was given (`JobSourceInv`) and
that its directory is its own (`JobDirInv`), which after a crash depends on the
ids in the manifest (`IdInv`). `ManifestInv` says that registry and manifest
differ only between a change and its save. `ControlInv` says who holds the lock
and is proved first; with `SingleDrainer` it gives `OneDrainer`. One lemma per
action (`InsertData`, `BeginData`, `WriteData`, `CommitFlushData`,
`CommitCompactionData`, `RemoveOldData`, ...) shows that it preserves the
invariant and what it does to `Visible`; the refinement follows from the
second half.

`WholeInv` adds three parts. `BarrierInv` ties `stop_` and `worker_busy_` to
where the threads are, the manifest to the registry whenever nobody is between
a change and its save, and the queue to the drain loop: the two action
properties follow from it. `AgeInv` orders the generations in the queue, the
registry and the manifest (which a crash may bring back), with the tables a
compaction is deleting as the exception. `BoundsInv` says that the key bounds
the registry keeps of a table enclose its rows; without it the tables
`Overlapping` leaves out could hold rows of the range.

### The cursor beside the tree (`TreeScanProof`)

`ScanRefinesTree` shows that a scan adds no step to the tree: `ScanSpec`
implies `Spec`, and all theorems above hold beside an open cursor.
`ScanInvariant` (`ScanInv`, under S), and from it `NoRowLostOrRepeated`
(`ScanComplete`), `CursorKeepsItsSources` (`PinnedBacked`) and
`CachesAreCurrent` (`CacheCurrent`).

`ScanComplete` is about the end of a scan; the invariant has to say of every
row of the snapshot where it is meanwhile: returned, waiting in a source, ahead
of the iterators into the active memtable, or superseded by an overwrite
(`CompleteInv`), while sources stay disjoint from each other, from what was
returned and from what is inserted later (`DisjointInv`). A freeze destroys the
map under the iterators (run `scan_freeze`); such a cursor is never at its end
and the theorem claims nothing of it.

### The read path (`SSTableFileProof`, `CacheProof`, `ComposedCursorProof`)

* `FileInvariant` (`FileInv`) and `ScanIsExactUnlessSplit`
  (`ScanExactUnlessSplit`): for tables of any number of rows, any block limit,
  index step and range. The exception is the one of run
  `table_scan_duplicates`. `ReadFromStartExact` (a compaction reads its tables
  from the start) and `FlushedTableExact` (a flush writes every key once) say
  where the exception cannot arise.
* `MetaInvariant` (`MetaInv`), `ReadsExact`, `CacheAccounted`, `RecentKept`:
  for any number of blocks, page size, budget and set of columns with
  statistics. The heart is that a page just read is in front and so survives
  the eviction it causes, and that the pages of a call cut its range without
  gap or overlap (`PageBorders`, by division with remainder).
* `BlocksReturned` (`BlockReturned`): for any blocks and budget.
* `ComposeInvariant` (`ComposeInv`), `HeapIsFresh`, `MergeIsDeterministic`,
  `EveryRowOnce`: for any number of sources of any length.

### The three kinds of SELECT (`SelectProof`)

`PlainInvariant` (`PlainInv`), `PlainIsExact` (`PlainExact`) and `PlainIsOrdered`
(`PlainOrdered`): key range, point lookup, data skipping with rounding
statistics, early stop, sort and limit lose no match, for every table and query.
Two hypotheses on the queries, each with the change of constants in section 5
that shows it is needed: `ZeroOnlyAfterSort` (LIMIT 0 only where the executor
sorts) and, for the order, `KeyDecides` (no further item after `ORDER BY key`,
or no repeated key). That a skipped block holds no match rests on `ToDouble`
being monotone (`ToDoubleMonotone`, `CompareMonotone`): a block is
skipped by comparing rounded bounds, a row is tested with the same rounding.

`AggregateInvariant` (`AggregateInv`), `GlobalIsExact` (`GlobalExact`) and
`GroupedIsExact` (`GroupedExact`). The invariant splits the matches into those
the cursor has still to bring and those seen: there is a group for every value
of the latter and none else, and its state describes exactly the rows of the
group (`Describes`): count, minimum, maximum, and the sum wrapped at the width
of INT64. Wrapping commutes with addition (`WrapAddition`), so the answer is the
exact sum whenever that fits, although partial sums overflowed. `Sums` is a
recursive function over sets that removes a chosen row; that it does not matter
in which order the loop meets the rows (`SumWith`: the sum of a set is that of
the set without any of its rows, plus that row) has no proof by library
induction and is shown by a smallest counterexample. The first two theorems have no
hypothesis. `GroupedIsExact` needs `OrdersByGroup`, that a grouped query orders
by the grouped column: the binder lets ORDER BY name another column, and
the code then sorts groups by the value in the first row of each, for which the
documents promise nothing. An INT64 column holding INT64 values is part of
`TablesAssumption`.

### The front end (`StatementsProof`)

* `StatementsInvariant` (`StmtInv`): both engines have the same tables under the
  same schemas; in every table of the tree each row fits its schema, and the
  map of the mock holds one of the rows of each key; the last answers are those
  of the executor on these tables. None of the properties below is inductive:
  each speaks of the answer of one statement, and what that statement meets was
  put there by the INSERTs before it.
* `InsertsAreStored` (`InsertStores`), an action property. Which rows a step
  keeps is said with bags; the proof gives the bijection between their places
  (`Matched`) that an insert, a flush or a compaction induces.
* `GroupsConstant` (`GroupedItemsConstant`).
* `WellTypedRuns` (`WellTypedSelectRuns`): for every schema, table and
  statement. The argument goes up the layers of the expressions: on a row that
  fits the schema, a well typed expression yields a cell of its type or NULL
  (`EvaluateYields`), so no operator throws; on the row as a cursor returns it,
  every expression of the statement has the value it has on the whole row,
  because its columns are projected (`ShownIs`, `LikeValues`); a conjunct that
  goes into the plan compares the key with an INT64 (`PlanOfFits`), so the
  planner does not throw; and an aggregate meets only cells it can add
  (`AggregateRuns`).
* `EnginesAnswerAlike` (`EnginesAgree`). If no key is repeated, taking a place of
  the tree to the key of its row is a bijection between the rows the two engines
  read, and corresponding rows give every expression of the statement the same
  value (`ReadsAlike`), although one of them has only the projected columns.
  Everything the executor does respects that (`Alike`): WHERE keeps
  corresponding rows (`AlikePassed`), a plain SELECT shows the same bag
  (`AlikePlain`), a COUNT or a sum does not depend on the places of its values
  (`MatchedSums`, `AlikeAggregate`), and both engines form the same groups
  (`AlikeKeys`). The first row of a group may differ, but what is taken from it
  is an expression of the group's key, or an ORDER BY expression that is well
  typed and so does not throw (`OrderDecided`). The range of a lookup by key is
  the same in both unless the key is the largest one (`RangesAgree`). So each
  exception of the property is used at one place of its proof.

The assumptions are about the inputs. `ExpressionsAssumption`: expressions are
finite trees, given by layers, the operands of one being in the layers below;
literals of INT64 are in range. `RequestsAssumption`: a statement is what the
parser can return, without LIMIT (LIMIT is part of `SelectExecution`).

### How the proofs are made

Induction over data is out of reach of the installed provers, which cannot
instantiate a theorem with an operator parameter. In its place,
`LeastElement` gives the least element of a set of natural numbers, and a claim
about all turns of a loop or all elements of a list is proved by its smallest
counterexample. So is the existence of the recursive functions `Plans`,
`Totals`, `Evicted` and `Reading`: the least n for which no function up to n
exists would have a predecessor that can be extended. For `Sums` the place of n
is taken by a smallest set (`SmallestSet`), for the functions on syntax trees
(`Parts`, `Conjuncts`, `Evaluate`) by the lowest layer, for the list of select
items (`FlattenSeq`) by its shortest prefix. The eviction loop and the loop over
pages are recursive functions for this reason, `touch` moves elements
by their place, and what is a choice of one of several orders in the code (the
sort of equal rows, the rows of a map) is the set of all of them (`Listings`).

TLC has checked every inductive invariant: `WholeInv`, `ScanInv` and
`TypeOK` in the runs of this directory; `FileInv`, `ComposeInv`, `PlainInv`,
`AggregateInv`, `MetaInv`, `BlockInv` and `StmtInv` on the parts of `read_path`,
`select` and `front_end` they are about (tables of four rows instead of five for `FileInv`,
INT64 tables of one row in memory and two blocks for `PlainInv`, all tables and
aggregate queries for `AggregateInv`), with quantifiers over all numbers
restricted to those that occur.

### Model-checked only

* Liveness (`WaitReturns`, `CloseEnds`, `WorkIsDone`, `InsertReturns`): the
  prover has no rules for fairness and `ENABLED`.
* `WrittenIsRead`: a record is decoded byte by byte by recursion on the bytes.
* `TokensMaximal`, `ParserFollowsGrammar` and `StatementsRoundTrip`: the lexer and
  the parser are compared with recursive definitions over texts and trees.

## 5. Disagreements between code and documents

With a run: the five violations above. Others, stated as properties or seen
while modelling; each with the change of constants that shows it
(of `background.cfg`, `scan.cfg` or `select.cfg`):

* `UniqueKeys` fails in `MCLSMTree` with 3 inserts: a key inserted again after
  a freeze is visible twice, while the mock engine's test
  `InsertOverwritesSameKey` expects an overwrite.
* `CapacityRespected` fails once the threshold wraps (`SizeModulus = 4`,
  `BaseSize = 1`, `SizeRatio = 2`).
* `ScanInRange` fails in `MCTreeScan` with `Keys <- MCThreeKeys` and
  `Threshold = 3`: the end of an active cursor is an iterator, not a key, and
  rows inserted before it later are returned.
* `LimitRespected` fails with `Queries <- ZeroQueries`: a plain SELECT with
  LIMIT 0 returns one row, one with aggregates or GROUP BY none.
* `PlainOrdered` fails with `Keys <- RepeatedKeys`, `Queries <- TieQueries`:
  after `ORDER BY key` further items are ignored.
* `docs/query_language.md` says that several statements in one query are not
  supported; the parser reads the first one and ignores the rest (`ParseEnd`).
* Its example of CREATE TABLE (`key STRING KEY`, line 168) and that of INSERT
  (`'u1'`) are refused by `SchemaBuilder`: a key is an INT64 (`BuildsSchema`).
* `LIMIT -1` is taken for a very large limit (`ParseLimit`), and a literal
  that does not fit an INT64 throws `std::out_of_range` instead of a
  `ParseError` (`ParseLiteralExpression`).
* The mock engine never finds INT64_MAX by key (`MockRange`), and overwrites a
  key inserted twice: two of the exceptions of `EnginesAgree`. The third: ORDER BY
  of a group is evaluated on the first row of the group, which need not be the
  same row in both engines; with `SELECT b ... GROUP BY b ORDER BY a = b`, `a` a
  DOUBLE and `b` a STRING, the comparison throws unless one of the two is NULL,
  so that one engine may throw and the other not (`FirstRowDecides`).

## 6. Not modelled

* A manifest that is written short without an exception (the code does not test
  the stream), fsync, and the bytes of the manifest.
* Concurrent use of the caches by several client threads: they have no lock,
  and a data race has no outcome to check against.
* The catalogue across a restart: `LSMStorageEngine` keeps it in memory only,
  and a table created again opens the files it left, under whatever schema.
* NaN (it cannot be inserted through SQL) and the order of negative doubles in
  `BlockFormat`; names of result columns; hit and miss counters; the info file
  of a table; the linear block selectors, which only tests use.
* A scan with from > to: the executor answers it without a scan.
* Error messages and which exception a refusal is; logging.

## 7. Plan

Done: the core (tree, memory, registry, policy) with crashes, failing writes
and failing saves; cursors, tables and their bytes, caches; SELECT; lexer,
parser, binder and the engines. Proved: every safety property of the tree, of a
cursor beside it, of tables, caches and compositions, the refinement of
`RowStore`, the three kinds of SELECT, and of the front end what INSERT stores,
that a well typed SELECT runs, and that both engines answer alike. Left:
`WrittenIsRead` for columns of fixed width, and the lexer and the parser,
where recursion on texts and trees would have to become recursive functions
first.
