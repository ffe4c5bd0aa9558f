# TLA+ models of ShardIndex

ShardIndex keeps an index of a source tree in SQLite (symbols, references, string
literals, hashes) and answers queries of coding agents from it. This directory
holds TLA+ modules of the parts that make the index, keep it true while files,
workers and processes come and go, and answer from it; the TLC configurations that
check them; and TLAPS proofs of what matters most. Paths are relative to the
repository, which the manifest `PROJECT.json` sees as `src/`: `daemon.rs` is
`src/src/daemon.rs` there.

## 1. The system

### 1.1 Components

| Component | State it keeps | Operations | Modelled in |
|---|---|---|---|
| `daemon.rs` Daemon | `DaemonSharedState` behind a mutex (state machine, dirty queue, counters); a shutdown channel; a thread | `start`, `stop`, `add_dirty_event`, `daemon_loop`, `process_batch`, `process_single_file` | Daemon |
| `watcher.rs` FileWatcher | debounce map, channel of paths, the daemon's state | `handle_event_multi` (notify thread), `debouncer_loop_multi` (tokio task), `poll_fallback` (tokio task) | Watcher |
| `indexer/mod.rs` passes | none of its own: tables `file_hash`, `files`/`checksums`, `symbol`, `reference`, `string_literals` | `index_file`, `IndexDb::remove_file` and the statements they are made of | Indexer |
| `indexer/mod.rs` sweeps | the list of a directory walk | `index_all`, `index_all_multi`, `clean_deleted_files` | Sweep |
| `indexer/<language>.rs` parsers | none: the names a walk carries down the tree | `parse` of 26 languages | Parsers (14 of them) |
| `database/mod.rs` IndexDb | the SQLite connection | some seventy statements and queries | with the component that runs them; queries in Queries |
| `database/schema.rs` | table `versions`, all tables and columns | `init_db`, five migrations | Schema |
| `integrity.rs` IntegrityGuard | tables `checksums`, `dirty_queue` | `verify_file`, `check_and_process`, `process_dirty_queue`, `scan_new_files` | Repair |
| `recovery.rs` | `.shardindex/journal.jsonl` | `append`, `truncate`, `rotate`, `recover`, `start_with_recovery` | Repair |
| `agent_cache.rs` | table `agent_cache`, a mutex | `get`, `set`, `invalidate_for_file`, `purge` | Protocol (keys), Server |
| `mcp/` HTTP, REST and stdio servers | index connection behind a mutex, cache | one handler per tool: parameters, cache, query, store, budget | Protocol, Server |
| `token_budget.rs`, `token_estimation.rs` | none | `enforce_budget`, four strategies | Protocol |
| `graph/mod.rs` | table `symbol_rank` | ranks, edit plan, deep impact, dead code, moves, signatures | Server (ranks), Queries, Answers |
| `search.rs` | none | Levenshtein, fuzzy and combined scores | no, see 6 |
| `compression.rs`, `fallback.rs`, `cross_language.rs`, `cross_reference_strings.rs` | none, or derived rows | text heuristics | no, see 6 |
| `config.rs`, `cli/`, `format/`, `error.rs` | none | parsing and printing | no, see 6 |

### 1.2 How they interact

`shardindex daemon` (`cmd_daemon`, main.rs:238-332) first runs a sweep, then starts
a FileWatcher and the HTTP server. From then on these touch the same things:

```
 user/editor ──> files ──notify──> handle_event_multi ──> dirty_queue ──> daemon_loop ──┐
                                        │                      │                        │
                                        └─> debounce map ──────┴──> debouncer ──────────┤ parse, index_file,
                   files ───────────────────────────────────> poll_fallback ────────────┤ remove_file
                   files ──────────────── init / reindex (another process) ─────────────┘     │
                                                                                              v
 agents ──HTTP──> worker threads ──> cache mutex ──> agent_cache ───────────────────── SQLite tables
             │         └───────────> index mutex ──> queries, analyses <────────────── symbols, references,
        stdio└──> a process per agent, own connections <──────────────────────────────  symbol_rank
 rank command ──> clear, degrees, edges, upserts ──────────────────────────────────────────^
 integrity / recovery (library) ──> dirty_queue table, journal.jsonl ──> index_file ───────^
```

* The dirty queue of the daemon has **two consumers**: the loop it was made for,
  and the debouncer, which drains it on each round. They share one mutex, but the
  debounce map and the channel are outside it.
* The index has **four writers**: loop, debouncer, polling task, and a sweep in
  this or another process. Each opens its own connection. There is no transaction
  and no lock around a file: SQLite makes a statement atomic, nothing makes a pass
  atomic.
* What decides whether a file is indexed again is the comparison of its hash with
  `file_hash` (indexer/mod.rs:472-484), and that hash is stored before the rows.
* Every command, server and worker **opens the database** and thereby runs the
  migrations, possibly at once with others.
* The HTTP handlers share **two mutexes**: the cache is asked before the index's
  mutex is taken, and filled while it is held. A stdio server and a rank command
  are processes of their own that see each statement of the others.
* An analysis asks `impact` and `neighbors`, which see only calls the parsers gave
  a **caller**: what the walk of a parser carries down decides what an edit plan or
  a dead code check can know.

### 1.3 What is hard, and what makes each part correct

* **Daemon.** Three places write the state machine without looking at what was
  there (stop, end of batch, end of pause). Correct means: a status that is true
  of the thread, work in order and at most once, a shutdown that stays, no lost
  wakeup.
* **Watcher.** Events are lost on purpose in three places (batch limits,
  debouncing, type dropping). Correct means: the last change of every file is
  come to by somebody, and deletions reach the index.
* **Indexer.** Passes over one file overlap, stop anywhere, and mix with
  removals. Correct means: rows are those of the stored hash, nothing is left
  without a hash, and a disturbed file repairs itself.
* **Sweep.** What it removes is computed from a walk and a list of hashes taken
  at different times. Correct means: it removes what is gone and nothing else.
* **Schema.** Migrations are not transactions and are recorded afterwards.
  Correct means: a recorded version is there, an opened database is whole and has
  its data, and what two openers do to each other passes.
* **Integrity and recovery.** Both decide by comparing hashes at different times
  what still has to be done. Correct means: a checksum vouches for rows, an entry
  or a line leaves the queue or the journal only when its file is served.
* **Parsers and analyses.** A wrong name carried down a tree is a wrong caller,
  and a wrong answer five functions later. Correct means: a caller is the function
  around the call, and an analysis says nothing is there only if nothing is.
* **Cache and servers.** An answer combines reads of different times. Correct
  means: it answers the question asked, it is as old as the TTL allows and not
  older than an invalidation, it is within the budget or says why not, and every
  request ends.

`PROJECT.json` lists 40 hazards at their lines, 33 of them with the properties that
would catch them; where a property covers half of a hazard, the hazard's note says
which half. The other seven:

* watcher.rs:270: with more paths than `max_batch_size`, the debouncer forgets
  changes (the default is 50). With fewer places than paths `ChangesAreSeen` is
  simply false, which this line records instead of a run.
* watcher.rs:93: a change between the initial sweep and the start of the watch is
  in no event. Module Watcher starts behind this window, Sweep ends before it.
* graph/mod.rs:685: the confidence of a layer goes up again with the depth. It is a
  number copied into the answer, a finding, and nothing depends on it.
* indexer/mod.rs:572: an error ends a cleanup halfway. `SweepLeavesNoGone` speaks of
  sweeps that end in good order; the next one lists every hash again.
* integrity.rs:163, recovery.rs:297, mcp/mod.rs:153: a clean entry that stays in the
  queue, a journal line that is skipped, a cached answer over its budget. That is what
  the code does; the properties name these cases as exceptions, and findings quote what
  the repository says instead.

## 2. Modules

| Module | Lines | What it is |
|---|---|---|
| `EventQueue` | 33 | what the dirty queue promises, with no threads or batches |
| `Daemon` | 248 | `daemon.rs` |
| `Watcher` | 287 | `watcher.rs` around Daemon (`EXTENDS Daemon`) |
| `Indexer` | 290 | `index_file` and `remove_file`, statement by statement |
| `Sweep` | 161 | `index_all*` over Indexer (`EXTENDS Indexer`) |
| `Schema` | 216 | `init_db` and its migrations, by several processes |
| `Repair` | 405 | IntegrityGuard with its queue, the journal and the recovery, around `index_file` |
| `Parsers` | 303 | the walks of fourteen languages, from a tree to rows |
| `Queries` | 160 | the queries of IndexDb and the analyses of `graph/mod.rs`, from rows to answers |
| `Answers` | 261 | a project written node by node: Parsers, index, Queries |
| `Protocol` | 206 | handlers of both servers, cache keys, budgets, as functions |
| `Server` | 415 | threads, mutexes, cache, ranks and index under requests (`EXTENDS Protocol`) |
| `DaemonProofs` (Watcher too), `IndexerProofs`, `SweepProofs`, `SchemaProofs`, `RepairProofs`, `ServerProofs`, `ServerAnswerProofs`, `AnswersProofs` | | the proofs |
| `MC*` | | the modules TLC runs |

Operators whose names have a suffix (`Take_All`, `Start_FromIdle`) are mutants: the
definition after the underscore says what a plausible slip would make of it.
Each property is checked to fail under one of them.

### 2.1 Daemon

A step is one critical section of the mutex, or what a thread does between two.
`state` and `queue` are `DaemonSharedState`; `pc`, `rest` and `failed` the loop's
program counter, the rest of its batch and `errors > 0`; `owner`, `handle` and
`signal` the caller of start and stop, `self.handle` and the channel.

| Code | Action |
|---|---|
| `add_dirty_event`, 177-187 | `AddDirtyEvent` |
| `start`, 154-175 | `Start` |
| `stop`, 195-199, 201-203, 205-213 | `StopBegin`, `StopSignal`, `StopJoin` |
| `try_recv`, 230 | `NoSignal`, `TakeSignal` |
| the match on the state, 240-268 | `Tick`, `ResumeIdle` |
| `process_batch` | `DrainBatch`, `ProcessFile` for each event, `FinishBatch` |

Two shortcuts: the early return of `process_batch` on an empty queue (289-293)
is `FinishBatch` with nothing failed, since both set Idle in a critical section
of their own and drained nothing in between; and Persist and UpdateRefs (327-328)
do not appear, since they are set and left inside one critical section.
`lock` is there for one reason: at 231 the loop keeps its guard and calls a
function that locks again. The loop stays at `relock`, as std's Mutex on the
platforms the tool is built for makes it do (std allows a panic instead; neither
returns).

Not modelled: a second `start` without a `stop` (it would leave two loops; no
caller does it), the statistics, `process_remaining_batch` behind its lock, which
no execution reaches.

`EventQueue` is the abstraction: waiting events, the last one handled, and three
actions. The refinement mapping puts the batch in hand before the queue:
`waiting <- rest \o queue`.

### 2.2 Watcher

Files exist or not and have rows or not; contents are module Indexer's business.
The notify thread's handling of a path is one step because it keeps the guard of
the shared state to the end of the iteration (181-203). Time is two facts: an
entry of the debounce map leaves the window (`Ripen`), and an event may or may
not be more than 200 ms after the one before it (the constant at 208, which is
not the configured window), which is left open.

The debouncer's round is `RetainDebounce`, `DrainChannel`, `DrainQueue`, then a
`DebounceRead` and a `DebounceWrite` for each path, or a `DebounceDrop`:
`IndexDb::open` or `ProjectIndexer::new` fails (watcher.rs:308-326), a warning is
logged, and the path, which has left map, channel and queue, is let go of unread. The
loop has the same in `LoopDrop` (daemon.rs:419-424); polling, which comes to every file
again, has it as a step it does not take. `unseen` and `dropped` are histories: files
changed and not read since, and those of them that a worker has let go of. Only the
loop knows removals
(`LoopRemove`); everybody else reads the file and fails if it is gone.
`Written` is what an indexing may leave: rows on success, and on an error rows or
none, because the hash may or may not have been stored by then.

`cmd_daemon` never calls stop, so the owner takes no step. The initial state is
the one behind the initial sweep and the start of the watch.

### 2.3 Indexer

A version stands for a content and its hash. Each of these is a step, as each is
a statement, or the read of the file, in the code: read, compare, store the hash,
store the checksum, delete symbols, references, literals, parse, insert a symbol,
a reference, a literal. One row of each kind stands for the loops over them: one
more iteration of the same statement adds interleavings of the same kind.
`upsert_checksum` is one step, as nothing reads the hash it also writes to
`files`. Foreign keys are those of the schema (rusqlite's bundled SQLite enforces
them): deleting a hash cascades to symbols and literals, is refused while
references are left, and inserting under a missing hash is refused (`Refused`).
References between files, which the cross-language tools can add, are left out.

`Stop` is an error returned by `?` and also a kill of the process: either way the
worker is done with the file and its statements stay. That holds of a removal too,
which is three statements: one that stops before the last leaves a hash without its
rows. With `Faults = FALSE` only a refused statement stops a pass.

`touched` and `suspect` are histories that the actions never read: whether another
worker wrote the file during a pass, and whether something happened since the last
undisturbed pass that may explain wrong rows.

### 2.4 Sweep

The sweep is one worker of Indexer with a loop around it: walk, index what was
found, *then* read the hashes, remove those that the walk did not find. The other
workers and the user go on between any two steps. `index_all` walks for one
language (`scope` is a member of `Languages`), `index_all_multi` for all of them.
`absent` and `excused` are histories: files that were missing at some time of the
sweep, and files another worker was at or that the sweep failed at.

### 2.5 Schema

`Migrations` lists the statements of the five migrations in their order; tables and
indexes that nothing tells apart are one object. A statement creates (and may be
repeated), adds a column (and may not), adds one with a computed default (and is
refused when the table has rows), or copies rows.

| Code | Action |
|---|---|
| `init_db`, 366-380: foreign keys, table `versions`, `get_schema_version` | `Open` |
| `execute_batch`, 386, each statement of the batch | `Execute`, or `Refuse` |
| `record_migration`, 389-399 | `Record` |
| a kill or an error anywhere in between | `Kill` |
| the connection is dropped | `Close` |

`Init` is every database the program could have left: new, or of each version, with
or without rows, and one of version 1 with or without its table `versions`. From
version 2 on, a pass stores the hash, the row of `files` and the checksum one after the
other, and a removal takes away the hash only, so a kill leaves any of them without the
others: their sets are chosen independently, but that a checksum refers to a row of
`files`. `old` is the `file_hash` of a database before version 2, which is what
migration 2 has to keep.
`Torn` is a state predicate: a column of migration 2 or 4 is there, the migration is
not recorded, and nobody who could record it is on the way.

### 2.6 Repair

One file, its versions as in Indexer, the pass of `index_file` in five steps (read,
hash, checksum, rows; Indexer has the rows in detail). Around it, the callers in
processes of their own. `use` says what each does: call the IntegrityGuard, or write
ahead to the journal, lines with the hash or without, and recover from it. `binary` is
the set of contents that are no UTF-8, which `read_to_string` refuses.

| Code | Action |
|---|---|
| `process_dirty_queue`, 208-230, with `remove_file` | `ProcessQueue`, `Entry`, `RemoveReferences`, `RemoveSymbols`, `RemoveHash` |
| `verify_file`, 66-124 | `VerifyStored`, then `Clean`, `NotClean`, or `Unread` |
| `check_and_process`, 127-168, with `insert_dirty` | `Check`, `DeleteEntry`, `InsertEntry` |
| `process_single`, 170-205 | `Single`, `Index`, `StoreChecksum`, `ClearDirty` |
| `index_file`, whose error the queue collects, or recover drops (312-316, 358) | `Index`; `IndexNoText`, `DropError` |
| `append`, Pending and Committed | `AppendPending`, `AppendCommitted` |
| `recover`, 244-330, `reindex_file` | `Recover`, `RecoverLine` for each line, `Index`, `Truncate` |
| a kill, or an error of the database | `Stop` |

A journal is the set of the hashes of its Pending lines, as `recover` asks for
nothing else, 0 for a line without one. A kill in the middle of an append leaves part of a line; the next line
is written behind it and becomes unreadable with it. Where the code turns an error into
a value, so does the model: `get_checksum` and `get_file_hash` then say there is none
(`VerifyStored`, `IndexRead`), and a hash that cannot be computed makes the file Missing
(`Unread`). `DropError` ends a re-index of `recover` anywhere before or between its
statements, and the recovery goes on to the next line and truncates. `mixed`, `bare` and `suspect`
are histories: whether somebody came between since a caller began, whether its
Pending line is gone, and why rows may not be those of the checksum.

Both are libraries: no command of the program calls them (it calls
`compute_file_hash` only), so the callers are those their documentation describes.

### 2.7 Parsers, Queries, Answers

Every parser is one recursive walk that carries the enclosing class and the enclosing
function down. `Context`, `Symbols` and `References` are that walk; a language is a
record of where it differs: which kinds of node set the names (`opens`, `enters`),
on which side of the node (`side`), which are asked for a field the grammar does not
have (`misnamed`), what is recorded of a declaration, a base class, an import and a
call. A tree is the sequence of its nodes in the order of the walk.

`Queries` has the rows as sets and the queries and analyses as functions of them:
`Neighbors`, `Impact` (with its LIMIT), `SearchSymbol` (LIKE, ordered by kind and
name), `EditPlan`, `Layers` (impact_deep), `DeadCode`, `CrossModuleMove`,
`SignatureMigration`.

`Answers` puts them together. A project of two files, one of them a test, is written
node by node as the language's grammar allows (`Save`), each save indexing the file;
and `Checkout` takes a whole project out of `Programs`, a constant: any trees that the
grammar allows (`IsTree`, `IsProject`). In the run (`MCPrograms`) these are Python
programs with every call graph over three functions. `Depth` is how far `impact_deep`
is asked to look. What is in the source is said of the trees alone, and the answers are
compared with it.

### 2.8 Protocol, Server

`Protocol` has one record per handler of either server: the parameters it refuses to
be without, its SELECTs, which of them hide their failure, whether it uses the cache
and the budget, and what a budget can take out of its answer. `with_string_refs` adds
a SELECT that hides its failure. The strategies of the budget and the two ways a reduced
answer is labelled are functions.

So is the key of the cache. `canonicalize` writes `name=value` for each parameter, a
string without quotes and a comma in it without an escape. A parameter is therefore what
the JSON has (`Json`: a string, a number, a boolean, or nothing) and its text, of which
only the text is in the key, while a handler reads a number or a boolean only. Two
parameters stand for all that are written so, one number (`token_budget`; `limit` and
`min_score` are written in the same way) and one boolean (`flag`); and `tail` is what the
string asked about has behind its first comma, as the pieces `name=text` it looks like
in a key.

| Code | Action of Server |
|---|---|
| a request is taken by an idle thread; parameters, 144-148 | `Ask` |
| `AgentCache::get`, `get_cached`: the UPDATE with the TTL, the SELECT without | `Lookup`, `Select` |
| `state.db.lock()` | `TakeDb` |
| each statement of the handler, which may fail, or find no such symbol (graph/mod.rs:1089, 1194) | `Query` |
| `AgentCache::set` while the index is locked, `budgeted_success` | `Store`, `Finish` |
| `invalidate_for_file`: list under one lock, delete one by one under others | `Invalidate`, `DeleteOne` |
| `purge_expired` | `purge_expired` |
| `compute_and_store_ranks`: clear, degrees, edges, each upsert | `RankClear`, `RankDegrees`, `RankEdges`, `RankUpsert` |
| the daemon is stopped and started, a rank command is interrupted | `Restart`, `RankStop` |

A result is the request it is of, the change of the index its first statement saw,
the statements that failed, and its parts. `Change` stands for everybody who writes
the index. A request remembers what was true when it was asked (`Asking`), and the
answer is judged by it.

## 3. What TLC checks

`tlc -workers 2 -config X.cfg M`; all runs together take about ten minutes. States
are distinct ones.

| Run | Instance | States | Result |
|---|---|---|---|
| `daemon` | 1 path, 3 event types, batches of 2, 3 events queued | 21 thousand | passes |
| `daemon_stop` | 1 path, batch 1, queue 1 | | `StopReturns` fails |
| `watcher` | 2 paths, batch 2, queue 4, 2 changes | 682 thousand | passes |
| `watcher_deleted` | the same, one file indexed | | `NoRowOfDeletedFile` fails |
| `indexer` | 1 file, 2 workers, 2 contents, faults | 261 thousand | passes |
| `indexer_crash` | 1 worker, faults | | `HashedIsIndexed` fails |
| `sweep` | 1 file, sweeper and a daemon worker, 2 contents, faults | 893 thousand | passes |
| `sweep_language` | 2 files of 2 languages, sweeper alone | | `SweepRemovesDeleted` fails |
| `schema` | 3 processes, 1 file, databases of versions 0 to 5, kills | 52 thousand | passes |
| `repair` | 2 callers (2 guards, 2 journals, or a guard and a journal with or without hashes), 2 contents, one UTF-8 or not, 2 writes, kills | 1,777 thousand | passes |
| `answers` | 14 languages, 2 names, 3 nodes; Python programs of 3 functions; LIMIT 2 | 220 thousand | passes |
| `server` | 2 worker threads, 2 other processes, 10 requests, 2 of them asked, 1 change, 1 tick, 1 invalidation | 832 thousand | passes |

**daemon.** `StatusTruthful`: what a status endpoint shows is true of the thread.
`StoppedForGood`: a shutdown that finds the loop between two batches is final,
even over a restart. The name is praise and complaint at once: the new loop of a
restart exits at once, because nothing resets Shutdown. A shutdown that finds the
loop in a batch or a pause is overwritten; the property says exactly where the
line runs. `ImplementsEventQueue`: order, at most once, and discards only beyond a
batch. `DirtyIsServed`: Dirty is left, for the end of a batch or a shutdown.

**watcher.** `QueueDrains`: the loop alone loses wakeups (an event queued during a
batch or in Recover finds no one to set Dirty), yet the queue empties, since the
debouncer drains it on each round. `ChangesAreSeen`: the batch limit of the loop
drops events, the debouncer steals them, and still some worker comes to the file after
each change, because the debounce map remembers it. Without the map the property fails.
It says less than that the change is read: a worker that cannot open the index just then
lets go of the file, and nobody has to come again (`dropped`). That is the only excuse. `BusyIsVisible` is the part of `StatusTruthful` that survives the
second consumer: Parsing may now be shown for ever with nothing in hand.

**indexer.** `ExactPass`: an undisturbed pass leaves exactly the rows of what it
read, whatever wreck it found. `OnlyThreeWaysToFail`: a quiet file whose rows are not
those of its hash was left by one of three causes: a pass that stopped behind the
store of its hash; a removal that stopped before its last statement, which takes the
hash; or overlapping passes over different contents (or a removal). `RowsHaveHash`: no orphans. `HashCatchesUp`: a slow worker
may put an old hash back, but polling wins in the end; it says nothing of the rows.

**sweep.** `SweepSparesPresent`, `SweepLeavesNoGone`, `SweepIndexesPresent`: what is
removed, what is left, and what is indexed when a sweep ends, with the exceptions
spelt out. One file is enough: the sweep treats files one by one, and its removal
loop ends early only for an error, which excuses nothing here because `EndSweep`
is then not taken.

**schema.** `RecordedIsThere`: whoever applied a migration, and wherever somebody was
killed, what table `versions` says is there. `OpenIsComplete`: a database that opens
has every object, and a row in `files` and in `checksums`, from which IntegrityGuard
reads, for each file that the program of version 1 had indexed. Of later versions it
promises nothing: a kill between the stores of `index_file` leaves a hash without a
checksum there, and no migration makes up for it. `RefusalIsTemporary`: two processes that
open a new database both migrate it and the slower one is refused a column, but it
gets in when it tries again, unless the database is torn. `TornHasCause` and
`TornIsForGood` draw the line of the damage: overlapping opens alone never tear it;
a kill within migration 2 or 4, or a database of version 1 with symbols, does, and
then nobody opens it any more.

**repair.** `CleanIsIndexed`: a checksum vouches for the rows, unless one of the causes
the comment lists came between; the most surprising is that `remove_file` leaves the
checksum, so that the same content coming back is called clean without rows, whether the
removal came to its end or stopped between its three statements.
`ClearedIsServed`: an entry is marked processed only when the file as it is now is in
the index or out of it. `QueueSettles`: either the checksum settles or the queue
empties; a clean entry may indeed stay pending for ever, processed in each round, and
so may one whose file is gone or no UTF-8, which `process_single` refuses each time. (A
parser's error comes behind the store of hash and checksum, so that such a file is clean
in the next round.)
`WriteAhead`: a Pending line can be read as long as the pass is between hash and
rows, unless a torn line swallowed it or another process truncated it.
`RecoverRepairs`: a recovery truncates only what it repaired, *for files whose
content differs from the line, and where `index_file` did not fail*. A file with the
hash of the line is the finding below; an error of `index_file` is dropped (`lost`), and
the journal is truncated all the same, which is a listed hazard.

**answers.** `CallerIsInnermost`: a caller that a row names is the innermost function
around the call (in TypeScript, one of those around it; in Scala, the class).
`DeadIsUnattributed`: dead_code_verify says "safe to delete" exactly when no call is
attributed, no class is known to derive from the symbol and no impl block names it;
`Attributed` spells out which calls those are in each language. `PlansCoverCalls`:
a file with an attributed call is in the edit plan, in the plan of a move, among the
breaking changes of a stricter signature, and not "safe to modify", unless the LIMIT
of impact cut it off. `LayersAreDistances`: the layers of impact_deep are the
distances in the call graph, through cycles, self calls and tests left out.

**server.** `StaleHasCause`: an answer older than its question comes from the cache,
was stored within the TTL, and not before an invalidation that was over by then. Its
content may be older than that by the time its query took: an answer in the making
survives an invalidation. `AnswersTheQuestion`: no request gets the answer of another,
but for a cached one to a request that differs in nothing but quotes (`SameButForQuotes`:
`use_like` or a number as a string, or parameters that stand in the query's own text),
which do happen, and in the run do: a property without this exception fails there. It
says that `make_key` mixes up nothing else; refusals are those `tools/list`
announces (over stdio); an answer that hides a failed statement is of a method that
hides it. `OverBudgetHasCause`: an answer above its budget is a hit of the cache, of a
method without budgets, or has nothing left to remove, and reductions are no deeper
than needed. `RanksAreOneReading`: a rank command that was alone leaves ranks of one
pair of readings; two at once, or one that was interrupted, leave a mixture.
`EveryRequestEnds`: no thread waits for ever, although the cache's mutex is taken
while the index's is held.

**Findings.** `PROJECT.json` lists 18 disagreements with the repository's own words,
each with the words. Four have a run that must fail: stop that never returns
(daemon.rs:194), rows of deleted files (README.md:211), the hash stored first instead
of last (daemon.rs:373-376), and a sweep of one language that removes the files of
the others (indexer/mod.rs:557). The other fourteen need none: either a passing
property states the exact condition (a torn database, a clean entry that stays, a
journal line that is skipped, dead code, budgets, cache keys), or reading the lines
is enough (a JSDoc loop that does not end, JavaScript functions asked for the wrong
field, confidences, signatures, token splitting).

### 3.1 Bounds

* `QueueBound` caps what is in the queue when another event is reported through
  `add_dirty_event`; it is `MaxBatch + 1` so that a batch overflows. The loop
  never looks at a path, so one path does.
* Watcher: `MaxChanges = 2` with two files gives a creation and a rename, three
  events: more than a batch of the loop. The debouncer's batch holds every path; with
  fewer places than paths it forgets changes, which is a listed hazard. The queue is
  bounded by `MaxChanges`; `QueueBound` plays no part.
* Indexer, Sweep, Repair: `MaxVersion = 2`: an old and a new content, and no file.
  Rows of two contents are what a mixture needs; a third adds no new kind of mixture.
  Every race here is between two; the proofs hold for any number.
* Schema: three processes, so that two can overlap and a third come later; each may
  be killed and start again any number of times.
* Repair: `MaxWrites = 2` lets a file be deleted and come back. `Uses` leaves out two
  mixed assignments that symmetry covers.
* Answers: three nodes give a class, a function and a call in each nesting, in one or
  two files. What needs more than one call (cycles, distances, the LIMIT) comes from
  `Checkout`: all call graphs over three functions, each in either file, which a
  `Depth` of 3 looks through to the end. The LIMIT is 2 instead of 50 so that it is
  exceeded. The proofs have none of these bounds.
* Server: two requests are what one pair of store and hit, or one race, needs;
  `MaxAsked` also counts rank commands. The requests of the run differ where handlers
  do: cached or not, budget kept, exceeded or absent, hidden failures, potential string
  references, REST, stdio, a missing parameter, a symbol that the change takes away, and
  four searches that differ in quotes alone (`use_like` as a boolean and as a string, the
  budget as a number and as a string, both in the text of the query). One invalidation, one change, one tick: a row is fresh, expires at the tick, or is
  stored behind it.

### 3.2 Fairness

* Daemon: weak fairness of the loop's next step and of the owner inside stop: the
  operating system schedules threads. None for start, stop, or new events. The
  mutex is not assumed to be fair: nobody starves on it in a step that takes it
  and gives it back, and where it is not given back nothing helps.
* Watcher: weak fairness of the notify thread, the debouncer, the loop, and of
  time passing (`Ripen`). None for polling, which may be off, and for the user.
* Indexer (`HashCatchesUp`): weak fairness of workers that have begun; of reading
  each file, which is polling (`--poll-interval`); and strong fairness of the
  comparison and of the store of the hash, which says that these do not fail each
  time they are tried. Nothing else may be assumed to succeed.
* Schema: weak fairness of each opener's step: a process goes on, and is started again
  after a refusal. `RefusalIsTemporary` sets aside behaviours with kills without end.
* Repair: weak fairness of each caller's step, and strong fairness of "some guard asks
  for the queue", which is a caller that comes back now and then; strong because the
  queue is not pending all the time. `QueueSettles` sets aside kills and errors without
  end, those of the database and of the hash of `verify_file`; a file that is no UTF-8
  is none of them, and is in the property itself.
* Server: weak fairness of "some thread that can go on does". Which thread a mutex goes
  to is left open: as requests are finitely many in a behaviour, nobody can be passed
  over for ever.
* Sweep and Answers have no liveness property.

`CHECK_DEADLOCK FALSE` in every configuration: a stopped daemon, used-up bounds of
changes, writes or requests, and finished users are legitimate ends. Threads that
wait for each other are found by `StopReturns`, `EveryRequestEnds` and the other
liveness properties.

## 4. What is proved

`tlapm M.tla` for each proof module. Constants are arbitrary, under the assumptions
that the modules name, and that TLC evaluates on each run:

* `MaxBatch, QueueBound \in Nat` (both are `usize`); `Indexed \subseteq Paths`;
* `MaxVersion \in Nat \ {0}`, `Faults, Kills \in BOOLEAN`, bounds in `Nat`;
* Repair: `Uses` gives each caller something to do, and `Binaries` are sets of contents;
* `Callers` and `Workers` (threads of the server) are finite: processes are; the first
  is needed to count entries of the queue;
* Sweep: the sweeper is one of the workers, and a language is a set of files;
* Server: threads of the HTTP server and other processes are disjoint sets of numbers,
  a request is a record of `RequestType` (over HTTP, REST or stdio; its parameters are
  JSON of any kind), and ranked symbols are symbols;
* Protocol: a text is some number or none, and a set of parts has some number of tokens.
  Nothing is assumed of these
  numbers, not even that a smaller set has fewer;
* Answers: the value for "no name" is not a name, `Programs` are projects of their
  language, and impact_deep is asked for one layer at least. Names, limit, size and
  shape of the projects are arbitrary; which name is a part of which, too.

**DaemonProofs.** `TypeCorrect` is inductive by itself, with a lemma about `Take`.
`StatusIsTruthful` is not: that the status is Parsing only with a batch in hand needs
to know that no second loop can be started behind a first one, and that a batch's
rest is empty outside it. The inductive invariant is

    IInv == TypeOK /\ StatusTruthful
            /\ (~handle => pc \in {"none", "exited"})
            /\ (pc # "files" => rest = <<>>)

`ShutdownIsFinal` follows from it step by step: `Start` cannot leave the halted
region although it makes a new loop, as the state it finds is Shutdown.
`Refinement` maps each step to a step of EventQueue or to a stutter; the one case
with content is `DrainBatch`, where the queue becomes the batch (`rest \o queue` is
unchanged, as the rest was empty) or is cut (`Discard`). The last conjunct of IInv
is there for it.

Of Watcher, the second half of the module: `WatcherTypeCorrect` by the threads that
change each part, and `BusyStaysVisible`, which is inductive next to the types: the
second consumer sets Parsing only from Dirty, and Idle is set by the loop only.

**IndexerProofs.** `NoOrphanRows` needs that a pass never stores the hash of a
missing file and never inserts a row of version 0:

    IInv == TypeOK /\ RowsHaveHash
            /\ \A w : pass[w].at # "idle" /\ ~Removing(w) => pass[w].version # 0

The proof has a lemma for the two ways rows change (deletion, insertion), one for
what all steps of a pass share, and a step for each action. The argument is the
foreign key, not the schedule.

`ExactPassHolds` and `OnlyThreeWaysToFailHolds` follow a pass through its statements. A
pass that no other worker disturbed has made, of each kind of row, what its place says:
all are deleted behind the deletion, exactly those of its content are there behind the
insertion (`Alone`). For passes that overlap, the invariant is about the files that are
*not* suspect:

    Settled(f) == ~suspect[f] => /\ Agree(f)
                                 /\ fileHash[f] # 0 /\ ~Removed(f) => Served(f)

All passes at such a file are over one content, that of the hash once it is stored, and
no removal is at it with them (`Agree`: else the step that broke it made the file
suspect); and each row of the hash is there *or some pass will still insert it*, each
other row is not there *or some pass will still delete it* (`Served`). A row that one
pass deletes and another has just inserted is thus a row that the first will insert
again. When nobody is at the file any more, nothing is to come, and Served is
`OnlyThreeWaysToFail`. `PassMoves` reduces every step to what it does at the worker's own
file.

**SweepProofs** (over IndexerProofs). A step of a sweep is a step of Indexer, or none,
for the tables, so IInv and Settled stay (`WorkersInvNext`). `SweepInv` has four parts:
where the sweep is (`PlaceInv`), that it knows every worker it met (`MetInv`), that a
file it listed has a hash or one is about to be stored (`IndexInv`), and that a file it
did not list has none or is in line for removal (`RemoveInv`). `EndSweep` with nothing
left in line gives `SweepLeavesNoGoneHolds` and, with Settled, `SweepIndexesPresentHolds`.
`SweepSparesPresentHolds` has a hypothesis, `Languages = {Files}`: every walk is for all
files, as in `index_all_multi` or a project of one language. Without it the statement is
false, which is what run `sweep_language` shows: what another walk would have found is
not listed, and is removed while it is on disk. With it, whatever is not listed was
absent when the sweep began.

**SchemaProofs.** Recorded versions are closed downwards and their objects are there;
the files that version 1 knew (`old`, of which migration 2 loses none) are in `files`
and `checksums` once version 2 is recorded (`InFiles`, `InChecksums`); and an opener has behind it what its place says (`AtStatement`, `AtRecord`, `AtOpen`). From
this `RecordIsTrue` and `OpenedIsComplete`. `TornForGood` is a second argument on top:
an opener at a torn migration stays before a column that is already there (`Stuck`),
so it never reaches the record; a new opener starts at the torn version or below.
`TornHasCauseHolds` reads the same predicate backwards: a database that is torn after a
step was torn before it, unless the step is one of the two causes. The case with content
is an execution that adds a column: an opener that stays behind it at a torn migration
has another column of it before it, which was there already, so the database was torn
without the new one. For this, the columns of different statements must differ
(`ColumnsApart`, by computing the migrations). An opener that is refused at a column that
is there was stuck before the refusal as well.

**RepairProofs.** The queue has at most one entry per caller, those
about to insert counted (`Slots`), and a journalled pass has its line behind it
(`Logged`): `RepairTypeCorrect`, `LineIsAhead`. What a pass leaves is layered on it:
a caller nobody came between is alone at work (`Alone`), the tables are as it left
them (`TableAt`), the disk is as it read it (`DiskAt`), a recovery has repaired what it
took off its list or has dropped an error of it (`RecoverAt`), and with nothing suspect and no pass between hash and
rows the three tables agree (`Settled`). `CleanVouches`, `ClearedWhenServed` and
`TruncatedWhenRepaired` follow. Each of the three statements of a removal makes the file
suspect by itself (`RowsRemoved`, `Removed`), so a kill between them needs no more.

**ServerProofs.** Every handler has a statement to run and a cached one is over HTTP
(`Handled`, by cases over the tables of Protocol). With where a request can be, and
the locks it holds there (`Place`), `ServerTypeCorrect`: each mutex is held by exactly the
thread that is at a step that needs it. `AloneIsExact` is about rank commands:

    RankInv == /\ standing # None => Stored(standing, {}) /\ nobody ranks
               /\ \A w : Ranking(w) /\ work[w].alone => Alone(w)

where `Alone` says that no other command runs, that the table is empty until the first
upsert, and that from then on it holds the one rank of every symbol that was stored.
Every other step is a spectator of this (`Spectates`).

**ServerAnswerProofs.** `StaleIsExplained` is about the cache. A query's own answer is of
an index no older than the request (`AskedBefore`), so an older one is a hit, and the
row of a hit is one that may be served: the mutex is held from the UPDATE that saw it
live to the SELECT (`HitAt`). That the row was not stored before an invalidation that is
over needs an invariant that counts those under way:

    Spared(k) == Live(k) /\ Mentions(cache[k]) =>
                   sweeps.finished + Cardinality(Sparing(k)) <= cache[k].begun

where `Sparing(k)` are the invalidations that will not delete row `k`. One that begins
lists every live row of the file, so it spares none that mentions it; a row stored
meanwhile has all of them behind it (`Counted`); one that ends moves from the set to the
counter.

`OverBudgetIsExplained` needs no invariant beyond the places of the requests: strategies
are applied one after the other until the result fits or none is left (`AppliedIsFirst`),
so what remains over its budget has lost every part a strategy removes
(`BudgetedIsShort`), and what was named last was still needed. Nothing is assumed of the
token counts, so it holds too where removing a part makes the text longer.
`AnswersTheQuestionHolds` needs to know what is in the cache and in hand:

    FitInv == /\ \A k \in Keys : OfItsKey(cache[k], k)
              /\ \A w \in Workers : FailsAsItMay(w)

a cached row is the result of an HTTP request that has the row's key and was not refused,
and the statements that failed so far are those that hide it. Two requests of one key
have the same sequence of pieces, cut in two at places of their own: what lies between
the cuts is in the text of the one and among the parameters of the other (`TwoCuts`,
`SameKey`). That a refusal is one `tools/list` announces is by cases over
the tables of the handlers.

**AnswersProofs.** The invariant is short: what is in the tables is what the parser
makes of the trees, file by file, and the trees are of the language.

    AnswersInv == language \in Languages /\ IsProject(language, source) /\ Indexed

That each file keeps its rows while another is indexed is `AnswersInvariant`. The rest
is about functions, for trees and graphs of any size, and needs induction. The induction
rules of the libraries take a predicate as a parameter, which the provers cannot be
given; but their theorems on well-founded orders take sets. `Least` gets from them that
a nonempty set of numbers has a least element, and `Induction` that a set which has each
number of an interval whose predecessors it has, has them all: an induction is about the
*set* of the numbers for which the statement holds. `Recursion` says that a function
exists whose value at each node is computed from that at an earlier one, its parent, and
`Iteration` from that at the number before.

* The tables of the languages: `BaseTable`, `DeclareTable`, `CallTable`, `KindTable` and
  `DeclaredTable` say of each of the fourteen what the argument uses, by computing.
* The walk: `AboveIs` and `ContextIs` unfold the path and the context of a node,
  `FunctionIs` and `ParentIs` say what the context has in it: the name of the innermost
  function, or class, that the walk enters. `CallRowsAre` is the row of a call, and
  `AttributedIs` which have a caller.
* From trees to rows and back: `AttributedIsFound`, `FoundIsAttributed`, next to
  `SymbolRowsAre` and `ReferenceRowsAre`.
* The queries: `LimitedIs` (what a LIMIT leaves out), `ImpactIs`, `DynamicIs`, `SafeIs`.
* impact_deep: `LayersAre` unfolds the search, `ChainIs` the chains of calls,
  `NextIsCalling` is one step of both, and `LayersAreChain` the induction: a symbol that
  was seen is in an earlier layer, so at a smaller distance.

`CallerIsInnermostHolds`, `DeadIsUnattributedHolds`, `PlansCoverCallsHolds` and
`LayersAreDistancesHolds` follow.

**Model-checked only.** The liveness properties (`DirtyIsServed`, `QueueDrains`,
`ChangesAreSeen`, `HashCatchesUp`, `RefusalIsTemporary`, `QueueSettles`,
`EveryRequestEnds`): the prover has no liveness under fairness. Every invariant and
action property that a passing run checks is stated by a theorem.

## 5. What the models leave out

* Watcher: `path_is_ignored` and language detection are the choice of `Paths`.
* Repair: one file; `verify_all` and a queue of several files are one after the other
  in the code. `rotate` and `start_with_recovery` are not called and change nothing
  else. Sequence numbers and times of the journal: `recover` does not read them.
* Parsers: kinds of node and fields a parser asks for that its grammar does not have;
  curried calls; string literals, signatures, docstrings, positions (the JSDoc loop
  of the findings is in a docstring).
* Queries: LIMIT 100 of `neighbors`, LIMIT 50 of the searches; the confidence per
  depth; `resolve_target_file_path`; the git stage of dead_code_verify; fuzzy search.
  `dynamic_refs_at_risk` repeats the neighbours that `CrossModuleMove` counts.
* Protocol and Server: the tokens of an answer depend on its parts alone (any number for
  each set of them in the proofs, one weight per part in the run); the format a
  stdio client negotiates; `initialize`, `ping` and `health`; a mutex poisoned by a
  panic; `hit_count`, which only a listing reads; the cache of SQL results, which stdio
  has and does not use; what a search scores while a rank command is half done (the
  property speaks of commands that are over).
* Ranks: the PageRank iteration is floating point. A rank is the pair of readings it
  was computed from.

## 6. Not modelled

* **Search scores** (`search.rs`): arithmetic on floating point, without state; the
  table and comments that its code contradicts are among the findings.
* **Compression** (`compression.rs`), **filesystem fallback** (`fallback.rs`): functions
  from text to text by line patterns, and runs of ripgrep. A property of them would be
  about wording.
* **Cross-language links** (`cross_language.rs`, `cross_reference_strings.rs`): name
  matching with floating-point scores over rows the index already has. What they add
  are references of a kind of their own, and rows no query of Queries reads.
* **Configuration, command line, output formats, errors**: parsing, printing,
  dispatch. `cmd_daemon`'s start is the initial state of Watcher and Server.
* **Twelve languages**: Kotlin, Dart, Elixir, Julia, Haskell, Zig, SQL, GraphQL, Bash,
  CSS, Vue and Markdown. Their parsers record declarations and imports, and calls, if
  at all, without a caller (Elixir with the module, as Scala with the class), so what
  Answers says of such languages would be said again.

## 7. What is left

1. Lemmas that say of other parts of `Queries` and `Protocol` what they compute, for any
   input, such as the order of `SearchSymbol`.
2. A composition of Sweep and Watcher that has the start of the watch as a step, for
   the window at watcher.rs:93.
3. The remaining languages, should their parsers come to record callers.
