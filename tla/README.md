# A TLA+ verification of the Stream Mill engine

Stream Mill is a data stream management system. Clients declare streams and add
continuous queries written in ESL; the engine compiles each query to a shared
library and runs it on tuples as they arrive. This project models the engine's
own logic (`src/adl/sql/esl`, the in-memory tables of `src/adl/im_db` and the code
that the compiler in `src/adl/sql` generates around windows), model-checks it with TLC on small instances and
proves the most important properties with TLAPS for instances of every size.

`PROJECT.json` lists the components, the runs, which lines of source each
definition stands for, the hazards the properties are aimed at, the findings and
the theorems. This file explains them.

## 1. The system

The supervisor (`esl.cc`) creates a shared memory segment (OSSP mm), forks two
processes over it, and forks a process again when it dies:

* **Ios**, the I/O scheduler (`ios/ios.cc`), talks to clients and to I/O modules.
  It handles one client request at a time, from the first command it sends to
  the scheduler to the last reply.
* **querySchdl**, the query scheduler (`querySchdl.cc`), compiles and runs
  queries. Its loop handles every waiting command, then gives each driver one
  pass over its statements, and starts again.

They share only *buffers*: `_queryBuffer` carries commands to the scheduler,
`_ioBuffer` carries replies and messages back, and every stream and every query
output is a buffer too.

| Component | State | Operations | Hard part | What makes it correct |
|---|---|---|---|---|
| sharedBuf (`buffer.cc`, `dbt.cc`) | linked list in shared memory, count, mm lock | put, get, pop, empty | readers do not lock; processes die in the middle | it is a FIFO queue; nobody follows a dead pointer; a tuple is not missed |
| Ios command processing (`ios/ios.cc`) | queries, streams, tables, what is active | add, activate, deactivate, delete, declare, view | waits for one code among many; replies carry no request number | takes only its own replies; every request ends; agrees with the scheduler |
| querySchdl handlers (`querySchdl.cc`) | free pool of compiled statements, validity | ADD_QUERY, ADD_DECLARE, ACTIVATE, DEACTIVATE, DROP_QUERY, DROP_DECLARE, GET_COMPONENTS | ADD_DECLARE waits for a second message; commands and replies share numbers | swallows no command; an active query always has its input |
| free pool and activation (`querySchdl.cc`) | order of the pool, the lists of the handler | activation of a composite query with everything upstream, its undo | one command is many steps, each of which may be refused | queries are active as a whole; a refused one leaves no trace |
| query graph (`driver.cc`) | buffer state table, fork dummies, two maps | addStmt, dropStmt | the table is edited in place, by cases on nine entry types | the table is always the one its statements call for |
| scheduling (`strategy.cc`, `driver.cc`) | fork flags, position and budget of a pass | runNextUnit | a fork is popped later than it is read, while readers come and go | every reader gets every tuple once; everyone gets a turn |
| unions (`stmt.cc`) | `in` | exe_set_in | blocking on an empty input, fairness | timed: output in order; timeless: every input is served |
| window buffers (`windowBuf.cc`, `winbuf.cc`) and the code around them (`semant.cc`, `semant_aggr.cc`, `trans2C.cc`) | rows of a window, unsigned row numbers, running aggregate, slide | put, pop, getExpired; views, joins, aggregates | wrap-around; aggregates that are only kept up to date | a tuple expires exactly when it leaves the window; the aggregate is that of the window; no slide without an output |
| in-memory tables (`im_db`) | cells on a circular list, free pages, hash index, cursors | put, scans, update, delete | cursors that point to freed cells | every scan meets every row once |
| buffer manager (`buffer.cc`) | sorted dictionary in shared memory | create, kill, lookup | lookups without the lock; a failed kill keeps the lock | exact when nobody is changing it, and changed by the holder of the lock only; every call returns |
| Ios persistence (`ios/ios.cc`, `esl.cc`) | tables of declarations and queries | save, read back after restart | one process restarts, the other does not | nothing acknowledged is forgotten; both end with the same queries |
| ESL compiler (`compiler.cc`, `semant.cc`, `trans2C.cc`) | declaration files | compile | its messages to Ios come from deep inside | an oracle here: any verdict, with the messages the code puts for tables, streams of external I/O modules and libraries |

Interactions: clients → Ios → `_queryBuffer` → handlers → compiler, free pool,
query graph → `_ioBuffer` → Ios. I/O modules → stream buffers → passes of the
scheduler → output buffers → Ios → clients. Handlers and passes alternate in one
process; everything between the processes is concurrent.

## 2. Modules

    Fifo                 what a buffer promises
      ^ implemented by
    SharedBuf            put, get, pop, one memory access per step
      SharedBufProofs    theorems
      MCSharedBuf        instances
    CommandProtocol      Ios and querySchdl over two FIFO buffers
      MCCommandProtocol
      ^ extended by
    Modules              requests about a whole module of queries
      MCModules
    Restart              crashes, what is on disk, recovery
      MCRestart
    IosProofs            theorems about these three
    DriverGraph          addStmt and dropStmt as operators on the query graph
      DriverGraphProofs  lemmas about them
      ^ extended by
    QueryPool            activation and deactivation of queries
      QueryPoolProofs, MCQueryPool
    UnionStmt            exe_set_in as operators
      ^ extended by
    Exec                 passes over the graph: extends DriverGraph and UnionStmt
      ExecProofs, MCExec
    TupleId              the wrapping row numbers of a window
      ^ extended by
    Window               a window and the code generated around it
      WindowProofs, MCWindow
    Table                what a table with cursors promises
      ^ implemented by
    ImRel                the in-memory relations
      ImRelProofs, MCImRel
    BufDict              the dictionary of buffers
      BufDictProofs, MCBufDict

### SharedBuf

The fields of `sharedBuf` are `head`, `tail`, `n`; cells (sDBT) are members of
`Addr` with `next` and `data`; `free` is mm's pool and `lock` the owner of the mm
lock. A writer's put() is PutAlloc, PutLock, PutLink, PutMove, PutCount,
PutUnlock. The reader's get() and pop() are ReadN, ReadHead, GetCopy, then the
same two tests again, PopLock, PopUnlink, PopFree, PopCount, PopUnlock: empty()
reads `n` and `head` without the lock, so these are steps of their own.
PutShort is `sDBT::init` returning early for want of memory: the cell has no tuple, and
its `next` is whatever was in that memory, NULL, a cell or garbage (`Wild`). A process
that follows garbage, or copies or destroys a cell without a tuple, dies (`Astray`). PutterCrash and
GetterCrash are a process that dies at any point and is forked again (the lock of
a dead process is free again: that is how the mm library's lock behaves, and it
is marked external). `chain` is a history variable: the cells put and not popped.

One process reads a buffer. `_queryBuffer`, `_ioBuffer` and the streams are used
like that.

### CommandProtocol

`qBuf` and `ioBuf` are the two buffers, as queues (SharedBuf shows they are).
`ipc` says in which loop Ios is: each waiting loop of `generateStatements`,
`activateQuery`, `deactivateQuery` and so on is an action that takes one message
and does with it what the loop does, polls of CONNECT_IOMODULE included. A
handler of the scheduler takes a command, decides, and leaves the messages it
puts in `pend`, from where they go out one by one. The compiler is an oracle that
can fail at each declaration it processes, with the messages it has put by then.
Left out of these are the codes 50 and 51 around a stream's declaration, which every
loop of Ios takes and drops, and ADD_BUILTIN_IOMOD for streams that read a port or a
table: streams are fed by external I/O modules. When a DROP_DECLARE finds no buffer,
its kill returns with the mm lock; that is left to BufDict.
Codes have their real numbers, since commands and replies overlap:
COMPILE_SUCCESS, sent to release ADD_DECLARE, is DEACTIVATE_QUERY anywhere else.
History: each message knows whether it belongs to the present conversation
(`mine`).

`Paced` distinguishes two kinds of client: one that sends the next request when
nothing is in flight, and one that does not wait. With the second kind late
replies meet the next request; MaxFlight bounds how many messages may be in
flight when a request starts.

### DriverGraph and QueryPool

A graph is the buffer state table (`tab`), its fork dummies, and the keys of
DrvMgr's two maps. An entry has a type, the statement that reads the buffer and
the two C unions `back` and `forward`. `AddStmt(g, s, valid)` and `DropStmt(g, s)`
return the new graph and whether the call succeeded. The end of DriverGraph says
what a table should be from the set of statements alone (`BufType`, `ForkDummies`,
`LooksForward`, `LooksBack`): the in-place edits are checked against that.

QueryPool has one action per call of addStmt or dropStmt that a handler makes.
Activate takes a query; TakeStmt, AddOne and Search are the handler's loop, which
adds the query's statements and then looks in the pool for the queries that feed
it; Activated or Undo ends it. Deactivate and DropQuery go through DropOne.
AddQuery, DropDeclare and Declare change the pool: a dropped stream invalidates
statements, a new declaration compiles them again. Replies are immediate here;
how they travel is CommandProtocol's subject.

The model has one driver, which is what DrvMgr makes unless a component command
splits it. Statements do not read a buffer twice nor write what they read.

### Exec and UnionStmt

Exec runs tuples through such a graph. `Start` begins a pass, `Visit` gives the
next statement of the driver's list its turn: RunPlain, RunFork, RunUnion, or
Leaves when the budget of the pass is used up. querySchdl installs OcsStrategy,
whose priorities need statistics; `Monitor::collectStats` is set to false and
never to anything else, so all statements stay at MAX_PRIORITY, which makes the
pass follow the driver's list and continue after a tuple. A tuple is its
timestamp. `done` holds the fork dummies whose `processed` is set. `ahead` is
history: how many of the tuples that are in its input buffer a statement has
processed already. A statement may or may not produce a tuple. Commands come
between passes and add or drop whole queries.

### Modules

Requests about a module, the queries that were added together: activate,
deactivate, delete. ModuleRequest begins the loop of `activateQueryModule` or
`processDeactivateQueryModuleCommand`; Each sends the command for the next query,
Waits is `activateQuery` or `deactivateQuery` in progress (the loops of
CommandProtocol), Refuses and TakesBack the rollback. TakesBack changes isActive
whatever the answer is, and deactivates queries that were active before the
request too, as the code does. The run of the patient client is a run of Modules.

### Restart

`disk` is what Ios keeps in its BerkeleyDB tables. SystemCrash takes everything
down at any step; Ios then tells the scheduler everything again: RecoverNext,
RecoverTable, RecoverStream and RecoverQuery are the loops of `Ios::run` before its
main loop, which wait for other codes than the loops that serve clients and never
for the buffers to be empty. SchedulerCrash is the scheduler alone, forked again by
`esl.cc` over the same shared memory while Ios goes on. A client is patient here.
Outlived is the use of a freed statement's id at ios.cc:7499: the record may stay.

### TupleId and Window

A row is its value and its `tuple_id`; `age` and `recent` are history, the truth
about when it arrived. `conf` is one of several windows: a view (ViewInsert), the
window of a join (WmPut, JoinTrim), a built-in aggregate (AggrInit, AggrIterate) or a
user-defined one through its base version (BasePut ... BaseIterate). Each action is
the generated code for one tuple. `M` is UINT_MAX + 1. A slide is a number of rows or a
time; the branch for heartbeats (HEARTBEAT_TIME_SLIDE) is left out.

### Table and ImRel

A relation is a circular list of cells from a pool, with an optional index whose
chains run through the same cells. A freed cell keeps its contents until it is
given out again, and c_del relies on it: the cursor stays at the freed cell and
follows its `next` later. ImRel has the operations that generated code calls;
Table is the abstract table, with ideal cursors; ImRel is shown to implement it. Put and
Delete are the code and ask nothing of other scans; what has to be asked of the statements
stands apart, in `MayPut` and `MayDelete`, and is added in Next.

### BufDict

`create`, `kill` and `lookup` on the sorted array in shared memory, one access at a
time: the comparisons of bsearch, which runs without the lock, the copying of
qsort, the shifting of kill. KillNone is kill of a name that is not there, which returns
with the lock: deleting a half-deleted module once more sends DROP_DECLARE for a buffer that is
gone (ios.cc:7318, querySchdl.cc:1272). `lock` is then kept by a process that is not changing
anything, until its next change or Release, the mm_lock and mm_unlock of the answer
(`iob->put`, querySchdl.cc:1364), gives it back.

## 3. Runs

| Run | Asks | Result |
|---|---|---|
| `sharedbuf_safety` | do unlocked reads ever see a bad list, and after crashes and failed allocations can the reader follow NULL? | no: 2 writers, 1 reader, 3 cells, 2 values, up to 2 faults |
| `sharedbuf_live` | is the buffer a FIFO queue, and is every tuple popped by a reader that polls? | holds, without faults and without symmetry |
| `command_paced` | with a patient client, are replies taken by the right request, do the processes agree at rest, are modules activated and undone as a whole, does every request end? | holds, with modules of several queries, private users, libraries that do not load |
| `command_eager` | with an impatient client, is a command swallowed, or an input lost? | no |
| `pool_plain` | normal statements, a union, a join: is the table exact, are queries whole, are refusals undone, are dead buffers never used? | holds |
| `pool_coll` | are the table exact and queries whole with a collection that is not refused or deleted? | holds |
| `exec` | does every reader of a fork get every tuple once while queries come and go, is the output of a timed union in order, and does every statement get through its input with a budget of 1? | holds if nobody leaves a fork of two in the middle of a tuple |
| `exec_midway` | ... if somebody does leave? | **violated**: the other reader gets the tuple again |
| `window` | do views, joins and aggregates see exactly the tuples of their window across the wrap of tuple_id; does a slide go by without an output? | holds, with the edge below |
| `imrel` | does a relation, indexed or not, implement a table with cursors? | holds, if no statement pulls a cell away from under another scan (MayPut, MayDelete) |
| `bufdict` | is the dictionary exact when nobody is in the middle of a change, changed under the lock only, and a lookup that no change crosses exact, and does every call return, failed kills included? | holds; that calls return, if a process may take again the lock it has (Reentrant) |
| `restart` | after crashes of everything or of the scheduler, is an answer misread, something acknowledged forgotten, do both agree again, does recovery end? | holds, unless the scheduler dies while Ios waits for it |

The violated property is a sentence of a comment in the code; `findings` quotes
it and names the line that breaks it. Where a property fails only in one
situation, the passing run excludes exactly this situation by a constant
(`Again`, `Paced`, `Midway`, `Deletable`, `Droppable`, `Reentrant`, the set of queries), by
a condition of its own (`MayPut`, `MayDelete`), or by a history variable in the property (`cut`, `apart`,
`crossed`), so that what remains is checked.

Excluded situations; most can be seen by changing the constants of a cfg:

* An impatient client (`Paced = FALSE`, ReplyIsMine): a late reply is taken by the
  next request. ios.cc:3351 clears `_ioBuffer` only of what has arrived by then.
* Declaring a stream that exists (`Again = {s1}`, RequestsEnd): the scheduler waits
  in ADD_DECLARE, Ios for its verdict, for ever (ios.cc:4273, querySchdl.cc:452).
* Activating what is upstream: the flag `found` is never reset (querySchdl.cc:803),
  so after one match in the pool the search goes on with the wrong answer, and a
  query that feeds the activated one may stay inactive.
* A collection whose activation is refused (add `ins` to `Query` in MCPoolColl.cfg and
  check RefusedUndone): querySchdl.cc:703 records the collection instead of its
  union in `added`, so the union stays in the driver.
* A collection whose input stream is dropped (`Droppable = {s}`, NoDeadBuffer): only
  the collection is marked invalid, only its parts are tested (driver.cc:258).
* A collection that is deleted while active (`Deletable = {c}`, WholeQueries):
  getStmtByName looks for it in the driver, where it never is (querySchdl.cc:1056).
* `back` of a join's output entry (TableExact without its exception for merges):
  dropStmt overwrites the pointer with a name (driver.cc:826) when the join is left
  as the only reader of a former fork. Only `runState` and `printStateTable` read it.
* Several readers of a union's output (MCExec with `Query = {qu, qd, qe}`,
  ProcessedExact): the entry is a merge_fork, which runNextUnit does not treat as a
  fork (strategy.cc:2793, 2853): each reader gets some of the tuples.
* A timeless union, of which stmt.cc:308 says that it starts from the next input `to
  ensure fairness`, starts from the one it used last (stmt.cc:316); with endless
  input there it serves no other. Drained holds because arrivals are bounded.
* Deleting a module of several streams of which one is in use: the buffers of the
  others are gone, Ios keeps them all (ios.cc:7334).
* A lookup that a create or kill of the other process crosses (LookupExact without
  `crossed`) can miss a buffer or return another one (buffer.cc:578). Two processes
  that create one name would make two entries; each name has one process that does.
* Kill of an unknown name keeps the lock (buffer.cc:497), and the callers do that. How
  mm's lock behaves then is not in the repository. With `Reentrant = TRUE` it belongs
  to the process, which may take it again and gives it back with one unlock; the
  put of the answer does so. With `Reentrant = FALSE` the process waits for itself, then
  everybody for it: the invariants of `bufdict` still hold, Returns fails and TLC finds
  the deadlock.
* Windows: for as long as a wrapped tuple_id is below the size, one more row stays
  in the window (`Edge`). SlideKept is that no slide goes by without an output; a time
  window may put out twice in one slide. From 2^31 on `(int) tuple_id` is negative and a sliding
  window puts out nothing. A time window's output may be late by less than a
  slide. The base version of an aggregate over a window of one tuple misses the end
  of a slide: the flag that makes it initialise is still set there, so it puts out one
  tuple late, and two tuples summed (semant_aggr.cc:645). Timestamps that go back, gaps of 2^32 ms, and streams without timestamps
  are left out.
* Relations: the only row, when it is deleted, takes its cell with it (`emptied`
  counts them in PoolExact). im_db does not check whether other cursors are open. The
  model leaves out (MayDelete) that a statement deletes the row another scan is at, the
  row saved for another keyed scan, or, while another full scan stands on a freed cell,
  the row this cell leads to, or the head such that this row becomes the first; and
  (MayPut), while a full scan stands on a freed cell, a put into this cell, into an
  empty table, or behind the last row when the scan has only the end before it. Allow any
  one of these and TLC refutes TypeOK or Refines: the scan goes on through a cell
  that is no row, ends early or starts again.
* The scheduler dies while Ios waits for it (`cut`): Ios waits for ever. After a
  restart of the scheduler alone isActive is stale (`apart`): nobody tells Ios.
* The record of a deleted stream may survive (`ghosts`, ios.cc:7499); as the file is
  gone, the next recovery dies reading it. A query whose record is refused keeps it,
  and comes back after its stream has been declared again and the system rebooted.

### Bounds, and why they suffice

* SharedBuf: three cells let one be in the list, one in a writer's hands and one
  be freed and allocated again under an unlocked read; two writers contend for
  the lock. The theorems remove these bounds.
* Modules: three queries, two streams, two tables. A query can be refused between
  two that are accepted, one uses a private user, one cannot be loaded; a module
  can have up to three queries in any order, and be refused at each of them.
* CommandProtocol (impatient client): one of each kind and two messages in flight:
  enough for a reply to cross into the next request and for a second one behind
  it. NoCommandLost and LiveInputs are proved without bounds.
* QueryPool: seven statements over two streams, chosen so that a buffer can be a
  source, a fork of up to four readers, a merge, a sink and everything between,
  and so that two queries want the same output. There is no bound on the number
  of commands. The theorems remove the bounds on statements, buffers and streams.
* Exec: two tuples (MaxTuples) and one deactivation (MaxStops, which bounds the
  tuples a restarted query produces again) over two forks, one feeding the other,
  a timed union of two streams and a timeless one. Forks hold back one tuple at a
  time, so two tuples suffice to see one tuple missed or seen twice. A budget of
  one tuple makes passes end early. For ProcessedExact and Ordered the theorems remove
  these bounds.
* Window: 4-bit numbers (M = 16), windows of 1 to 3, slides of 1 to 4, up to MaxGap = 3
  milliseconds between tuples, at most MaxRows = 4 rows: the numbers wrap many
  times with every position of the rows. Sliding windows stop at Horizon = 7, where
  `(int) tuple_id` turns negative. The theorems remove these bounds, with
  M / 2 in place of Horizon.
* ImRel: two keys, two cursors, three cells, four puts, one update: a cell can be
  freed under a cursor and given out again, at either end and in the middle of a
  list and of a chain. Keys and cursors are interchangeable (SYMMETRY); no
  liveness is checked. The theorems remove these bounds.
* BufDict: Ios and the scheduler, four names: one that is always there, one that is put
  before it, one behind it that is killed and created again (MaxGen = 2), as the last
  entry or not, and one behind that. Its kill may come at any time, also when it is not there.
  The theorems remove the bounds on processes and names, and hold for both values
  of Reentrant.
* Restart: two queries on different streams, one table, two crashes, so that the
  second can hit the recovery from the first. An instance with three
  queries, two tables and one crash passes too.

CHECK_DEADLOCK is off for the impatient client, where MaxFlight keeps it from
sending (a bound of the model), for `restart`, where Ios may wait for ever for a
scheduler that died, or die at a ghost record, and for `imrel` and `window`,
where the bounds on puts and rows end a behaviour.

### Fairness

* SharedBuf: weak fairness of the reader and of a writer that is inside put():
  both are loops that never block except on the mm lock, which each holder
  releases after four steps. Writers need not start a put().
* Modules, Restart: weak fairness of Ios (in its main loop, in a module's loop and
  in recovery) and of the scheduler, which both poll for ever. Nothing is assumed
  of the client; crashes are never owed.
* BufDict: weak fairness of each step of a call that has begun, strong fairness of
  taking the lock: the kernel wakes the processes that wait for it in turn. Strong
  fairness of Release: a handler that kills puts its answer right after (querySchdl.cc:1364),
  and a put takes the lock and gives it back.
* Exec: weak fairness of Start and Visit: querySchdl::run never stops calling
  runDriver. Nothing is assumed of arrivals and commands.

## 4. Proofs

The theorems are about the specifications the runs check.

**SharedBufProofs.** For any number of writers, cells and values:

* `TypeCorrect`, `NullSafe`: faults included. After a fault head, tail and next may be
  the garbage of a half-built cell (`Ptr`), but never what put links or pop frees, and
  the reader still never follows NULL. The inductive invariant `BaseInv` is
  TypeOK, LockOK (who is at which step holds the lock) and two facts about what a
  process may dereference at its step (PutterSafe, GetterSafe): TypeOK alone is
  not inductive, since a step that follows a pointer needs to know it is a cell.
* `ListCorrect`, `DerefSafe`: until the first fault. `ListOK` is inductive together
  with BaseInv. It ties the pointers to `chain`, says where every cell is, how
  the list looks at each intermediate step of put(), and that what the reader
  saw without the lock stays true: only the reader can make the list shorter.
* `FifoCorrect`: without faults SharedBuf implements Fifo. The queue is the data
  along `chain`; PutCount is Fifo's put and PopUnlink its pop, every other step
  stutters.

**IosProofs.** CommandProtocol, Modules and Restart in one module, since the steps of
the last two contain those of the first. Of CommandProtocol, for all sets of queries,
streams and tables, any verdicts of the compiler and any number of messages in flight:

* `TypeCorrect`. TypeOK is not inductive: `TypeInv` adds what the names in commands on
  `_queryBuffer` and the name Ios waits for are (ACTIVATE_QUERY names a query; a
  statement about to be created is in no driver and is not activated before). A
  command executed under a wrong code is covered.
* `CommandsKept` (NoCommandLost). `PairInv`: behind every ADD_DECLARE on the queue is its
  second message, or Ios still owes it; while the scheduler waits for it, it comes
  first. This needs no patience of the client: one queue, one sender.
* `InputsLive` (LiveInputs). `InputsInv` adds that the valid statements of the free
  pool have their inputs too, which is what the flag `valid` is for.
* `RepliesOwn` (ReplyIsMine), for a patient client. `MineInv`: while Ios waits,
  everything in flight is its own; and for each of its loops, which codes may be
  behind which in the messages to come (`Then`), so that the message that ends the
  loop is the last one that could be taken for a reply.

Of Modules, the same four (`ModuleTypes`, `ModuleCommandsKept`,
`ModuleInputsLive`, `ModuleReplies`). New are `FreshInv` and `GroupInv` (a query belongs to
one module, once, and the one being added to none), `LoopInv`, and `LoopQuiet`: between
two commands of a request about a module nothing is in flight, although Ios does not
clear `_ioBuffer` there.

`Agrees` and `ModulesAgree`: Agreement for Spec and MSpec, if the client
is patient and declares no stream that exists (`Paced`, `Again = {}`; without either it is
false). Agreement speaks of a state at rest; `AgreeInv` says what holds on the way:

* QueueInv: at most one command is on its way, last in the queue; it is the one Ios
  waits for, and before it is taken there is nothing to read;
* StmtInv: but for the statement being added or switched and those with a DROP_QUERY
  on its way, Ios knows the scheduler's statements and which are active;
* AddingInv, ActivatingInv, DeactivatingInv: the verdict among the messages to come
  says what the scheduler has done (so deactivating an active query never fails);
* BufsInv, StreamInv: the same for buffers and connections while a stream is declared,
  withdrawn after a refusal, or deleted.

`ModulesWhole`: ModuleWhole, for modules of any size. `ModeInv` uses that a deactivation is
never refused, so only an activation is ever taken back; `WholeInv` says which queries
are done, which one is under way and which are still to be taken back.

Of Restart, for any number of crashes, of the system or of the scheduler alone:
`RestartTypes` (RTypeOK), `RecordsRemembered` (Remembered) and, for a patient client,
`RestartReplies` (OwnReplies). `RecordsInv` and its companions account for every record: in
memory, waiting to be read, given up, or a ghost. That the names of queries, streams
and tables are different (they are keys of different tables) is an assumption.

**WindowProofs.** For every width M of unsigned, any windows, gaps and values, and any number
of wraps of tuple_id:

* `ExpiredByAge`: getExpired, which compares numbers by two formulas, decides by the
  age of the row alone: it gives it up when the age has reached `Edge`. `Ages`:
  updateTupleID makes a row older by exactly what it adds, as long as the row does
  not get so old that its number comes back (a guard of Tuple: a view or an aggregate
  has popped such a row long before; a join that never runs may keep one that long).
* `WindowsExact` (WindowExact). `WindowInv`: numbers tell ages (`Numbered`), and from some
  place on the rows and the history are the same tuples, those younger than the edge
  (`Match`). As time passes the edge moves forward only (EdgeMoves), so that place
  does too, at the same tuple in both; popping makes it the first row.
* `AggregatesExact` (AggregateExact). `ValueInv`: a count is the length of the rows and a sum
  their total (`TotalSlides`: adding the new and subtracting the popped is summing what
  is left). `BestInv`: the rows of a minimum do not fall, and those of a maximum do not
  rise (`Climbs`); each is in the window (`Sound`), and each tuple of the window is beaten
  by a row that is no older (`Covers`), which is why rows that a later one beats may go.
* `SlidesKept` (SlideKept), if Horizon < M / 2: above that `(int) tuple_id` is negative.
  `SlideInv`: the time since the last output is less than a slide and no more than
  tuple_id - last_out, so the code, which tests the latter, can only be too early; a
  row window's last_out is exactly the end of the last slide. For a time window the
  promise is not when an output comes but that no slide goes by without one.
* `BaseVersionExact` (BaseExact), for windows of more than one tuple. `BaseInv` says in
  which phase of the slide the two flags and last_out put the next tuple: before the
  last `size` of it, at the first of these, among them, or at the end; from the first of
  these on, the value is their total. With one tuple the first is also the
  last, a combination the code has no branch for (section 3).

**BufDictProofs.** For any processes and names. `Exclusive`: at most one process is
changing the dictionary, and it holds the lock, failed kills included (the converse is
false: a failed kill keeps the lock); `LockInv` adds that whoever waits for the
lock is in create or kill. `DictTypes` (TypeOK), `DictAlwaysExact` (DictExact) and
`LookupsExact` (LookupExact) are parts of one invariant, `Inv`:

* CallInv: what a call creates stays absent until it has: no other process makes that
  name. Nothing is said of a name to be killed, which may be gone. Names being different, there is room for one more
  entry whenever a create gets the lock.
* DictInv: the array at every step of a change. While qsort copies back, the part
  behind it is its sorted copy; while kill shifts, the array is exact but for one gap.
* SearchInv: as long as no change has crossed a search, no change is under way, and the name,
  if it is there, is between the two ends of bsearch.

Init needs that any finite set of names can be sorted, by induction on its size.

**ImRelProofs.** For any keys, cursors, cells, puts and updates, under MayPut and MayDelete:
`PoolCorrect` (PoolExact), `ChainsCorrect` (ChainExact) and `RelationIsTable` (Refines), and
TypeOK on the way (`RelationTypes`). The
properties follow pointers; the invariant does not. `RelationInv` says that there is a set
S of cells, the rows, whose put numbers give the order of everything:

* Ring: the next of a row is the one of S put next, prev is next backwards, and the
  ends meet. Pool: every other cell has never been given out, is free, once, or is lost.
* Chains: the slot of a key has the newest row of S with that key, and hchain leads to
  the next older one.
* Scanning: a full scan is at a row of S, or at a freed cell from which `next` still
  leads to the first row put after it (never NULL), which is what c_del counts on and what
  MayPut and MayDelete keep; the row saved
  for a scan by key is the next older one (Placed, Before).

So a step is a change of S and of a few pointers, and what a path visits is needed only
at the end: `PathIs` says that pointers that always lead to the next higher rank in a
finite set meet exactly that set, in order. Path is a recursive function for that
reason, and the number of cells bounds its length (no path is longer, or two of its
cells would be one). For Refines, Put, Fetch, Update, Delete, Open and Close are the
table's actions, and every other step stutters.

**DriverGraphProofs.** The operators of DriverGraph, for any statements and buffers. A
graph is `Right` when its table, dummies and map are the ones its statements call for.
A type is who writes a buffer and how many read it (`BufTypes`, with Count and How), so
that each case of the code is one line of arithmetic (`Changes`). `AddRight`: addStmt
leaves a right graph right, refused calls included, if the sub-statements of a union or
join are there and nobody else reads a window (`Ready`). `DropRight`: so does dropStmt, and
it succeeds for every statement of the driver. The steps are one input's entry, the
dummies, the output's entry; at each, `Tabled` says what the table is for the readers and
the writers known so far. `AddAllRight` and `DropAllRight`: the same for several statements
one after the other.

**QueryPoolProofs.** For any statements, buffers and queries:

* `TableCorrect` (TableExact) and `MapCorrect` (MapExact), with collections but without
  joins in them (`NoJoins`). `PoolInv` is Right(g), with what makes every call Ready:
  the parts of each statement that an activation still has to add are in the driver or
  come before it, and the activation ends if they fail (`Supplied`).

Then the handlers, for queries that are single statements with parts of their own
(`OwnParts`: the instance of `pool_plain` is one). `QueriesWhole` (WholeQueries),
`NoneStale` (NoDeadBuffer) and `DropsRight` (DropsSucceed) are parts of one invariant,
`WholeInv`, which says what holds between the calls of a handler:

* Pooled: the pool has the inactive queries, each once; what points to a dead buffer
  is invalid, and what is invalid is in the pool.
* Leaving: exactly the statements still to be dropped are left of the query.
* Entering: the graph has what it had when the activation began, and of the rest only
  what is in `added`, which is what an undo takes out again.
* Planning: what an activation has added, and has still to add, are the statements of
  whole queries of the pool, valid ones: the search upstream can take neither half a
  query nor one that is active.

`RefusedActivations` (RefusedUndone, the same queries) compares the graph with the one at
the beginning. Two right graphs with the same statements are the same (`SameGraph`) but
for the statement that the entry of a fork names, the one that read the buffer first;
`Keeps` says of addStmt and dropStmt that this name stays while the buffer is a fork,
and an undo never takes out what was there, so it is a fork all the time (`UndoInv`).

What a collection does to these is in section 3; `pool_coll` checks those that
are neither refused nor deleted.

**ExecProofs.** For any statements, queries, streams, budget and number of tuples:

* `UnionsOrdered` (Ordered), if there is a set of buffers `InOrder`: it has the outputs of
  the timed unions and, with an output, the inputs of its statement; no I/O module and no
  second statement writes an output in it, no timeless union is among the writers. `SortInv`
  gives each of these buffers a number m, the last timestamp put into it: tuples do not
  fall along a buffer, they are at most m, and at least the m of what is written from
  there (`Sorted`). This is why blocking is needed: the earliest of the first tuples is no
  later than anything still to come from any branch. Tuples that lie in a buffer while
  the query is deactivated are no exception.
* `ProcessedOnce` (ProcessedExact), if nobody leaves a fork in the middle of a tuple
  (`Midway = FALSE`) and unions share neither inputs nor output with others (`Unshared`; with
  a shared output it is false, section 3). `FlagInv`: the graph is Right, so that the
  dummies are those of the forks' branches and types tell forks; a set flag has a dummy and a
  tuple in its buffer. So "all branches finished" is never said of an empty buffer; who
  reads without flags is the only reader; a new branch of a fork finds no flag of its own,
  and a branch that is left behind alone had not set its flag.

Assumptions: those stated as ASSUME in the modules (NULL is no cell, the reader is
no writer, every query reads a stream, M >= 4, no two processes make one name, the names
of queries, streams and tables are different, the inputs of a union are written by its
parts and a window is read by its join only, ...); TLC evaluates them in every run. What
holds only for some clients says so in its statement: `Paced` for the replies, Agreement
and ModuleWhole, `Again = {}` for the last two, `Horizon < M / 2` and a size above one for
two theorems about windows, NoJoins and OwnParts for queries, InOrder, Unshared and
`~Midway` for Exec, which the instance of `exec` satisfies, MayPut and MayDelete for relations.

The mm library is external (its source is not in the repository): its lock is one lock, given
back when its holder dies, mm_malloc and mm_free are atomic and leave it alone. pop and
kill call mm_free while they hold the lock; with a library whose mm_free gives that same lock
back, what follows in them would run without it.

Where a fact needs induction, over the natural numbers or the length of a sequence, it is
by a set instead of a predicate (`NatInd`, from `LeastNat`), which a module that needs it
states for its own purpose.

Only model-checked:

* liveness (`Delivered`, `RequestsEnd`, `Drained`, `Returns`, `RecoveryEnds`), which is out of
  the prover's reach;
* `AgreeAgain` of Restart: what AgreeInv says at every step would have to be said again
  for each loop of recovery and for crashes inside every loop of Ios;
* WholeQueries of QueryPool where there are collections.

## 5. Not modelled

* The text protocols with clients, GUI and discovery; logging; statistics; the
  tables of users and hosts.
* `Driver::runState`, which only runs without a strategy; the strategies that are
  not installed; priorities.
* When a join has enough in its windows to take its next tuple. Its place in the
  graph is in DriverGraph, its windows are in Window.
* The ESL front end and code generation, beyond its verdicts and messages and the
  code around windows.
* Views, derived streams, streams with a built-in source (ADD_BUILTIN_IOMOD), aggregates
  and snapshots as requests of clients; modules
  of several streams; component commands (several drivers).
* A restart of Ios alone: system.dcl keeps its old content, streams that exist are
  not connected to their source again, replies may be left in `_ioBuffer`.
* Variance, aggregates with an expire routine, slides for heartbeats
  (HEARTBEAT_TIME_SLIDE), time windows of base versions.
* Access methods on disk (R-tree, hash).
* Vendored code (BerkeleyDB, dbug) and the mm library, the Java GUI, the copies of the tree under
  `Samples` and `atlas/include`.

## 6. Plan

Done: steps 1 to 8. In this order:

1. SharedBuf, with its refinement of Fifo and proofs.
2. CommandProtocol: Ios and the scheduler; its safety properties proved.
3. DriverGraph and QueryPool; all its properties proved, most without collections.
4. UnionStmt and Exec; its safety properties proved.
5. TupleId and Window; all its invariants proved.
6. Table and ImRel; the invariants and the refinement proved.
7. BufDict; its contents and lookups proved.
8. Restart; Modules; their safety properties proved but for AgreeAgain.
9. Views, derived streams and modules of several streams in CommandProtocol; joins in
   Exec; component commands, with several drivers in DriverGraph.
10. The hash and R-tree access methods as operators with reference definitions.

Theorems to prove next: WholeQueries with collections; AgreeAgain (from AgreeInv and
RecordsInv).
