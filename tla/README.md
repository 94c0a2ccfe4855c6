# Models of the Db2 for i connector

These modules model `src/src/db2ia` of the connector: the N-API addon that lets
JavaScript use the SQL Call Level Interface (CLI) of IBM i. They were written
from the C++ source; `docs/README.md` and the comments are used only as claims
to check the code against. Line numbers are those of the files in
`src/src/db2ia` unless a path is given.

## 1. The system

Two classes are exported to JavaScript.

* **DbConn** (`dbconn.cc`) owns a CLI connection handle `connh` and two flags:
  `connAllocated` (there is a handle) and `connected` (it has a session). Its
  methods are synchronous: the constructor, `conn`, `disconn`, `close`,
  `setConnAttr`, `getConnAttr`, `validStmt`, `debug`, `isConnected`.
* **DbStmt** (`dbstmt.cc`) owns a CLI statement handle `stmth` and keeps, for
  the current result set, the number of columns `colCount`, their descriptions
  `dbColumn` (flag `colDescAllocated`), the buffers `bindingRowInC` the driver
  writes a row into (`bindingRowAllocated`), the rows fetched and not yet handed
  over `resultSetInC`, and the flag `resultSetAvailable`; for the current
  parameters, the array `param`. It also keeps a *copy* of the raw connection
  handle of the DbConn it was made from (line 32).

Most DbStmt methods come in two forms. The synchronous form makes its CLI calls
on the main thread. The asynchronous form queues a `Napi::AsyncWorker`; its
`Execute()` makes the CLI calls on a thread of libuv's pool, and `OnOK()` or
`OnError()` later calls the JavaScript callback on the main thread. There is no
lock: workers of one statement and the methods the client calls meanwhile share
every member. The rest of the repository is start-up (`db2ia.cc`), error helpers
(`dberror.h`) and a JavaScript file of constants (`lib/db2a.js`).

What is hard here, and what a test on a healthy database hardly reaches:

* memory: when descriptions, bindings and rows are allocated and freed, across
  result sets of different widths, failing CLI calls and reuse of the statement;
* order: workers of one statement overlapping each other and the main thread;
* failure: what a method leaves behind when one of its CLI calls fails;
* ownership: which object may use or free a connection handle, and which
  connection a `commit` acts on;
* delivery: each row once and in order, each callback once.

`PROJECT.json` lists these hazards one by one, at the line where each bites.

### Components, and what makes each correct

| component | state | correct when |
|---|---|---|
| connection and transactions | `connh`, `connAllocated`, `connected`; a unit of work per handle | a handle has one owner and is freed once; a session ends with its connection; work is ended by its own connection |
| statement | flags, columns, bindings, rows | flags agree with memory and handle; rows once, in order, complete |
| asynchronous workers | libuv queue, pool, callbacks | no two threads use a statement's memory at once; every call is answered |
| parameters | `param`, buffers bound in the CLI | a buffer lives as long as the CLI has it bound; outputs belong to their execution |
| scrollable fetch, column values | cursor position, one row | the row asked for, decoded by its type |
| attributes, diagnostics | none kept here, but they change what a fetch does | a change never splits a row or a number |
| start-up | the environment handle | connections are made on a live one |
| JavaScript package | constants | - |

## 2. The modules

| module | what it is |
|---|---|
| `DbConn` | connection objects, the statements' copies of the handle, transactions |
| `MCDbConn` | constants and symmetry for TLC |
| `DbConnProofs` | proofs about `DbConn` |
| `DbStmt` | one statement object with its synchronous methods and workers |
| `MCDbStmt` | statements and result-set layouts for TLC |
| `DbStmtProofs` | proofs about the statement object |
| `StmtParams` | the parameters of one statement: binding, executing, outputs |
| `MCStmtParams` | statements and parameter lists for TLC |
| `StmtParamsProofs` | proofs about the memory, the values and the outputs of parameters |
| `StmtFetch` | the cursor, the bindings and the values of the columns of one result set |
| `MCStmtFetch` | a layout, NULLs, inconsistent indicators and positions for TLC |
| `StmtFetchProofs` | proofs about positions, values and Buffers |
| `ResultSets` | abstract: what a client may rely on for the rows of its statement |
| `DbStmtRaces` | `DbStmt` with the order of its threads: which executions have a data race |
| `MCDbStmtRaces` | an instance for TLC |
| `DbStmtRaceProofs` | proof that two kinds of clients never race |
| `DbStmtRowSteps` | lemmas: what each step of `DbStmt` does to rows |
| `DbStmtMemoryProofs` | proof that descriptions, bindings and rows are used while they last |
| `DbStmtRowProofs` | proofs that rows arrive once, in order and completely; `DbStmt` implements `ResultSets` |

### DbConn

`conn[o]` holds the members of a DbConn, `stm[s]` those of a DbStmt that concern
the connection, `dbc[h]` the CLI's side of a handle (live, has a session,
autocommit), `work[w]` one change of the database: who made it, on which handle,
and who ended it. Handles come from a small set because the CLI gives freed ones
out again; that is what makes a stale copy dangerous.

`InitAll` allocates the environment handle when the module is loaded; a failure is
only printed, and every constructor fails after it. Each method is one action:
`New`, `ConnIgnored`/`ConnRejected`/`ConnOk`/`ConnError` for `conn`, `SetConnAttr` for
autocommit and `SetOtherAttr` for the rest, `GetConnAttr`, `ValidStmt`, `IsConnected`,
`Debug`, `NewStmt`, `ExecWork`, `Commit`, `Rollback`, `CloseStmt`. At most one of its
CLI calls fails, chosen from `Faults`. All methods run on the main thread, one at a
time, but workers make changes meanwhile (`ExecWork`, by `exec` or `execute`).
Therefore the two methods that end a session take two steps: `Disconn` and `Close`
read the autocommit attribute and roll back (`EndingBegins`), `DisconnEnds` and
`CloseEnds` call SQLDisconnect and free the handle. A change a worker makes in
between is pending when SQLDisconnect is called, and the CLI refuses. `Close`
contains the whole of `Disconnect`, as the code does (dbconn.cc:334).

`Habits` is what the client does although nothing good can come of it: `"retry"`
uses a DbConn whose `conn()` threw, `"stale"` uses a DbStmt whose connection
ended. The good properties are checked and proved for `Habits = {}`; two runs
show what the habits lead to.

### DbStmt

`stmt` is one record: the members of the object and, from `live` on, the CLI's
side of the handle (prepared statement, open cursor, remaining result sets,
position, where the columns are bound). A *shape* stands for a result-set layout;
the shape in `dbColumn` against the shape in a row says whether it is decoded with
the right descriptions. A row is known by the opening of the result set it comes
from (`run`) and its place there (`pos`), so a row handed over twice, late or out
of order can be seen. `misuse` collects what goes wrong in memory: freed or too
short descriptions, bindings or rows, and CLI calls with a dropped handle.

The helpers follow the private functions of the class: `FreeColumns`,
`PopulateColumnDescriptions`, `BindColData`, `FetchData`/`PushRow`,
`BuildJsObject`, `ReadRow` (`fetch`). A synchronous method is one action. An
asynchronous one is a queueing action (`Exec`, `Prepare`, `Execute`, `Fetch`,
`FetchAll`), `Start` (a pool thread takes it), one step per CLI call
(`ExecAsyncWorkerExec`, ..., `ExecuteAsyncWorkerBind`, `WorkerFetchData`, each SQLFetch on its
own), and `Deliver` (`OnOK`/`OnError`). `bindColData()` with its SQLDescribeCol and
SQLBindCol calls is one step, so is an SQLFetch with the copy of its row, and so is a
callback with all of `buildJsObject()`. The code has no lock that would make them so: the
steps stand for it only where no other thread uses the same memory, which is what
`DbStmtRaces` is for. `CHECK`s are the guards of the methods; a call
that a check refuses is an action that changes nothing but the reply (`Checked`,
`Rejected`). `execSync` with a callback has a second
action, `ExecSyncReturn`, because it frees the columns only after the client's
callback returned and the callback may use the statement (lines 496-497).

A failing CLI call is a choice from `Faults`: `"exec"` (SQLExecDirect, SQLExecute,
SQLPrepare), `"no_data"`, `"describe"`, `"bind"`, `"fetch"`, `"drop"`.
On a dropped handle the diagnostics cannot be read and `returnErrMsg` returns an
uninitialized buffer, possibly an empty string, which N-API takes for success:
`MessageSet` is that choice.

`delivered` and `failed` are history: rows handed over with a plain success, and
result sets a fetch of which reported an error.

The CLI is external. What is assumed of it: an open cursor makes execute and
prepare fail; SQLNumResultCols leaves its output alone when it fails; a failed
SQLFetch leaves the cursor where it was; SQLFetch writes to whatever is bound; a
call with a dropped handle returns an error and does nothing; SQLDisconnect
refuses while a unit of work is pending and drops the session's statements.

### DbStmtRaces

`colCount`, `dbColumn`, `bindingRowInC` and `resultSetInC` are used by workers and by the
main thread. What orders two such uses is only this: what the main thread did before it
queued a worker comes before the worker, and the worker comes before what the main thread
does from its callback on; with one pool thread, workers come one after another. A use that
is in no order with another one is a data race, and there anything may happen: `push_back`
(2468) may move the rows that `buildJsObject()` (2475-2548) reads and frees, a row may be
copied half way through another SQLFetch, `close()` may free columns that bindColData() is
describing.

The module adds three history variables to `DbStmt` and no behaviour of the statement:
`touched`, the outstanding calls whose worker used that memory; `beside`, those whose worker
is not ordered after some other thread's use of it; `raced`. `WorkerOrder`, `DeliverOrder`
and `SyncOrder` say which steps use the memory. `NoRace` is about *clients*: a client with
`closeCursor` and two overlapping `exec` does race, on one pool thread as well (the first
worker is done, closeCursor lets the second one execute, and its fetch loop runs while the
first one's OnOK builds the rows). Two kinds of clients do not:

* one that waits for each call (`~MayOverlap`);
* `CursorClient`, which overlaps only exec, execute, prepare and methods that leave columns
  and rows alone, with statements that all open a cursor. The first execution to open one
  makes the CLI refuse all others until the cursor is closed, and a refused worker returns
  (290-295, 1032-1037) before it touches the statement. The connector does not promise this
  anywhere; it holds by that early return and by the CLI's cursor state alone.

What this document says of `DbStmt` it says of such clients only: an execution that races is
outside of what the module's steps describe. `resultSetAvailable`, one flag, is not counted; nor are
the statement's parameters (workers use them through the CLI only; the JavaScript side
replaces them on the main thread) and the CLI handle, which the CLI is assumed to guard.

### StmtParams

The parameters of a statement share no member with its result sets, so they have
a module of their own. `bindParams()` (2579-2870) allocates `param`, one entry and
one buffer per parameter, and the CLI keeps the addresses; `fetchSp()` (2872-2897)
reads the outputs and frees everything. Nothing else frees it: not `close`, not
`reset`, not a failed execution, not the destructor.

`stmt` holds `param` (its entries' direction and value, and `at`, the number of the
bindParams() that allocated it), the set `freed` of the arrays given back, what
went wrong in memory (`misuse`: freed twice, used after it was freed), and of the
handle: the prepared statement, where each marker is bound (`bound`) and the number
of executions. A value is "the input of the n-th bindParams()", "the output of the
n-th execution", with its number if it is an integer, NULL, zeros or garbage: enough
to tell whose values are read or handed over and whether a number got through. An
Int32 has `2 * Half` values here instead of 2^32.

An entry of a list is a pair of a value and its direction and type (the arrays of
bindParam) or a bare value (bindParameters), which is bound for input and output as
the type of its marker; `bindParams()` looks at each entry, so a list may mix them. A
bare value that is not of the type of its marker is not looked at: `Sent` makes it
zeros or whatever malloc() returned. An array whose value is undefined or whose indicator
stands for nothing is read up to its direction and ends `bindParams()` there
(`StopsHalfway`). A NULL is bound to a local variable: what
a procedure sets there is lost, and only the indicator is kept (`ExecuteWrite`).

| code | model |
|---|---|
| `freeSp`, `bindParams`, `fetchSp` | `FreeSp`, `BindParams` (with `BindEnds`, every way it may stop), `Outputs` (with `Values` and `Place`, the counter `j`) and `FetchSp` |
| an entry of `bindParams`, and of `fetchSp` | `Io`, `TypeOf`, `Sent`; `HandedOver`; `Int32Value` in both |
| `bindParamSync`, `bindParametersSync` | `BindParamSync`, `BindParametersSync` |
| `bindParam`, `bindParameters` | `BindParam`, `BindParameters`; `Bind...AsyncWorkerExec` (a no-op); `Bind...OnOK`, where bindParams() runs, on the main thread |
| `executeSync` | `ExecuteSync`, one action |
| `execute` | `Execute`; `ExecuteStarts` and `ExecuteReturns`, around SQLExecute on a pool thread; `ExecuteOnOK`, where fetchSp() runs; `ExecuteOnError` |
| `prepare`, `reset`, `close` | `Prepare`, `Reset`, `Close` |

`bindParam` and `bindParameters` differ in the form of the list only. Queued
workers start in any order here, which includes the pool's.

`client` is history: what the client knows from the answers it got. It is *careful*
while it makes one call at a time and executes only with every marker bound since
the last execution and the last prepare (a statement without markers needs none).
Some properties are about a careful client, the others about any.

Assumed of the CLI: bindings survive a prepare and an execution and are forgotten by
SQL_RESET_PARAMS and by dropping the handle; a marker without a binding makes
SQLExecute fail; a failed SQLExecute writes nothing; inputs are read when it
starts and outputs written when it ends. SQL_NO_DATA_FOUND is for statements
without output markers.

### StmtFetch

The same statement object, looked at column by column, for one prepared query. `stmt`
holds the flags, and of the binding rows: `gen` counts them, `buffer[g]` is the row
last written into the g-th, `heap` the column buffers that were not freed, `indicator`
the row whose lengths the descriptions hold. `resultSetInC` holds copies (`CopyOf`): data,
NULL, "" or the "-" that stands for an inconsistent length. `open`, `pos` and `scrollable`
are the CLI's cursor. A JavaScript value is its type, the row its content came from and the
binding row whose memory it aliases, if it does.

`Bad` are the fields whose length SQLFetch reports as inconsistent, that is, negative but
neither SQL_NULL_DATA nor SQL_NTS; it then returns SQL_SUCCESS_WITH_INFO, as a string that
cannot be converted makes it do in test/dataTypes.js:929-1025. `fetch()` looks at that
length before the type of the column (2908) and hands over "-". `fetchData()` looks at it
after CLOB and BOOLEAN (2428, 2451): a BOOLEAN is copied whatever its length, every other
column becomes "-" with the length SQL_NTS. `buildJsObject()` makes NaN of it where a
number is asked for, and for a binary column an array of that length, -3 (2490): the addon
is built without exceptions, and the process ends (`Aborts`, the reply "aborted", after
which the model stops).

| code | model |
|---|---|
| `bindColData`, `freeBindingRow` | `BindColData`, `FreeBindingRow` (`Freed`: the loop ends at a column without a buffer) |
| SQLFetch, SQLFetchScroll | `SQLFetch`, `SQLFetchScroll` with `Target` and `Clipped` |
| `fetch()` (2899-2939) | `FetchValue`, `FetchedRow`; `RowThrows` when a column has no buffer |
| `fetchData`, `buildJsObject` | `FetchData`/`PushRows`, `CopyOf`; `BuildValue`, `BuiltRows`, `Aborts` |
| `fetch`, `fetchSync` | `Fetch`, `FetchWorkerScrolls`, `FetchWorkerFetches`, `FetchDone`; `FetchSync` |
| `fetchAll`, `fetchAllSync` | `FetchAll`, `FetchAllWorker`, `FetchAllDone`; `FetchAllSync` |
| `executeSync`, `closeCursor`, `close` | the same names; one layout, so descriptions stay right (see `stmt_reuse`) |
| `asNumber`, `setStmtAttr` | the same names, at any time, also while a worker runs |

`kept` is history: the Buffers on the statement's own memory that the client may still
read. A Buffer that fetch hands out is the column's own buffer (2917-2919), good until
the next call that fetches, executes or closes; fetchAll's are copies.

The client waits for one fetch before it makes the next call that moves the cursor, and
does not fetch from a result set whose execution threw: it would read freed columns.
Assumed of the CLI: the scrollable attribute is refused while a cursor is open;
SQLFetchScroll fetches the row it moves to and stops before the first and after the last
one; a failed fetch leaves the cursor and the buffers alone; the data of a field with an
inconsistent length are nobody's. The locators of CLOBs are left out; fetch() never frees them
(2421 is in fetchData only).

### ResultSets

What the client sees of all this: result sets are opened one after another, rows are
read in order into a buffer (`Read`, by the workers of exec and fetchAll), held for a
callback (`Hold`) or handed over at once (`Next1`, `HandOver`), and only a fetch that
reports an error (`Fail`) keeps rows back or drops them. `DbStmt` implements it for a
client that waits for its calls: `run` and `pos` are the cursor's, `buffer` is
`resultSetInC`, `hand` is the bound row while the callback of a fetch is due, and
`handed` is what was delivered. That `hand` is computed from the *binding row* is the
point: the row is decoded only in the callback, on the main thread.

## 3. The runs

| run | what it asks | result |
|---|---|---|
| `stmt_any` | all methods in any order, all faults, a procedure with two result sets of 1 and 2 columns and a query | holds |
| `stmt_life` | rows: once, in order, complete, none left behind; memory; refinement of `ResultSets`; a query and an update with exec, update-count and fetch faults | holds |
| `stmt_overlap` | three overlapping calls of exec and execute on two pool threads, with prepareSync in between and execution, bind and fetch faults: no two threads use the statement's memory at once; every call is answered | holds |
| `stmt_reuse` | rows are decoded by their own descriptions after closeCursor and another exec | violated |
| `stmt_end` | no row comes with the end of the data | violated |
| `conn` | ownership of handles, copies, sessions and work; all faults, and workers that race with disconn and close | holds |
| `conn_failed` | `connAllocated` means there is a handle | violated |
| `conn_stale` | work is ended by its own connection, with a client that keeps statements too long | violated |
| `params` | parameter memory, the values executed with, the outputs handed over; two overlapping calls, all faults | holds |
| `fetch` | which row a fetch gets, what fetch and fetchAll make of its columns, how long Buffers last, what is never freed | holds |
| `fetch_named` | a fetch with an orientation gets the row the orientation names | violated |
| `params_again` | no execution uses freed parameter memory, with any client | violated |

**Bounds.** `MaxRuns` bounds the result sets opened in the life of a statement: 2
is what it takes to leave something of one result set for the next. `NRows` is 2
where order and completeness matter and 1 where only flags do. Two shapes of
different widths make a wrong description also too short or too long. Three calls
in `stmt_overlap` are one that opened the cursor and two that were refused, on two threads;
its queries all open a cursor, because one that does not lets the next execution use the
columns too. Two connections, two handles, two statements and two changes are
the fewest in which a handle passes from one connection to another while a
statement of the first is left; objects of a kind are interchangeable there, so the
run uses symmetry (it checks invariants only). `CHECK_DEADLOCK FALSE`: the client
may stop, and `MaxRuns` stops it.

`params` has 2 runs of bindParams() and 2 of SQLExecute: what it takes to bind over
an earlier list, to execute after a failed execution, and for two executions to
compete for one list's outputs. Two calls overlap (they are interchangeable, and the
run checks invariants only, hence the symmetry). Its statements are a procedure with
an integer input and output, an insert of an integer and a string, and a statement
without markers. Its five lists have arrays with a negative number, a NULL with a bare
value of the wrong type, an integer beyond an Int32 with a NULL for an output, an
array that is refused, and one that is refused half way; every list may be bound to
every statement. `Half` is 2, and a procedure sets its outputs to a number that fits in
an Int32, to one that does not, or to NULL.

`fetch` has 3 rows, so that every position has a row before and behind it; its layout
has a Buffer on either side of a CLOB, exact numbers of 15 and 16 digits, and a BOOLEAN,
its NULLs make two rows without a CLOB, one without a Buffer, and it has inconsistent
lengths in a BOOLEAN, a Buffer and a number. `MaxBinds` = 2 is one
execution after another, and `MaxLeft` = 1 lets a fetchAll follow a failed one.

**What the passing runs leave out**, because the code does not hold up there:
`stmt_life` has no execSync (a fetch after it reads freed columns), no describe,
bind or drop failures (a failed drop leaves `resultSetAvailable` set with the
columns freed) and one layout (see `stmt_reuse`); `stmt_overlap` has the methods of a
`CursorClient` only: with `closeCursor`, `nextResult`, `fetch`, `fetchAll` or `close` among
overlapping calls the code races, also on a single pool thread. What a racing execution
does to rows and memory is not modelled, and nothing is claimed of it.
`params` states `BuffersLive`, `UsesBoundValues` and `OutputsOfExecution` for a careful
client: one that executes again without binding uses freed memory (`params_again`),
one that binds while an execution runs is handed parameters nobody executed, and one
that prepares a statement without markers after a bindParam is handed the old
parameters. What free() makes of the address of a local variable (2678) or of a Buffer's
own memory (2710) is not modelled: `FreedOnce` is about the array `param` and the buffers
bindParams() allocated. `fetch` has one call that moves the cursor at a time.

**Fairness.** `stmt_overlap` uses `FairRaceSpec`, that is `FairSpec` with the history: weak
fairness of the steps of each worker, of `Deliver` and of the return from execSync's
callback. A pool thread that has a worker runs it, libuv gives a waiting worker to a free thread, and the event
loop runs completed workers' callbacks; the client owes nothing.

## 4. What disagrees with the code

1. *Reuse of a statement* (`stmt_reuse`). docs/README.md:1089 asks for closeCursor
   before another exec. closeCursor frees nothing, bindColData (2265) describes
   columns only if none are described: the second result is decoded by the first
   one's descriptions.
2. *End of data* (`stmt_end`). docs/README.md:1135 promises a null row; OnOK (1348)
   and fetchSync (1491) build one.
3. *Failed connect* (`conn_failed`). conn() frees the handle (dbconn.cc:265) and
   leaves `connAllocated`, whose comment (dbconn.cc:47) says the handle may be used.
4. *Commit after close of the connection* (`conn_stale`). commit acts on the handle
   copied at construction (32, 1729), which may by then be another connection's.
5. *Execute again* (`params_again`). docs/README.md:963 says that execute uses the
   current values of what bindParam bound. fetchSp() frees the buffers after the first
   execution (2895) and the CLI keeps their addresses: the second one reads and
   writes freed memory.
6. *Fetch by position* (`fetch_named`). docs/README.md:1125 says that fetch positions the
   cursor "based on the requested orientation and then retrieves any bound columns", and
   1145-1149 that SQL_FETCH_FIRST moves to the first row. The code calls SQLFetch (1321,
   1480) behind SQLFetchScroll (1304), which fetches already: the row handed over is the one
   *behind* the one named. The test at test/misc.js:50-66 expects the code's count of rows.

The model shows more that no statement of the documentation speaks about: exec
ignores the code that ended its fetch loop (314, 486), so a result can be cut short
without an error; fetchAllSync(cb) that fails neither calls back nor throws (1637);
execute reports a failed bindColData as success (1049); methods without a check of
`stmtAllocated` pass a dropped handle to the CLI after close() (1784); with an inconsistent
length a BOOLEAN is "-" in fetch and a boolean in fetchAll, and a Buffer column ends the
process in fetchAll (2428, 2490, 2908); a fetch of a CLOB that is not NULL throws in the callback
step, so the callback never comes (2932); a NULL CLOB is null in fetch and "" in
fetchAll (2413); the column buffers behind a CLOB are never freed (2562); BIGINT
parameters are cut to 32 bits in both directions (2669, 2885). `SQLErrorEquals` of
dberror.h is not used by anything.

## 5. The proofs

TLAPS checks, for every value of the constants:

* `DbConnProofs`: `TypeCorrect` for any client, and for `Habits = {}` `HandlesOwned`,
  `CopiesCurrent`, `NoWorkLeftBehind`, `WorkEndedByOwner`, `EndingSucceeds`.
  The inductive invariant is the conjunction of the types, the parts of
  `HandleOwned`, `CopyIsCurrent`, `PendingHasSession`, `EndedByOwner` and `Unmade`
  (an object never constructed has no handle). None of the parts is inductive
  alone: that `disconn` leaves no other connection's work behind needs that no
  other object has the handle, which needs that a handle given out by the CLI was
  not live, which needs that every allocated object's handle is live. `EndingReady`
  is about the time between the two halves of `disconn` and `close`: nothing is
  pending on the connection unless a worker raced or a CLI call failed. The lemmas
  go action by action (`...KeepsInv`), with a common one for every step that only
  settles work.
* `DbStmtProofs`: `TypeCorrect`, `BoundRowsDescribed`, `ResultSetsNeedHandle`, for any
  queries, layouts, numbers of calls and faults. The invariant
  is `TypeOK /\ Good(stmt)`: a bound row is described, `stmtAllocated` is exact,
  `resultSetAvailable` needs the handle unless a dropped one was used, and the
  cursor is within the result set (without which FetchData's counts are no
  naturals). It is proved through the operators on the record: each either `Keeps`
  every flag or preserves `Good` as a whole; a method is then a composition of
  them. `BindRow`'s lemma is where `BoundRowIsDescribed` is earned: it is called
  only with descriptions at hand. The induction itself does not need to know what overlaps,
  but the code takes the steps of `DbStmt` only where nothing races: `BoundRowsDescribed`
  is stated for the clients of `NeverRaces`, and of the other two theorems no more should be
  read into executions that race.
* `DbStmtRaceProofs`: `NeverRaces`, for any number of calls and pool threads: a client that
  waits, or a `CursorClient`, never makes two threads use the columns and rows at once. For
  the second kind the invariant (`CursorInv`) is that at most one outstanding call is a user
  of that memory (`Users`: it has used it, its worker is past the execution, or its callback
  will build rows), that no call in `beside` is one, that the cursor is open once there was
  one, and that the handle is live: on a dropped one a refused execution might come back
  with an empty message and go on (`MessageSet`).
* `DbStmtRowSteps`, `DbStmtMemoryProofs` and `DbStmtRowProofs` are about rows and the memory
  they pass through, for any queries, layouts, numbers of rows, calls and threads. Their
  invariants build on one another:

  | invariant | what it adds | needs |
  |---|---|---|
  | `RInv` | the driver is bound to the row exactly while it is allocated, an open cursor has a handle, a worker is in a state its method has | - |
  | `OInv` | rows delivered, waiting in `resultSetInC` and in the hand of a fetch are pairwise different and behind the cursor: `RowsHandedOverOnce` | calls do not overlap, or the client is a `CursorClient` |
  | `WInv` | they are in order without a gap, and `resultSetInC` outside of a bulk read has rows of failed fetches only: `RowsHandedOverInOrder` | calls do not overlap |
  | `MInv` | the columns of an open result set are described and bound when a row is read: `MemoryIsSafe` | `Calm`; the theorem also `Uniform` |
  | `CInv` | a reported end means that the cursor is behind the last row: `EndIsAll`, `OnlyFailuresLeave`, `ImplementsResultSets` | `Calm` |

  `RowSteps` is the lemma they share: it sorts all actions by what they do to rows (read one,
  hand over, open a result set, move on, nothing), so that each invariant has a handful of
  cases instead of forty. No property about delivered rows is inductive alone: a row is read
  by a worker, waits in the object and is delivered by a callback, and what was delivered
  says nothing about what is still waiting; all three are therefore one sequence (`AllRows`)
  whose parts only ever move from one end to the other. `ImplementsResultSets` adds that a
  row handed over by `fetch` is still in the binding row when its callback comes
  (`AloneInHand`), which is false as soon as two calls overlap.

  `Calm` is: the client waits for its calls and does not use execSync, and SQLDescribeCol,
  SQLBindCol and SQLFreeStmt do not fail. `Uniform` is: all result sets have as many columns.
  They are hypotheses of the theorems and not ASSUMEs; the constants of `stmt_life` satisfy
  both, and section 3 says for each what goes wrong in the code without it
  (`stmt_reuse`: descriptions of another layout; execSync: columns freed under a fetch; a
  failed drop: `resultSetAvailable` with freed columns).

* `StmtParamsProofs`, for any statements, lists of parameters, faults, numbers of calls,
  bindings and executions, without further hypotheses. Its invariants:
  * `IInv` (`ParametersFreedOnce`, `ParametersLive`): arrays are numbered as they are
    allocated, so that a new one is none of those freed and the present one is not either
    (`Owned`); "freshly bound" means that every marker of the prepared statement points at the
    present array (`FreshBound`); a careful client has one call outstanding and the parameters
    of a running execution stay bound until it ends (`CallInOrder`). `BuffersLive` needs all
    three: it is disturbed at the start and at the end of SQLExecute, long after the
    bindParams() that made it true.
  * `TInv` (`TypeCorrect`): a marker that is bound to the present array is bound to an entry of
    it, without which an execution would read no value of the list (`Placed`).
  * `GInv` (`OutputsHandedOverOnce`): an output that is in `param`, or about to be written
    by a worker, is of an execution that no reply held, and no two workers are about to write
    the same one. Executions may overlap at will: the outputs go to whichever callback comes
    first, and the other finds `param` freed.
  * `DInv` (`ValuesBound`, `OutputsBelong`): for a careful client `param` holds the values of the
    list bound last until SQLExecute writes its outputs, then the outputs of that execution
    until its callback. Both properties compare what is read or handed over with a list that
    was bound several calls earlier; `InStep` follows one execution through its worker.

  fetchSp() numbers what it hands over with a counter, skipping inputs. `Place` is that
  counter; that it gives each value one place, in order and without a gap, is proved by
  induction on the entries (`PlaceIn`, `PlaceOrder`, `PlaceTaken`, `ValuesAt`), as the least
  counterexample (`Least`).

* `StmtFetchProofs`: `TypeCorrect`, `FetchAllWhole`, `FetchAdvances`, `WaysAgree`,
  `BuffersLast` and `NoLeakBeforeClob`, for any layout, rows, NULLs, inconsistent lengths,
  positions and faults. The invariant says that the binding row in use holds the row of
  the indicators, that rows in `resultSetInC` are whole, that a running call remembers
  where the cursor was and what SQLFetchScroll did since, and that a Buffer the client
  may read is in a binding row nobody has written since. `AdvancesToNext` needs the
  second step of a fetch worker to know what the first one did while attributes were
  switched; `BuffersHold` needs that no other step frees or fills the last binding row.

The proofs assume only the named ASSUMEs of `DbConn`, `DbStmt`, `StmtParams` and
`StmtFetch`, which TLC evaluates on the constants of each run, and the hypotheses named
above. Every invariant the passing runs check is stated by a theorem. Only model-checked,
not proved:

* liveness (`CallsAnswered`), which needs fairness and ENABLED.

## 6. Not modelled, and the plan

Still to be proved: `MemorySafe` for result sets of different widths, under the condition on
layouts that freeing the columns between them establishes.

Not modelled:

* what comes of a data race: overlapping calls with fetches, closeCursor, nextResult or
  close among them, with one pool thread or several. The code has no lock and is not safe
  there; `DbStmtRaces` says which clients keep clear of it, and the hazards say where it bites;
* the parameters and the result sets of one statement in one module: they share no
  member, and the product of the two state spaces shows nothing the parts do not;
* the garbage collection of a DbStmt, a DbConn or a Buffer while a worker uses it (388, 725);
* `SQL_SUCCESS_WITH_INFO` other than 0100C and that of an inconsistent field, the values of connection and statement
  attributes other than those named above, message texts, `getSQLType`, debug output and
  the JavaScript constants (a value passed through, no state);
* the characters of a value, the locators of CLOBs;
* what a callback does that runs while an exception is pending (`bindParamSync` and
  `fetchSync` throw and go on);
* everything inside the CLI and libuv beyond what is listed in section 2.
