------------------------------- MODULE DbStmt -------------------------------
(***************************************************************************)
(* One statement object of the connector: src/src/db2ia/dbstmt.cc.         *)
(*                                                                         *)
(* A DbStmt owns a CLI statement handle, the descriptions of the columns   *)
(* of a result set (dbColumn), the buffers the driver writes a row into    *)
(* (bindingRowInC) and the rows fetched but not yet handed to JavaScript   *)
(* (resultSetInC).  Synchronous methods run to completion on the main      *)
(* thread; each asynchronous one is a Napi::AsyncWorker whose Execute()    *)
(* runs on a thread of libuv's pool and whose OnOK()/OnError() runs later  *)
(* on the main thread.  A worker's Execute() is split at its CLI calls:    *)
(* one step is one call (bindColData and its SQLDescribeCol/SQLBindCol     *)
(* calls count as one) with the memory accesses up to the next one.        *)
(* No lock guards that memory, so steps of this size stand for the code    *)
(* only as long as no two threads use it at once: DbStmtRaces finds the    *)
(* executions for which that is so, and NeverRaces the clients that have   *)
(* no others.                                                              *)
(*                                                                         *)
(* The CLI is external: its handle is modelled by the fields of stmt from  *)
(* "live" on, from what dbstmt.cc and docs/README.md rely on.              *)
(***************************************************************************)
EXTENDS Integers, Sequences, FiniteSets

CONSTANTS
    Queries,    \* the SQL statements of the client
    Shapes,     \* the result-set layouts those statements produce
    NoQuery,    \* "nothing prepared"
    NoShape,    \* "no cursor open", "no column described"
    Cols,       \* Cols[sh]: the number of columns of a result set of shape sh
    Results,    \* Results[q]: the shapes of the result sets of q, in order
    Procs,      \* the queries that call a stored procedure
    NRows,      \* the rows of every result set
    Calls,      \* identities of outstanding asynchronous calls
    Ops,        \* the methods the client uses
    Faults,     \* the CLI functions that may fail on a live handle
    MayOverlap, \* may the client start a call while another is in progress?
    PoolSize,   \* threads of the libuv pool
    MaxRuns     \* bound: result sets opened in the life of the statement

AsyncOps == {"exec", "prepare", "execute", "fetch", "fetchAll"}
SyncOps  == {"execSync", "prepareSync", "executeSync", "fetchSync",
             "fetchAllSync", "nextResult", "closeCursor", "close",
             "numFields", "fieldValue", "fieldInfo", "setStmtAttr",
             "getStmtAttr", "numRows", "stmtError"}
FetchOps == {"fetch", "fetchSync", "fetchAll", "fetchAllSync"}
CLIFaults == {"exec", "no_data", "describe", "bind", "fetch", "drop"}

ASSUME ShapeAssumption ==
    /\ NoShape \notin Shapes /\ NoQuery \notin Queries
    /\ Cols \in [Shapes -> Nat \ {0}]
    /\ Results \in [Queries -> Seq(Shapes)]
    /\ Procs \subseteq Queries
    /\ NRows \in Nat
ASSUME ClientAssumption ==
    /\ Ops \subseteq AsyncOps \cup SyncOps
    /\ Faults \subseteq CLIFaults
    /\ MayOverlap \in BOOLEAN
    /\ PoolSize \in Nat \ {0} /\ MaxRuns \in Nat

VARIABLES
    stmt,       \* the members of the DbStmt object and its CLI handle
    queue,      \* the libuv work queue: calls no pool thread has taken
    calls,      \* calls[c]: the AsyncWorker of call c
    inCallback, \* is execSync(sql, cb) waiting for its callback to return?
    reply,      \* what the last completed method handed to the client
    delivered,  \* history: rows handed over with no error and no end of data
    failed      \* history: result sets a fetch of which reported an error

hist == <<delivered, failed>>
vars == <<stmt, queue, calls, inCallback, reply, hist>>

-----------------------------------------------------------------------------
(* Types *)

\* A row is known by the opening of the result set it comes from, its place
\* there, the layout it was fetched under and the number of fields copied.
Row == [run : Nat, pos : Nat, shape : Shapes \cup {NoShape}, n : Nat]
NoRow == [run |-> 0, pos |-> 0, shape |-> NoShape, n |-> 0]

\* What goes wrong in memory: a description, a binding buffer or a fetched
\* row is used after free() or past its end, or a CLI call gets a handle
\* that close() dropped.
MisuseKinds == {"columns", "bindings", "row", "handle"}

Stmt == [stmtAllocated : BOOLEAN, resultSetAvailable : BOOLEAN,
         colDescAllocated : BOOLEAN, bindingRowAllocated : BOOLEAN,
         colCount : Nat,
         dbColumn : Shapes \cup {NoShape}, descN : Nat,
         bindingRow : Row, bindingN : Nat,
         resultSetInC : Seq(Row),
         live : BOOLEAN, prepared : Queries \cup {NoQuery},
         open : Shapes \cup {NoShape}, rest : Seq(Shapes),
         pos : Nat, run : Nat, bound : {"none", "row", "freed"},
         misuse : SUBSET MisuseKinds]

Rcs == {"success", "no_data", "error", "invalid"}
Idle == [op |-> "none", pc |-> "idle", q |-> NoQuery, rc |-> "success",
         err |-> FALSE]
Call == [op : AsyncOps \cup {"none"},
         pc : {"idle", "queued", "cli", "bind", "fetching", "done"},
         q : Queries \cup {NoQuery}, rc : Rcs, err : BOOLEAN]

\* kind: "value" a result (returned, or a callback with a null error),
\* "error" an exception, an error in the callback or an error return code,
\* "silent" neither; "accepted" the method only queued a worker.
Reply == [op : AsyncOps \cup SyncOps \cup {"none"},
          kind : {"none", "accepted", "value", "error", "silent"},
          rows : Seq(Row), rc : Rcs, shape : Shapes \cup {NoShape}]

TypeOK ==
    /\ stmt \in Stmt
    /\ queue \in Seq(Calls)
    /\ calls \in [Calls -> Call]
    /\ inCallback \in BOOLEAN
    /\ reply \in Reply
    /\ delivered \in Seq(Row)
    /\ failed \subseteq Nat

-----------------------------------------------------------------------------
(* Memory: the column descriptions and the binding row *)

Misuse(cond, kind) == IF cond THEN {kind} ELSE {}

\* Reading dbColumn[0 .. colCount-1].
ColumnsMisuse(s) ==
    Misuse(s.colCount > 0 /\ (~s.colDescAllocated \/ s.colCount > s.descN),
           "columns")

\* Reading bindingRowInC[0 .. colCount-1].
BindingsMisuse(s) ==
    Misuse(s.colCount > 0 /\ (~s.bindingRowAllocated \/ s.colCount > s.bindingN),
           "bindings")

\* Both loops run to the current colCount, whatever the array's length.
FreeColumnDescriptions(s) ==
    [s EXCEPT !.colDescAllocated = FALSE,
              !.misuse = @ \cup Misuse(s.colCount > s.descN, "columns")]

FreeBindingRow(s) ==
    [s EXCEPT !.bindingRowAllocated = FALSE,
              !.bound = IF @ = "row" THEN "freed" ELSE @,
              !.misuse = @ \cup Misuse(s.colCount > s.bindingN, "bindings")]

\* Mutation of FreeColumns: the binding row is forgotten.
FreeColumnsKeepsRow(s) ==
    IF s.colDescAllocated THEN FreeColumnDescriptions(s) ELSE s

FreeColumns(s) ==
    LET s1 == IF s.colDescAllocated THEN FreeColumnDescriptions(s) ELSE s
    IN  IF s1.bindingRowAllocated THEN FreeBindingRow(s1) ELSE s1

\* SQLDescribeCol describes the open result set; a failure frees what was
\* described so far.
PopulateColumnDescriptions(s, f) ==
    IF ~s.live \/ s.open = NoShape \/ f = "describe"
    THEN [s EXCEPT !.colDescAllocated = FALSE]
    ELSE [s EXCEPT !.dbColumn = s.open, !.descN = s.colCount,
                   !.colDescAllocated = TRUE]

\* The new binding row, on the descriptions at hand: fresh ones, or those of
\* an earlier result set when colDescAllocated was still set.
BindRow(s, f) ==
    LET s1 == [s EXCEPT !.bindingN = s.colCount, !.bindingRow = NoRow,
                        !.misuse = @ \cup ColumnsMisuse(s)]
    IN  IF ~s.live \/ f = "bind"
        THEN [s1 EXCEPT !.bindingRowAllocated = FALSE,
                        !.bound = IF s.live THEN "freed" ELSE @]
        ELSE [s1 EXCEPT !.bindingRowAllocated = TRUE, !.bound = "row"]

\* Mutation of BindColData: descriptions at hand end the work too early.
BindColDataReturnsEarly(s, f) ==
    LET s1 == IF s.bindingRowAllocated THEN FreeBindingRow(s) ELSE s
        s2 == PopulateColumnDescriptions(s1, f)
    IN  IF ~s1.colDescAllocated /\ s2.colDescAllocated THEN BindRow(s2, f)
        ELSE IF s1.colDescAllocated THEN s1 ELSE s2

\* bindColData() returned 0 exactly when bindingRowAllocated is set after it.
BindColData(s, f) ==
    LET s1 == IF s.bindingRowAllocated THEN FreeBindingRow(s) ELSE s
        s2 == IF s1.colDescAllocated THEN s1
              ELSE PopulateColumnDescriptions(s1, f)
    IN  IF s2.colDescAllocated THEN BindRow(s2, f) ELSE s2

-----------------------------------------------------------------------------
(* The CLI calls *)

\* A call that reaches a dropped handle.
OnHandle(s) == [s EXCEPT !.misuse = @ \cup Misuse(~s.live, "handle")]

Opened(s, results) ==
    [s EXCEPT !.open = IF results = <<>> THEN NoShape ELSE Head(results),
              !.rest = IF results = <<>> THEN <<>> ELSE Tail(results),
              !.pos = 0, !.run = @ + 1]

\* SQLExecDirect and SQLExecute; an open cursor is an invalid cursor state,
\* and SQLExecute needs a prepared statement.
ExecRc(s, q, f) ==
    IF ~s.live THEN "invalid"
    ELSE IF f = "exec" \/ s.open # NoShape \/ q = NoQuery THEN "error"
    ELSE IF f = "no_data" /\ Results[q] = <<>> THEN "no_data"
    ELSE "success"

\* A stored procedure that leaves result sets succeeds with the warning
\* 0100C, and resultSetAvailable is set there and then.
Executed(s, q, f) ==
    IF ExecRc(s, q, f) \in {"success", "no_data"}
    THEN [Opened(s, Results[q]) EXCEPT
            !.resultSetAvailable = @ \/ (q \in Procs /\ Results[q] # <<>>)]
    ELSE OnHandle(s)

\* SQLExecDirect leaves no prepared statement behind.
ExecDirect(s, q, f) ==
    IF ExecRc(s, q, f) \in {"success", "no_data"}
    THEN [Executed(s, q, f) EXCEPT !.prepared = NoQuery] ELSE OnHandle(s)

SQLPrepare(s, q, f) ==
    IF ExecRc(s, q, f) = "success" THEN [s EXCEPT !.prepared = q] ELSE OnHandle(s)

\* SQLNumResultCols: the columns of the open result set, or of the statement
\* prepared but not executed; colCount keeps its value when the call fails.
ResultCols(s) ==
    IF s.open # NoShape THEN Cols[s.open]
    ELSE IF s.prepared # NoQuery /\ Results[s.prepared] # <<>>
         THEN Cols[Head(Results[s.prepared])] ELSE 0

\* Mutation of SQLNumResultCols: a failing call stores -1.
SQLNumResultColsStoresFailure(s) ==
    IF s.live THEN [s EXCEPT !.colCount = ResultCols(s)]
    ELSE [OnHandle(s) EXCEPT !.colCount = -1]

SQLNumResultCols(s) ==
    IF s.live THEN [s EXCEPT !.colCount = ResultCols(s)] ELSE OnHandle(s)

Left(s) == IF s.open = NoShape THEN 0 ELSE NRows - s.pos

\* The return code of one SQLFetch.
FetchRc(s, f) ==
    IF ~s.live THEN "invalid"
    ELSE IF s.open = NoShape \/ f = "fetch" THEN "error"
    ELSE IF Left(s) = 0 THEN "no_data"
    ELSE "success"

\* A successful SQLFetch advances the cursor and writes the row wherever the
\* columns are bound: into bindingRowInC, into buffers already freed, or
\* nowhere.  A failed one leaves the cursor where it was.
SQLFetch(s, f) ==
    IF FetchRc(s, f) # "success" THEN OnHandle(s)
    ELSE [s EXCEPT
            !.pos = @ + 1,
            !.bindingRow =
                IF s.bound = "row"
                THEN [run |-> s.run, pos |-> s.pos + 1, shape |-> s.open, n |-> s.bindingN]
                ELSE @,
            !.misuse = @ \cup Misuse(s.bound = "freed", "bindings")]

-----------------------------------------------------------------------------
(* Rows on their way to JavaScript *)

\* The row that a copy of the bindings yields; freed bindings yield none.
BoundRow(s) == IF s.bindingRowAllocated THEN [s.bindingRow EXCEPT !.n = s.colCount]
               ELSE NoRow

\* Mutation of PushRow: the row goes to the front.
PushRowFront(s) ==
    [s EXCEPT !.resultSetInC = <<BoundRow(s)>> \o @,
              !.misuse = @ \cup ColumnsMisuse(s) \cup BindingsMisuse(s)]

\* One turn of the loop of fetchData() after a successful SQLFetch.
PushRow(s) ==
    [s EXCEPT !.resultSetInC = Append(@, BoundRow(s)),
              !.misuse = @ \cup ColumnsMisuse(s) \cup BindingsMisuse(s)]

\* The whole loop on the main thread: k rows, then the code that ends it.
FetchData(s, k) ==
    IF k = 0 THEN s
    ELSE LET row(i) ==
               IF s.bound = "row" /\ s.bindingRowAllocated
               THEN [run |-> s.run, pos |-> s.pos + i, shape |-> s.open, n |-> s.colCount]
               ELSE BoundRow(s)
         IN  [s EXCEPT
                !.pos = @ + k,
                !.bindingRow = IF s.bound = "row"
                               THEN [row(k) EXCEPT !.n = s.bindingN] ELSE @,
                !.resultSetInC = @ \o [i \in 1..k |-> row(i)],
                !.misuse = @ \cup ColumnsMisuse(s) \cup BindingsMisuse(s)
                             \cup Misuse(s.bound = "freed", "bindings")]

\* The ways the loop may end: the rows it got and the code that stopped it.
FetchEnds(s) ==
    IF ~s.live THEN {[got |-> 0, rc |-> "invalid"]}
    ELSE IF s.open = NoShape THEN {[got |-> 0, rc |-> "error"]}
    ELSE {[got |-> Left(s), rc |-> "no_data"]} \cup
         (IF "fetch" \in Faults THEN [got : 0..Left(s), rc : {"error"}] ELSE {})

\* Mutation of BuildJsObject: resultSetInC is not cleared.
BuildJsObjectKeepsRows(s) ==
    [s EXCEPT !.misuse = @ \cup (IF s.resultSetInC = <<>> THEN {} ELSE ColumnsMisuse(s))]

\* buildJsObject() hands over and frees every row of resultSetInC, also those
\* an earlier call left there, decoding each with the present descriptions.
BuildJsObject(s) ==
    [s EXCEPT !.resultSetInC = <<>>,
              !.misuse = @ \cup (IF s.resultSetInC = <<>> THEN {} ELSE ColumnsMisuse(s))
                           \cup Misuse(\E i \in DOMAIN s.resultSetInC :
                                          s.resultSetInC[i].n < s.colCount, "row")]

\* fetch() reads the bindings themselves.
ReadRow(s) == [s EXCEPT !.misuse = @ \cup ColumnsMisuse(s) \cup BindingsMisuse(s)]

-----------------------------------------------------------------------------
(* Replies *)

Answer(op, kind, s, rows, rc) ==
    [op |-> op, kind |-> kind, rows |-> rows, rc |-> rc, shape |-> s.dbColumn]
Value(op, s, rows) == Answer(op, "value", s, rows, "success")
Failure(op, s)     == Answer(op, "error", s, <<>>, "error")

\* The client learns the outcome r of a method that leaves the object in s.
Return(s, r) ==
    /\ stmt' = s
    /\ reply' = r
    /\ delivered' = IF r.kind = "value" /\ r.rc = "success"
                    THEN delivered \o r.rows ELSE delivered
    /\ failed' = IF r.kind \in {"error", "silent"} /\ r.op \in FetchOps
                 THEN failed \cup {s.run} ELSE failed

\* A CHECK that fails throws and leaves everything alone.
Rejected(op) ==
    reply' = Failure(op, stmt) /\ UNCHANGED <<stmt, hist>>
Checked(op, guard, A) == IF guard THEN A ELSE Rejected(op)

\* The fault, if any, that strikes a method.
Fault(fs) == {"none"} \cup (Faults \cap fs)

Outstanding == {c \in Calls : calls[c].pc # "idle"}
ToExecute   == {c \in Outstanding : calls[c].op \in {"exec", "execute"}
                                     /\ calls[c].pc \in {"queued", "cli"}}
RunsLeft == stmt.run + Cardinality(ToExecute) < MaxRuns

\* The main thread may call a synchronous method, also inside the callback
\* of an execSync.
MainCall(op) == op \in Ops /\ (MayOverlap \/ Outstanding = {})
                /\ UNCHANGED <<queue, calls>>

-----------------------------------------------------------------------------
(* Synchronous methods *)

\* What exec, execute and nextResult do once a statement has run.
BindResult(s, f) ==
    LET s1 == SQLNumResultCols(s)
    IN  IF s1.colCount = 0 THEN s1
        ELSE BindColData([s1 EXCEPT !.resultSetAvailable = TRUE], f)
BindFailed(s) == s.colCount > 0 /\ ~s.bindingRowAllocated

\* With a callback, the result set lives until the callback has returned.
ExecSync(q, cb) ==
    /\ MainCall("execSync") /\ RunsLeft /\ ~inCallback
    /\ Checked("execSync", stmt.stmtAllocated,
        \E f \in Fault({"exec", "no_data", "describe", "bind"}) :
        LET s1 == ExecDirect(stmt, q, f)
            s2 == BindResult(s1, f)
        IN  IF ExecRc(stmt, q, f) \notin {"success", "no_data"}
            THEN Return(s1, Failure("execSync", s1)) /\ UNCHANGED inCallback
            ELSE IF s2.colCount = 0
            THEN Return(s2, Value("execSync", s2, <<>>)) /\ UNCHANGED inCallback
            ELSE IF BindFailed(s2)
            THEN Return(s2, Failure("execSync", s2)) /\ UNCHANGED inCallback
            ELSE \E end \in FetchEnds(s2) :
                 LET s3 == FetchData(s2, end.got)
                     s4 == BuildJsObject(s3)
                 IN  /\ Return(IF cb THEN s4 ELSE FreeColumns(s4),
                               Value("execSync", s3, s3.resultSetInC))
                     /\ inCallback' = cb)
    /\ stmt.stmtAllocated \/ UNCHANGED inCallback

\* The callback of execSync returns.
ExecSyncReturn ==
    /\ inCallback /\ inCallback' = FALSE
    /\ stmt' = FreeColumns(stmt)
    /\ UNCHANGED <<queue, calls, reply, hist>>

PrepareSync(q) ==
    /\ MainCall("prepareSync") /\ UNCHANGED inCallback
    /\ Checked("prepareSync", stmt.stmtAllocated,
        \E f \in Fault({"exec"}) :
        LET s1 == SQLPrepare(stmt, q, f)
        IN  Return(s1, IF ExecRc(stmt, q, f) = "success"
                       THEN Value("prepareSync", s1, <<>>)
                       ELSE Failure("prepareSync", s1)))

\* No check of stmtAllocated here, and SQL_NO_DATA_FOUND is an error.
ExecuteSync ==
    /\ MainCall("executeSync") /\ RunsLeft /\ UNCHANGED inCallback
    /\ \E f \in Fault({"exec", "no_data", "describe", "bind"}) :
       LET q  == stmt.prepared
           s1 == Executed(stmt, q, f)
           s2 == BindResult(s1, f)
       IN  IF ExecRc(stmt, q, f) # "success"
           THEN Return(s1, Failure("executeSync", s1))
           ELSE Return(s2, IF BindFailed(s2) THEN Failure("executeSync", s2)
                           ELSE Value("executeSync", s2, <<>>))

\* At the end of the data the row is built all the same, from the bindings
\* as the last successful fetch left them.
FetchSync ==
    /\ MainCall("fetchSync") /\ UNCHANGED inCallback
    /\ Checked("fetchSync", stmt.stmtAllocated /\ stmt.resultSetAvailable,
        \E f \in Fault({"fetch"}) :
        LET rc == FetchRc(stmt, f)
            s1 == SQLFetch(stmt, f)
        IN  IF rc = "error" THEN Return(s1, Failure("fetchSync", s1))
            ELSE Return(ReadRow(s1),
                        Answer("fetchSync", "value", s1,
                               <<BoundRow(s1)>>, rc)))

\* On an error a callback is not called, and nothing is thrown or freed;
\* without one the error is thrown and the rows are freed undelivered.
FetchAllSync(cb) ==
    /\ MainCall("fetchAllSync") /\ UNCHANGED inCallback
    /\ Checked("fetchAllSync", stmt.stmtAllocated /\ stmt.resultSetAvailable,
        \E end \in FetchEnds(stmt) :
        LET s1 == FetchData(stmt, end.got)
        IN  IF end.rc = "no_data"
            THEN Return(BuildJsObject(s1), Value("fetchAllSync", s1, s1.resultSetInC))
            ELSE IF cb THEN Return(s1, Answer("fetchAllSync", "silent", s1, <<>>, end.rc))
            ELSE Return(BuildJsObject(s1), Failure("fetchAllSync", s1)))

NextResult ==
    /\ MainCall("nextResult") /\ RunsLeft /\ UNCHANGED inCallback
    /\ \E f \in Fault({"describe", "bind"}) :
       LET more == stmt.live /\ stmt.rest # <<>>
           s1 == IF more THEN Opened(stmt, stmt.rest) ELSE OnHandle(stmt)
           s2 == BindResult(s1, f)
       IN  IF more
           THEN Return(s2, IF BindFailed(s2) THEN Failure("nextResult", s2)
                           ELSE Value("nextResult", s2, <<>>))
           ELSE Return(s1, Failure("nextResult", s1))

CloseCursor ==
    /\ MainCall("closeCursor") /\ UNCHANGED inCallback
    /\ Return([OnHandle(stmt) EXCEPT !.open = NoShape],
              IF stmt.live THEN Value("closeCursor", stmt, <<>>)
              ELSE Failure("closeCursor", stmt))

\* Mutation of Close: resultSetAvailable keeps its value.
CloseKeepsResultSet ==
    /\ MainCall("close") /\ UNCHANGED inCallback
    /\ LET s1 == FreeColumns(stmt)
       IN  IF ~stmt.stmtAllocated THEN Return(s1, Value("close", s1, <<>>))
           ELSE Return([s1 EXCEPT !.stmtAllocated = FALSE, !.live = FALSE,
                                  !.open = NoShape, !.rest = <<>>,
                                  !.bound = "none", !.prepared = NoQuery],
                       Value("close", s1, <<>>))

\* The columns go first, also when SQLFreeStmt then fails.
Close ==
    /\ MainCall("close") /\ UNCHANGED inCallback
    /\ LET s1 == FreeColumns(stmt)
       IN  IF ~stmt.stmtAllocated THEN Return(s1, Value("close", s1, <<>>))
           ELSE \/ "drop" \in Faults /\ Return(s1, Failure("close", s1))
                \/ Return([s1 EXCEPT !.stmtAllocated = FALSE,
                                     !.resultSetAvailable = FALSE,
                                     !.live = FALSE, !.open = NoShape,
                                     !.rest = <<>>, !.bound = "none",
                                     !.prepared = NoQuery],
                          Value("close", s1, <<>>))

NumFields ==
    /\ MainCall("numFields") /\ UNCHANGED inCallback
    /\ Checked("numFields", stmt.stmtAllocated /\ stmt.resultSetAvailable,
        LET s1 == SQLNumResultCols(stmt)
        IN  Return(s1, Value("numFields", s1, <<>>)))

\* Entry i of dbColumn is read after the same checks everywhere.
ColumnEntry(op, i) ==
    /\ MainCall(op) /\ UNCHANGED inCallback
    /\ Checked(op,
        /\ stmt.resultSetAvailable /\ stmt.colDescAllocated
        /\ i < stmt.colCount,
        Return([stmt EXCEPT !.misuse = @ \cup Misuse(i >= stmt.descN, "columns")],
               Value(op, stmt, <<>>)))

\* fieldName, fieldType, fieldWidth, fieldPrecise, fieldScale, fieldNullable.
FieldValue(i) == ColumnEntry("fieldValue", i)

FieldInfo(i) == ColumnEntry("fieldInfo", i)

\* A value that goes to or comes from the CLI and leaves the object alone.
HandleCall(op, kinds) ==
    /\ MainCall(op) /\ UNCHANGED inCallback
    /\ Checked(op, stmt.stmtAllocated,
        \E kind \in kinds :
            Return(OnHandle(stmt), Answer(op, kind, stmt, <<>>,
                                          IF kind = "error" THEN "error" ELSE "success")))

SetStmtAttr == HandleCall("setStmtAttr", {"value", "error"})
GetStmtAttr == HandleCall("getStmtAttr", {"value", "error"})
NumRows     == HandleCall("numRows", {"value", "error"})

\* With a handle type it does not know, stmtError never calls back.
StmtError == HandleCall("stmtError", {"value", "silent"})

-----------------------------------------------------------------------------
(* Asynchronous methods: the main thread queues a worker *)

Queue(c, op, q, guard) ==
    /\ op \in Ops /\ calls[c].pc = "idle"
    /\ MayOverlap \/ (Outstanding = {} /\ ~inCallback)
    /\ IF guard
       THEN /\ calls' = [calls EXCEPT ![c] = [Idle EXCEPT !.op = op, !.pc = "queued", !.q = q]]
            /\ queue' = Append(queue, c)
            /\ reply' = Answer(op, "accepted", stmt, <<>>, "success")
            /\ UNCHANGED <<stmt, hist>>
       ELSE Rejected(op) /\ UNCHANGED <<queue, calls>>
    /\ UNCHANGED inCallback

Exec(c, q)    == RunsLeft /\ Queue(c, "exec", q, stmt.stmtAllocated)
Prepare(c, q) == Queue(c, "prepare", q, stmt.stmtAllocated)
Execute(c)    == RunsLeft /\ Queue(c, "execute", NoQuery, TRUE)
Fetch(c)      == Queue(c, "fetch", NoQuery, stmt.stmtAllocated /\ stmt.resultSetAvailable)
FetchAll(c)   == Queue(c, "fetchAll", NoQuery, stmt.stmtAllocated /\ stmt.resultSetAvailable)

-----------------------------------------------------------------------------
(* The workers on the pool *)

InPool(c) == calls[c].pc \in {"cli", "bind", "fetching"}

\* A free pool thread takes the head of the queue.
Start(c) ==
    /\ queue # <<>> /\ c = Head(queue)
    /\ Cardinality({d \in Calls : InPool(d)}) < PoolSize
    /\ queue' = Tail(queue)
    /\ calls' = [calls EXCEPT ![c].pc =
                    IF calls[c].op = "fetchAll" THEN "fetching" ELSE "cli"]
    /\ UNCHANGED <<stmt, inCallback, reply, hist>>

Worker(c, pc, s, rc, err) ==
    /\ stmt' = s
    /\ calls' = [calls EXCEPT ![c].pc = pc, ![c].rc = rc, ![c].err = err]
    /\ UNCHANGED <<queue, inCallback, reply, hist>>

\* returnErrMsg: the diagnostics of a dropped handle cannot be read, and the
\* message is then whatever an uninitialized buffer holds, possibly empty;
\* node-addon-api takes an empty message for success.
MessageSet(s) == IF s.live THEN {TRUE} ELSE BOOLEAN

\* Mutation of ExecAsyncWorkerExec: it goes on after SetError().
ExecAsyncWorkerExecGoesOn(c) ==
    /\ calls[c].pc = "cli" /\ calls[c].op = "exec"
    /\ \E f \in Fault({"exec", "no_data"}) :
       Worker(c, "bind", ExecDirect(stmt, calls[c].q, f), ExecRc(stmt, calls[c].q, f), FALSE)

ExecAsyncWorkerExec(c) ==
    /\ calls[c].pc = "cli" /\ calls[c].op = "exec"
    /\ \E f \in Fault({"exec", "no_data"}) :
       LET q  == calls[c].q
           rc == ExecRc(stmt, q, f)
           s1 == ExecDirect(stmt, q, f)
       IN  IF rc \in {"success", "no_data"} THEN Worker(c, "bind", s1, rc, FALSE)
           ELSE \E set \in MessageSet(stmt) : Worker(c, "done", s1, rc, set)

\* An error without a message falls through to SQLNumResultCols.
ExecuteAsyncWorkerExec(c) ==
    /\ calls[c].pc = "cli" /\ calls[c].op = "execute"
    /\ \E f \in Fault({"exec", "no_data"}) :
       LET q  == stmt.prepared
           rc == ExecRc(stmt, q, f)
           s1 == Executed(stmt, q, f)
       IN  IF rc \in {"success", "no_data"} THEN Worker(c, "bind", s1, rc, FALSE)
           ELSE \E set \in MessageSet(stmt) :
                Worker(c, IF set THEN "done" ELSE "bind", s1, rc, set)

PrepareAsyncWorkerExec(c) ==
    /\ calls[c].pc = "cli" /\ calls[c].op = "prepare"
    /\ \E f \in Fault({"exec"}) :
       LET rc == ExecRc(stmt, calls[c].q, f)
           s1 == SQLPrepare(stmt, calls[c].q, f)
       IN  IF rc = "success" THEN Worker(c, "done", s1, rc, FALSE)
           ELSE \E set \in MessageSet(stmt) : Worker(c, "done", s1, rc, set)

\* A failed bindColData() is reported; else the rows are fetched at once.
ExecAsyncWorkerBind(c) ==
    /\ calls[c].pc = "bind" /\ calls[c].op = "exec"
    /\ \E f \in Fault({"describe", "bind"}) :
       LET s1 == BindResult(stmt, f)
       IN  Worker(c, IF s1.colCount > 0 /\ ~BindFailed(s1) THEN "fetching" ELSE "done",
                  s1, calls[c].rc, BindFailed(s1))

\* A failed bindColData() returns without SetError.
ExecuteAsyncWorkerBind(c) ==
    /\ calls[c].pc = "bind" /\ calls[c].op = "execute"
    /\ \E f \in Fault({"describe", "bind"}) :
       Worker(c, "done", BindResult(stmt, f), calls[c].rc, FALSE)

\* Mutation of WorkerFetchData: fetchAll ignores the code as well.
WorkerFetchDataIgnoresError(c) ==
    /\ calls[c].pc = "fetching"
    /\ \E f \in Fault({"fetch"}) :
       LET rc == FetchRc(stmt, f)
           s1 == SQLFetch(stmt, f)
       IN  IF rc = "success" THEN Worker(c, "fetching", PushRow(s1), calls[c].rc, FALSE)
           ELSE Worker(c, "done", s1, rc, FALSE)

\* One SQLFetch of fetchData().  fetchAll turns SQL_ERROR into an error, exec
\* ignores the code that ended the loop.
WorkerFetchData(c) ==
    /\ calls[c].pc = "fetching"
    /\ \E f \in Fault({"fetch"}) :
       LET rc == FetchRc(stmt, f)
           s1 == SQLFetch(stmt, f)
       IN  IF rc = "success" THEN Worker(c, "fetching", PushRow(s1), calls[c].rc, FALSE)
           ELSE Worker(c, "done", s1, rc, rc = "error" /\ calls[c].op = "fetchAll")

\* Mutation of FetchAsyncWorkerExec: the cursor is positioned on the next row
\* first, although the client gave no orientation.
FetchAsyncWorkerExecScrolls(c) ==
    /\ calls[c].pc = "cli" /\ calls[c].op = "fetch"
    /\ \E f \in Fault({"fetch"}) :
       LET s1 == SQLFetch(stmt, f)
           rc == FetchRc(s1, f)
       IN  Worker(c, "done", SQLFetch(s1, f), rc, rc = "error")

FetchAsyncWorkerExec(c) ==
    /\ calls[c].pc = "cli" /\ calls[c].op = "fetch"
    /\ \E f \in Fault({"fetch"}) :
       LET rc == FetchRc(stmt, f)
       IN  Worker(c, "done", SQLFetch(stmt, f), rc, rc = "error")

-----------------------------------------------------------------------------
(* OnOK() and OnError() on the main thread *)

\* Mutation of Deliver: a worker with an error has no callback.
DeliverOnlySuccess(c) ==
    /\ calls[c].pc = "done" /\ ~inCallback /\ ~calls[c].err
    /\ calls' = [calls EXCEPT ![c] = Idle]
    /\ UNCHANGED <<queue, inCallback, stmt, reply, hist>>

Settle(c) ==
    /\ calls[c].pc = "done" /\ ~inCallback
    /\ calls' = [calls EXCEPT ![c] = Idle]
    /\ UNCHANGED <<queue, inCallback>>

OnError(c) ==
    /\ Settle(c) /\ calls[c].err
    /\ Return(stmt, Failure(calls[c].op, stmt))

OnOK(c, op) == Settle(c) /\ calls[c].op = op /\ ~calls[c].err

\* Whether there are rows to hand over is read from the object, not from the
\* worker.
ExecOnOK(c) ==
    /\ OnOK(c, "exec")
    /\ IF stmt.colCount = 0 THEN Return(stmt, Value("exec", stmt, <<>>))
       ELSE Return(BuildJsObject(stmt), Value("exec", stmt, stmt.resultSetInC))

PrepareOnOK(c) == OnOK(c, "prepare") /\ Return(stmt, Value("prepare", stmt, <<>>))

ExecuteOnOK(c) == OnOK(c, "execute") /\ Return(stmt, Value("execute", stmt, <<>>))

\* The row is read now, and also at the end of the data.
FetchOnOK(c) ==
    /\ OnOK(c, "fetch")
    /\ Return(ReadRow(stmt),
              Answer("fetch", "value", stmt, <<BoundRow(stmt)>>, calls[c].rc))

FetchAllOnOK(c) ==
    /\ OnOK(c, "fetchAll")
    /\ Return(BuildJsObject(stmt), Value("fetchAll", stmt, stmt.resultSetInC))

Deliver(c) ==
    \/ OnError(c) \/ ExecOnOK(c) \/ PrepareOnOK(c) \/ ExecuteOnOK(c)
    \/ FetchOnOK(c) \/ FetchAllOnOK(c)

-----------------------------------------------------------------------------

\* A statement just constructed on a connected DbConn.
Init ==
    /\ stmt = [stmtAllocated |-> TRUE, resultSetAvailable |-> FALSE,
               colDescAllocated |-> FALSE, bindingRowAllocated |-> FALSE,
               colCount |-> 0, dbColumn |-> NoShape, descN |-> 0,
               bindingRow |-> NoRow, bindingN |-> 0, resultSetInC |-> <<>>,
               live |-> TRUE, prepared |-> NoQuery, open |-> NoShape,
               rest |-> <<>>, pos |-> 0, run |-> 0, bound |-> "none",
               misuse |-> {}]
    /\ queue = <<>>
    /\ calls = [c \in Calls |-> Idle]
    /\ inCallback = FALSE
    /\ reply = [op |-> "none", kind |-> "none", rows |-> <<>>,
                rc |-> "success", shape |-> NoShape]
    /\ delivered = <<>> /\ failed = {}

SyncCall ==
    \/ \E q \in Queries, cb \in BOOLEAN : ExecSync(q, cb)
    \/ ExecSyncReturn
    \/ \E q \in Queries : PrepareSync(q)
    \/ ExecuteSync
    \/ FetchSync
    \/ \E cb \in BOOLEAN : FetchAllSync(cb)
    \/ NextResult
    \/ CloseCursor
    \/ Close
    \/ NumFields
    \/ \E sh \in Shapes : \E i \in 0..Cols[sh] : FieldValue(i) \/ FieldInfo(i)
    \/ SetStmtAttr \/ GetStmtAttr \/ NumRows \/ StmtError

AsyncCall(c) ==
    \/ \E q \in Queries : Exec(c, q) \/ Prepare(c, q)
    \/ Execute(c) \/ Fetch(c) \/ FetchAll(c)

WorkerStep(c) ==
    \/ Start(c)
    \/ ExecAsyncWorkerExec(c) \/ ExecuteAsyncWorkerExec(c)
    \/ PrepareAsyncWorkerExec(c) \/ FetchAsyncWorkerExec(c)
    \/ ExecAsyncWorkerBind(c) \/ ExecuteAsyncWorkerBind(c) \/ WorkerFetchData(c)

Next ==
    \/ SyncCall
    \/ \E c \in Calls : AsyncCall(c) \/ WorkerStep(c) \/ Deliver(c)

Spec == Init /\ [][Next]_vars

\* Pool threads and the event loop run on; the client owes nothing.
Fairness == /\ \A c \in Calls : WF_vars(WorkerStep(c)) /\ WF_vars(Deliver(c))
            /\ WF_vars(ExecSyncReturn)

FairSpec == Spec /\ Fairness
-----------------------------------------------------------------------------
(* Properties *)

\* bindColData() skips SQLDescribeCol when colDescAllocated is set and frees
\* the old row when bindingRowAllocated is set, so a bound row must never
\* outlive the descriptions its fields are decoded with, through any sequence
\* of methods and failing CLI calls (dbstmt.cc:2252-2384).
BoundRowIsDescribed == stmt.bindingRowAllocated => stmt.colDescAllocated

\* The checks of resultSetAvailable in fetch, fetchAll, numFields and the
\* field methods stand in for a check of the handle: the flag never survives
\* the handle, unless a method that makes no check was called on a closed
\* statement (dbstmt.cc:1837-1838).
ResultSetNeedsHandle ==
    stmt.resultSetAvailable /\ "handle" \notin stmt.misuse
        => stmt.stmtAllocated /\ stmt.live

\* A row is handed over at most once, whatever mixture of exec, fetch and
\* fetchAll drains the result sets and whichever SQLFetch fails: rows a failed
\* call keeps in resultSetInC are not fetched again (dbstmt.cc:2386-2550).
RowOnce ==
    \A i, j \in DOMAIN delivered :
        i # j /\ delivered[i] = delivered[j] => delivered[i] = NoRow

\* The rows of a result set arrive in its order and without a gap, whichever
\* methods fetch them, as long as none of those reported an error.
RowsInOrder ==
    \A i \in DOMAIN delivered :
        LET row    == delivered[i]
            before == {j \in 1..(i - 1) : delivered[j].run = row.run}
        IN  row.run \in 1..stmt.run \ failed =>
            /\ \A j \in before : delivered[j].pos < row.pos
            /\ row.pos > 1 => \E j \in before : delivered[j].pos = row.pos - 1

\* When a fetch reports the end of the data, or a fetchAll returns without an
\* error, the client has been given every row of the result set, unless a
\* fetch of it failed before.
EndMeansAll ==
    /\ reply.kind = "value" /\ reply.op \in FetchOps
    /\ reply.op \in {"fetchAll", "fetchAllSync"} \/ reply.rc = "no_data"
    /\ stmt.run \notin failed
    => \A p \in 1..NRows : \E i \in DOMAIN delivered :
           delivered[i].run = stmt.run /\ delivered[i].pos = p

\* Rows of an earlier result set are handed over only if a fetch of that
\* result set had failed: nothing else leaves rows behind in resultSetInC.
OnlyFailuresLeaveRows ==
    \A i \in DOMAIN stmt.resultSetInC :
        stmt.resultSetInC[i].run # stmt.run => stmt.resultSetInC[i].run \in failed

\* Nothing that was freed or never allocated is read, written or freed again.
MemorySafe == stmt.misuse \subseteq {"handle"}

\* "If you want to reuse the dbstmt object, please call closeCursor before
\* calling exec or prepare for another SQL statement" (docs/README.md:1089):
\* a row is decoded with the descriptions of its own result set.
RowsDecodedByOwnShape ==
    \A i \in DOMAIN reply.rows : reply.rows[i].shape = reply.shape

\* "If an error occured or there is nothing to fetch row is set to null"
\* (docs/README.md:1135): no row comes with the end of the data.
NothingAtEnd == reply.rc = "no_data" => reply.rows = <<>>

-----------------------------------------------------------------------------
(* Rows, as the client sees them *)

Seen(row) == [run |-> row.run, pos |-> row.pos]
SeenRows(rows) == [i \in DOMAIN rows |-> Seen(rows[i])]

\* A fetch has its row and its callback is due.
FetchInHand == \E c \in Calls : /\ calls[c].op = "fetch" /\ calls[c].pc = "done"
                               /\ calls[c].rc = "success" /\ ~calls[c].err

Cursor == INSTANCE ResultSets WITH
              run    <- stmt.run,
              pos    <- stmt.pos,
              buffer <- SeenRows(stmt.resultSetInC),
              hand   <- IF FetchInHand THEN <<Seen(BoundRow(stmt))>> ELSE <<>>,
              handed <- SeenRows(delivered),
              failed <- failed

\* A client that waits for its calls sees every result set as rows read in
\* order and handed over once, whatever methods read them, and rows stay
\* behind or are lost only where a fetch reported an error
\* (dbstmt.cc:2386-2550, 2899-2939).
CursorView == Cursor!Spec

-----------------------------------------------------------------------------
(* Clients whose calls overlap *)

\* A client that lets calls overlap, but only of methods that neither close
\* the cursor nor use its rows, with statements that all open one: the open
\* cursor makes the CLI refuse every exec and execute after the first.
CursorClient ==
    /\ Ops \subseteq {"exec", "execute", "prepare", "prepareSync", "setStmtAttr",
                      "getStmtAttr", "numRows", "stmtError"}
    /\ \A q \in Queries : Results[q] # <<>>

\* Every accepted call gets its callback, also when a CLI call of it fails or
\* other calls keep being made (dbstmt.cc:317-349).
CallsAnswered ==
    \A c \in Calls : calls[c].pc = "queued" ~> calls[c].pc = "idle"
=============================================================================
