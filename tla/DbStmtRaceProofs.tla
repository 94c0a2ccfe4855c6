-------------------------- MODULE DbStmtRaceProofs --------------------------
(***************************************************************************)
(* Clients that never make two threads use the memory of a statement at    *)
(* once: those that wait for each call, and those that let calls overlap   *)
(* but leave the cursor open.                                              *)
(***************************************************************************)
EXTENDS DbStmtRaces, DbStmtRowSteps

LEMMA RaceStepIsStep ==
    ASSUME [RaceNext]_racyVars
    PROVE  [Next]_vars
  BY DEF RaceNext, racyVars, Next

-----------------------------------------------------------------------------
(* A client that waits *)

\* One call is outstanding, so what used the memory is that call.
WaitInv ==
    /\ RInv /\ Alone /\ RaceTypeOK
    /\ touched \subseteq Outstanding /\ beside = {} /\ raced = FALSE

LEMMA WaitStep ==
    ASSUME ~MayOverlap, WaitInv, [RaceNext]_racyVars
    PROVE  WaitInv'
  <1>1. RInv' /\ RowStep /\ Alone'
    BY RaceStepIsStep, NextKeepsRInv, RowStepAlone DEF WaitInv
  <1>2. CASE UNCHANGED racyVars
    BY <1>1, <1>2 DEF racyVars, vars, order, WaitInv, RaceTypeOK, Outstanding
  <1>3. CASE SyncCall /\ SyncOrder
    <2>1. Outstanding = {}
      <3>1. CASE inCallback
        BY <3>1 DEF WaitInv, Alone
      <3>2. CASE ~inCallback
        BY <1>3, <3>2 DEF SyncCall, ExecSync, ExecSyncReturn, PrepareSync, ExecuteSync,
           FetchSync, FetchAllSync, NextResult, CloseCursor, Close, NumFields, FieldValue,
           FieldInfo, ColumnEntry, SetStmtAttr, GetStmtAttr, NumRows, StmtError,
           HandleCall, MainCall
      <3>. QED  BY <3>1, <3>2
    <2>2. touched' = {} /\ beside' = {} /\ raced' = FALSE
      BY <1>3, <2>1 DEF SyncOrder, ByMain, order, WaitInv
    <2>. QED  BY <1>1, <2>2 DEF WaitInv, RaceTypeOK
  <1>4. ASSUME NEW c \in Calls, AsyncCall(c), AsyncOrder(c)
        PROVE  WaitInv'
    <2>1. Outstanding = {}
      BY <1>4 DEF AsyncCall, Exec, Prepare, Execute, Fetch, FetchAll, Queue
    <2>2. touched' = {} /\ beside' = {} /\ raced' = FALSE
      BY <1>4, <2>1 DEF AsyncOrder, WaitInv
    <2>. QED  BY <1>1, <2>2 DEF WaitInv, RaceTypeOK
  <1>5. ASSUME NEW c \in Calls, WorkerStep(c), WorkerOrder(c)
        PROVE  WaitInv'
    <2>1. calls[c].pc \in {"queued", "cli", "bind", "fetching"} /\ calls'[c].pc # "idle"
          /\ Others(c)
      <3>1. WorkerKinds(c)
        BY <1>5, WorkerRows DEF WaitInv, RInv, IInv
      <3>. QED  BY <3>1, WorkerKindsOfRows DEF WorkerKinds, Starting, Executing, Preparing,
                BindsColumns, FetchesRow, HoldsRow, Becomes
    <2>2. Outstanding \ {c} = {} /\ c \in Outstanding
      BY <2>1, OnlyOne DEF Outstanding, WaitInv
    <2>3. touched' \subseteq {c} /\ beside' = {} /\ raced' = FALSE
      BY <1>5, <2>2 DEF WorkerOrder, ByWorker, order, WaitInv
    <2>4. c \in Outstanding'
      BY <2>1 DEF Outstanding
    <2>. QED  BY <1>1, <2>3, <2>4 DEF WaitInv, RaceTypeOK
  <1>6. ASSUME NEW c \in Calls, Deliver(c), DeliverOrder(c)
        PROVE  WaitInv'
    <2>1. calls[c].pc # "idle"
      BY <1>6, DeliverMoves DEF WaitInv, RInv, IInv, TypeOK, CallsType
    <2>2. Outstanding \ {c} = {}
      BY <2>1, OnlyOne DEF Outstanding, WaitInv
    <2>3. touched' = {} /\ beside' = {} /\ raced' = FALSE
      BY <1>6, <2>2 DEF DeliverOrder, ByMain, WaitInv
    <2>. QED  BY <1>1, <2>3 DEF WaitInv, RaceTypeOK
  <1>. QED  BY <1>2, <1>3, <1>4, <1>5, <1>6 DEF RaceNext

-----------------------------------------------------------------------------
(* A client that leaves the cursor open *)

SameCursor(s, t) == t.open = s.open /\ t.live = s.live

LEMMA OnHandleCursor ==
    ASSUME NEW s, s \in Stmt
    PROVE  SameCursor(s, OnHandle(s))
  BY DEF Stmt, OnHandle, SameCursor

LEMMA SQLPrepareCursor ==
    ASSUME NEW s, s \in Stmt, NEW q, NEW f
    PROVE  SameCursor(s, SQLPrepare(s, q, f)) /\ SQLPrepare(s, q, f).pos = s.pos
  BY DEF Stmt, SQLPrepare, OnHandle, SameCursor

LEMMA BindColDataCursor ==
    ASSUME NEW s, Good(s), NEW f
    PROVE  SameCursor(s, BindColData(s, f))
  <1>. DEFINE s1 == IF s.bindingRowAllocated THEN FreeBindingRow(s) ELSE s
              s2 == IF s1.colDescAllocated THEN s1
                    ELSE PopulateColumnDescriptions(s1, f)
  <1>1. SameCursor(s, s1) /\ Good(s1) /\ ~s1.bindingRowAllocated
    <2>1. SameCursor(s, s1)
      BY DEF Good, Stmt, FreeBindingRow, SameCursor
    <2>. QED  BY <2>1, FreeBindingRowGood DEF Good, Stmt
  <1>. HIDE DEF s1
  <1>2. SameCursor(s1, s2) /\ Good(s2)
    <2>1. SameCursor(s1, s2)
      BY <1>1 DEF Good, Stmt, PopulateColumnDescriptions, SameCursor
    <2>. QED  BY <1>1, <2>1, PopulateGood
  <1>3. BindColData(s, f) = IF s2.colDescAllocated THEN BindRow(s2, f) ELSE s2
    BY DEF BindColData, s1
  <1>. HIDE DEF s2
  <1>4. SameCursor(s2, BindRow(s2, f))
    <2>. DEFINE r1 == [s2 EXCEPT !.bindingN = s2.colCount, !.bindingRow = NoRow,
                                 !.misuse = @ \cup ColumnsMisuse(s2)]
    <2>1. SameCursor(s2, r1) /\ r1 \in Stmt
      BY <1>2, NoRowType, ColumnsMisuseType DEF Good, Stmt, SameCursor
    <2>2. BindRow(s2, f) =
            IF ~s2.live \/ f = "bind"
            THEN [r1 EXCEPT !.bindingRowAllocated = FALSE,
                            !.bound = IF s2.live THEN "freed" ELSE @]
            ELSE [r1 EXCEPT !.bindingRowAllocated = TRUE, !.bound = "row"]
      BY DEF BindRow
    <2>. HIDE DEF r1
    <2>. QED  BY <2>1, <2>2 DEF Stmt, SameCursor
  <1>. QED  BY <1>1, <1>2, <1>3, <1>4 DEF SameCursor

LEMMA BindResultCursor ==
    ASSUME NEW s, Good(s), s.live, NEW f
    PROVE  SameCursor(s, BindResult(s, f))
  <1>. DEFINE s1 == SQLNumResultCols(s)
              s2 == [s1 EXCEPT !.resultSetAvailable = TRUE]
  <1>1. Good(s1) /\ SameCursor(s, s1)
    <2>1. SameCursor(s, s1)
      BY DEF Good, Stmt, SQLNumResultCols, SameCursor
    <2>. QED  BY <2>1, SQLNumResultColsKeeps, KeepsGood DEF Good
  <1>2. BindResult(s, f) = IF s1.colCount = 0 THEN s1 ELSE BindColData(s2, f)
    BY DEF BindResult
  <1>. HIDE DEF s1
  <1>3. Good(s2) /\ SameCursor(s1, s2)
    <2>1. Good(s2)
      BY <1>1 DEF Good, Stmt, Described, Handled, SameCursor
    <2>. QED  BY <1>1, <2>1 DEF Good, Stmt, SameCursor
  <1>. HIDE DEF s2
  <1>. QED  BY <1>1, <1>2, <1>3, BindColDataCursor DEF SameCursor

LEMMA FetchCursor ==
    ASSUME NEW s, Good(s), NEW f
    PROVE  SameCursor(s, SQLFetch(s, f)) /\ SameCursor(s, PushRow(SQLFetch(s, f)))
  <1>1. SameCursor(s, SQLFetch(s, f)) /\ Good(SQLFetch(s, f))
    <2>1. SameCursor(s, SQLFetch(s, f))
      BY DEF Good, Stmt, SQLFetch, OnHandle, SameCursor
    <2>. QED  BY <2>1, SQLFetchKeeps, KeepsGood
  <1>. DEFINE t == SQLFetch(s, f)
  <1>. HIDE DEF t
  <1>2. ASSUME Good(t)
        PROVE  SameCursor(t, PushRow(t))
    BY <1>2 DEF Good, Stmt, PushRow, SameCursor
  <1>. QED  BY <1>1, <1>2 DEF SameCursor, t

\* A statement that is executed opens a cursor; one that the CLI refuses, as it
\* does while a cursor is open, is an error and leaves everything alone.
LEMMA ExecutedCursor ==
    ASSUME CursorClient, NEW s, Good(s), s.live,
           NEW q \in Queries \cup {NoQuery}, NEW f
    PROVE  LET opened(t) == s.open = NoShape /\ t.open # NoShape /\ t.live /\ t.pos = 0
           IN  IF ExecRc(s, q, f) \in {"success", "no_data"}
               THEN opened(Executed(s, q, f)) /\ opened(ExecDirect(s, q, f))
               ELSE /\ SameCursor(s, Executed(s, q, f)) /\ Executed(s, q, f).pos = s.pos
                    /\ SameCursor(s, ExecDirect(s, q, f)) /\ ExecDirect(s, q, f).pos = s.pos
  <1>1. CASE ExecRc(s, q, f) \in {"success", "no_data"}
    <2>1. s.open = NoShape /\ q \in Queries
      BY <1>1 DEF ExecRc
    <2>2. Results[q] # <<>> /\ Results[q] \in Seq(Shapes)
      BY <2>1, ShapeAssumption DEF CursorClient
    <2>3. Head(Results[q]) \in Shapes /\ Head(Results[q]) # NoShape
      BY <2>2, ShapeAssumption
    <2>. DEFINE o == Opened(s, Results[q])
                e == [o EXCEPT !.resultSetAvailable = @ \/ (q \in Procs /\ Results[q] # <<>>)]
    <2>4. o \in Stmt /\ o.open # NoShape /\ o.live /\ o.pos = 0
      <3>1. o \in Stmt
        BY <2>2, OpenedKeeps DEF Keeps
      <3>. QED  BY <2>2, <2>3, <3>1 DEF Opened, Good, Stmt
    <2>5. Executed(s, q, f) = e /\ ExecDirect(s, q, f) = [e EXCEPT !.prepared = NoQuery]
      BY <1>1 DEF Executed, ExecDirect
    <2>. HIDE DEF o
    <2>6. e.open = o.open /\ e.live = o.live /\ e.pos = o.pos
          /\ [e EXCEPT !.prepared = NoQuery].open = o.open
          /\ [e EXCEPT !.prepared = NoQuery].live = o.live
          /\ [e EXCEPT !.prepared = NoQuery].pos = o.pos
      BY <2>4 DEF Stmt
    <2>. QED  BY <1>1, <2>1, <2>4, <2>5, <2>6
  <1>2. CASE ExecRc(s, q, f) \notin {"success", "no_data"}
    <2>1. SameCursor(s, OnHandle(s)) /\ OnHandle(s).pos = s.pos
      BY OnHandleCursor DEF OnHandle, Good, Stmt
    <2>. QED  BY <1>2, <2>1 DEF Executed, ExecDirect
  <1>. QED  BY <1>1, <1>2

\* What the steps of such a client do.
Refused(c) ==
    /\ calls[c].pc = "cli" /\ Becomes(c, "done") /\ (calls[c].op = "exec" => calls'[c].err = TRUE)
    /\ SameCursor(stmt, stmt') /\ stmt'.pos = stmt.pos
Opening1(c) ==
    /\ calls[c].pc = "cli" /\ Becomes(c, "bind")
    /\ stmt.open = NoShape /\ stmt'.open # NoShape /\ stmt'.live /\ stmt'.pos = 0
Starts1(c) == calls[c].pc = "queued" /\ Becomes(c, "cli") /\ stmt' = stmt
Uses(c) ==
    /\ calls[c].pc \in {"bind", "fetching"}
    /\ Becomes(c, "fetching") \/ Becomes(c, "done")
    /\ SameCursor(stmt, stmt')

LEMMA ExecSteps ==
    ASSUME CursorClient, TypeOK, Good(stmt), stmt.live, NEW c \in Calls,
           ExecAsyncWorkerExec(c) \/ ExecuteAsyncWorkerExec(c) \/ PrepareAsyncWorkerExec(c)
    PROVE  Refused(c) \/ Opening1(c)
  <1>0. MessageSet(stmt) = {TRUE}
    BY DEF MessageSet
  <1>1. CASE ExecAsyncWorkerExec(c)
    <2>1. PICK f :
            LET rc == ExecRc(stmt, calls[c].q, f)
                s1 == ExecDirect(stmt, calls[c].q, f)
            IN  IF rc \in {"success", "no_data"} THEN Worker(c, "bind", s1, rc, FALSE)
                ELSE \E set \in MessageSet(stmt) : Worker(c, "done", s1, rc, set)
      BY <1>1 DEF ExecAsyncWorkerExec
    <2>2. calls[c].pc = "cli" /\ calls[c].q \in Queries \cup {NoQuery}
      BY <1>1, CallFields DEF ExecAsyncWorkerExec
    <2>. DEFINE rc == ExecRc(stmt, calls[c].q, f)
                s1 == ExecDirect(stmt, calls[c].q, f)
    <2>3. IF rc \in {"success", "no_data"}
          THEN stmt.open = NoShape /\ s1.open # NoShape /\ s1.live /\ s1.pos = 0
          ELSE SameCursor(stmt, s1) /\ s1.pos = stmt.pos
      BY <2>2, ExecutedCursor
    <2>4. IF rc \in {"success", "no_data"} THEN Worker(c, "bind", s1, rc, FALSE)
          ELSE Worker(c, "done", s1, rc, TRUE)
      BY <1>0, <2>1
    <2>. HIDE DEF rc, s1
    <2>. QED  BY <2>2, <2>3, <2>4, WorkerBecomes DEF Refused, Opening1
  <1>2. CASE ExecuteAsyncWorkerExec(c)
    <2>1. PICK f :
            LET rc == ExecRc(stmt, stmt.prepared, f)
                s1 == Executed(stmt, stmt.prepared, f)
            IN  IF rc \in {"success", "no_data"} THEN Worker(c, "bind", s1, rc, FALSE)
                ELSE \E set \in MessageSet(stmt) :
                     Worker(c, IF set THEN "done" ELSE "bind", s1, rc, set)
      BY <1>2 DEF ExecuteAsyncWorkerExec
    <2>2. calls[c].pc = "cli" /\ calls[c].op = "execute" /\ stmt.prepared \in Queries \cup {NoQuery}
      BY <1>2 DEF ExecuteAsyncWorkerExec, Good, Stmt
    <2>. DEFINE rc == ExecRc(stmt, stmt.prepared, f)
                s1 == Executed(stmt, stmt.prepared, f)
    <2>3. IF rc \in {"success", "no_data"}
          THEN stmt.open = NoShape /\ s1.open # NoShape /\ s1.live /\ s1.pos = 0
          ELSE SameCursor(stmt, s1) /\ s1.pos = stmt.pos
      BY <2>2, ExecutedCursor
    <2>4. IF rc \in {"success", "no_data"} THEN Worker(c, "bind", s1, rc, FALSE)
          ELSE Worker(c, "done", s1, rc, TRUE)
      BY <1>0, <2>1
    <2>. HIDE DEF rc, s1
    <2>. QED  BY <2>2, <2>3, <2>4, WorkerBecomes DEF Refused, Opening1
  <1>3. CASE PrepareAsyncWorkerExec(c)
    <2>1. PICK f, rc, err : Worker(c, "done", SQLPrepare(stmt, calls[c].q, f), rc, err)
      BY <1>3 DEF PrepareAsyncWorkerExec
    <2>2. calls[c].pc = "cli" /\ calls[c].op = "prepare"
      BY <1>3 DEF PrepareAsyncWorkerExec
    <2>. QED  BY <2>1, <2>2, SQLPrepareCursor, WorkerBecomes DEF Refused, Good
  <1>. QED  BY <1>1, <1>2, <1>3

LEMMA UseSteps ==
    ASSUME TypeOK, Good(stmt), stmt.live, NEW c \in Calls,
           ExecAsyncWorkerBind(c) \/ ExecuteAsyncWorkerBind(c) \/ WorkerFetchData(c)
    PROVE  Uses(c)
  <1>1. CASE ExecAsyncWorkerBind(c)
    <2>1. PICK f :
            LET s1 == BindResult(stmt, f)
            IN  Worker(c, IF s1.colCount > 0 /\ ~BindFailed(s1) THEN "fetching" ELSE "done",
                       s1, calls[c].rc, BindFailed(s1))
      BY <1>1 DEF ExecAsyncWorkerBind
    <2>. DEFINE s1 == BindResult(stmt, f)
                pc == IF s1.colCount > 0 /\ ~BindFailed(s1) THEN "fetching" ELSE "done"
    <2>2. calls[c].pc = "bind" /\ SameCursor(stmt, s1)
      BY <1>1, BindResultCursor DEF ExecAsyncWorkerBind
    <2>3. pc \in {"fetching", "done"}
      OBVIOUS
    <2>4. Worker(c, pc, s1, calls[c].rc, BindFailed(s1))
      BY <2>1
    <2>. HIDE DEF pc, s1
    <2>. QED  BY <2>2, <2>3, <2>4, WorkerBecomes DEF Uses
  <1>2. CASE ExecuteAsyncWorkerBind(c)
    <2>1. PICK f : Worker(c, "done", BindResult(stmt, f), calls[c].rc, FALSE)
      BY <1>2 DEF ExecuteAsyncWorkerBind
    <2>2. calls[c].pc = "bind"
      BY <1>2 DEF ExecuteAsyncWorkerBind
    <2>. QED  BY <2>1, <2>2, BindResultCursor, WorkerBecomes DEF Uses
  <1>3. CASE WorkerFetchData(c)
    <2>1. PICK f :
            LET rc == FetchRc(stmt, f)
                s1 == SQLFetch(stmt, f)
            IN  IF rc = "success" THEN Worker(c, "fetching", PushRow(s1), calls[c].rc, FALSE)
                ELSE Worker(c, "done", s1, rc, rc = "error" /\ calls[c].op = "fetchAll")
      BY <1>3 DEF WorkerFetchData
    <2>. DEFINE rc == FetchRc(stmt, f)
                s1 == SQLFetch(stmt, f)
                s2 == PushRow(s1)
    <2>2. calls[c].pc = "fetching" /\ SameCursor(stmt, s1) /\ SameCursor(stmt, s2)
      BY <1>3, FetchCursor DEF WorkerFetchData
    <2>3. \/ Worker(c, "fetching", s2, calls[c].rc, FALSE)
          \/ Worker(c, "done", s1, rc, rc = "error" /\ calls[c].op = "fetchAll")
      BY <2>1
    <2>. HIDE DEF rc, s1, s2
    <2>. QED  BY <2>2, <2>3, WorkerBecomes DEF Uses
  <1>. QED  BY <1>1, <1>2, <1>3

LEMMA CursorWorkers ==
    ASSUME CursorClient, RInv, stmt.live, NEW c \in Calls, WorkerStep(c)
    PROVE  Starts1(c) \/ Refused(c) \/ Opening1(c) \/ Uses(c)
  <1>0. TypeOK /\ Good(stmt) /\ Sane(c)
    BY DEF RInv, IInv
  <1>1. CASE Start(c)
    <2>1. Starting(c)
      BY <1>0, <1>1, StartRows DEF RInv
    <2>2. calls[c].op # "fetchAll"
      BY <1>0, <2>1 DEF Starting, Sane, CursorClient
    <2>3. stmt' = stmt
      BY <1>1 DEF Start
    <2>. QED  BY <2>1, <2>2, <2>3 DEF Starting, Starts1
  <1>2. ~FetchAsyncWorkerExec(c)
    BY <1>0 DEF FetchAsyncWorkerExec, Sane, CursorClient
  <1>. QED  BY <1>0, <1>1, <1>2, ExecSteps, UseSteps DEF WorkerStep

LEMMA CursorMethods ==
    ASSUME CursorClient, TypeOK, stmt.live, ~inCallback, SyncCall
    PROVE  SyncOrder => UNCHANGED order /\ SameCursor(stmt, stmt') /\ ~inCallback'
  <1>0. stmt \in Stmt
    BY DEF TypeOK
  <1>1. ASSUME NEW op, NEW t, NEW r, r.op = op, SameCursor(stmt, t),
               Return(t, r)
        PROVE  reply'.op = op /\ SameCursor(stmt, stmt')
    BY <1>1 DEF Return, SameCursor
  <1>2. ASSUME NEW q \in Queries, PrepareSync(q)
        PROVE  reply'.op = "prepareSync" /\ SameCursor(stmt, stmt') /\ inCallback' = inCallback
    <2>1. CASE stmt.stmtAllocated
      <3>1. PICK f : LET s1 == SQLPrepare(stmt, q, f)
                     IN  Return(s1, IF ExecRc(stmt, q, f) = "success"
                                    THEN Value("prepareSync", s1, <<>>)
                                    ELSE Failure("prepareSync", s1))
        BY <1>2, <2>1 DEF PrepareSync, Checked
      <3>. DEFINE s1 == SQLPrepare(stmt, q, f)
                  r  == IF ExecRc(stmt, q, f) = "success"
                        THEN Value("prepareSync", s1, <<>>) ELSE Failure("prepareSync", s1)
      <3>2. r.op = "prepareSync"
        BY DEF Value, Failure, Answer
      <3>3. SameCursor(stmt, s1) /\ Return(s1, r)
        BY <1>0, <3>1, SQLPrepareCursor
      <3>. HIDE DEF s1, r
      <3>. QED  BY <1>1, <1>2, <3>2, <3>3 DEF PrepareSync
    <2>2. CASE ~stmt.stmtAllocated
      <3>1. Rejected("prepareSync") /\ inCallback' = inCallback
        BY Zenon, <1>2, <2>2 DEF PrepareSync, Checked
      <3>. QED  BY <3>1 DEF Rejected, Failure, Answer, SameCursor
    <2>. QED  BY <2>1, <2>2
  <1>4. ASSUME NEW op, NEW kinds, HandleCall(op, kinds)
        PROVE  reply'.op = op /\ SameCursor(stmt, stmt') /\ inCallback' = inCallback
    <2>1. CASE stmt.stmtAllocated
      <3>1. PICK kind \in kinds :
              Return(OnHandle(stmt), Answer(op, kind, stmt, <<>>,
                                            IF kind = "error" THEN "error" ELSE "success"))
        BY <1>4, <2>1 DEF HandleCall, Checked
      <3>. QED  BY <1>0, <1>1, <1>4, <3>1, OnHandleCursor DEF HandleCall, Answer
    <2>2. CASE ~stmt.stmtAllocated
      <3>1. Rejected(op) /\ inCallback' = inCallback
        BY Zenon, <1>4, <2>2 DEF HandleCall, Checked
      <3>. QED  BY <3>1 DEF Rejected, Failure, Answer, SameCursor
    <2>. QED  BY <2>1, <2>2
  <1>3. \/ \E q \in Queries : PrepareSync(q)
        \/ SetStmtAttr \/ GetStmtAttr \/ NumRows \/ StmtError
    BY DEF SyncCall, ExecSync, ExecSyncReturn, ExecuteSync, FetchSync, FetchAllSync,
       NextResult, CloseCursor, Close, NumFields, FieldValue, FieldInfo, ColumnEntry,
       MainCall, CursorClient
  <1>5. reply'.op \in QuietOps /\ SameCursor(stmt, stmt') /\ inCallback' = inCallback
    BY <1>2, <1>3, <1>4 DEF SetStmtAttr, GetStmtAttr, NumRows, StmtError, QuietOps
  <1>. QED  BY <1>5 DEF SyncOrder

\* The calls whose worker or callback has used, or will use, the memory.
Users ==
    {c \in Calls : \/ c \in touched \/ calls[c].pc \in {"bind", "fetching"}
                   \/ calls[c].pc = "done" /\ calls[c].op = "exec" /\ ~calls[c].err}

\* The first call that opens the cursor is the only one of them, for good.
CursorInv ==
    /\ RInv /\ RaceTypeOK /\ raced = FALSE /\ ~inCallback /\ stmt.live
    /\ \A c \in touched : calls[c].pc # "idle"
    /\ \A c, d \in Users : c = d
    /\ beside \cap Users = {}
    /\ Users # {} \/ beside # {} => stmt.open # NoShape

LEMMA UsersOfOthers ==
    ASSUME NEW c \in Calls, Others(c), touched' \ {c} \subseteq touched
    PROVE  Users' \ {c} \subseteq Users
  BY DEF Users, Others

LEMMA CursorMethodStep ==
    ASSUME CursorClient, CursorInv, RInv', SyncCall, SyncOrder
    PROVE  CursorInv'
  <1>1. UNCHANGED order /\ SameCursor(stmt, stmt') /\ ~inCallback'
    BY CursorMethods DEF CursorInv, RInv, IInv
  <1>2. calls' = calls
    BY SyncLeavesCalls
  <1>3. Users' = Users
    BY <1>1, <1>2 DEF Users, order
  <1>. QED  BY <1>1, <1>2, <1>3 DEF CursorInv, RaceTypeOK, SameCursor, order

LEMMA CursorQueueStep ==
    ASSUME CursorInv, RInv', NEW c \in Calls, AsyncCall(c), AsyncOrder(c)
    PROVE  CursorInv'
  <1>1. Queueing(c)
    BY AsyncRows DEF CursorInv, RInv, IInv
  <1>2. stmt' = stmt /\ ~inCallback' /\ touched' = touched /\ raced' = raced
    BY <1>1 DEF Queueing, AsyncOrder, CursorInv
  <1>3. /\ Users' = Users
        /\ \A d \in touched' : calls'[d].pc # "idle"
        /\ beside' \cap Users' = {}
    <2>1. CASE UNCHANGED calls
      <3>1. calls'[c].pc = "idle"
        BY <2>1 DEF AsyncCall, Exec, Prepare, Execute, Fetch, FetchAll, Queue
      <3>2. beside' = beside /\ Users' = Users
        BY <1>2, <2>1, <3>1 DEF AsyncOrder, Users
      <3>. QED  BY <1>2, <2>1, <3>2 DEF CursorInv
    <2>2. CASE calls[c].pc = "idle" /\ calls'[c].pc = "queued" /\ Others(c)
      <3>1. c \notin touched
        BY <2>2 DEF CursorInv
      <3>2. Users' = Users /\ c \notin Users
        BY <1>2, <2>2, <3>1 DEF Users, Others
      <3>3. beside' \subseteq beside \cup {c}
        BY DEF AsyncOrder
      <3>4. \A d \in touched' : calls'[d].pc # "idle"
        BY <1>2, <2>2, <3>1 DEF Others, CursorInv, RaceTypeOK
      <3>. QED  BY <3>2, <3>3, <3>4 DEF CursorInv
    <2>. QED  BY <1>1, <2>1, <2>2 DEF Queueing
  <1>4. beside' # {} => Users # {} \/ beside # {}
    BY DEF AsyncOrder, Users, CursorInv, RaceTypeOK
  <1>. QED  BY <1>2, <1>3, <1>4 DEF CursorInv, RaceTypeOK, AsyncOrder

LEMMA CursorWorkerStep ==
    ASSUME CursorClient, CursorInv, RInv', NEW c \in Calls, WorkerStep(c), WorkerOrder(c)
    PROVE  CursorInv'
  <1>0. Starts1(c) \/ Refused(c) \/ Opening1(c) \/ Uses(c)
    BY CursorWorkers DEF CursorInv
  <1>00. stmt.pos \in Nat
    BY DEF CursorInv, RInv, IInv, TypeOK, Stmt
  <1>1. CASE Starts1(c) \/ Refused(c)
    <2>1. UNCHANGED order /\ SameCursor(stmt, stmt') /\ ~inCallback' /\ Others(c)
      <3>1. calls[c].pc # "bind" /\ ~(stmt'.pos > stmt.pos)
        BY <1>00, <1>1 DEF Starts1, Refused
      <3>2. UNCHANGED order
        BY <3>1 DEF WorkerOrder
      <3>3. Others(c)
        BY <1>1 DEF Starts1, Refused, Becomes
      <3>4. SameCursor(stmt, stmt')
        BY <1>1 DEF Starts1, Refused, SameCursor
      <3>5. ~inCallback'
        BY <3>3 DEF Others, CursorInv
      <3>. QED  BY <3>2, <3>3, <3>4, <3>5
    <2>2. calls'[c].pc # "idle"
      BY <1>1 DEF Starts1, Refused, Becomes
    <2>3. Users' \subseteq Users
      <3>1. c \in Users' => c \in Users
        BY <1>1, <2>1 DEF Users, order, Starts1, Refused, Becomes
      <3>. QED  BY <2>1, <3>1, UsersOfOthers DEF order
    <2>. QED  BY <2>1, <2>2, <2>3 DEF CursorInv, RaceTypeOK, SameCursor, order, Others
  <1>2. CASE Opening1(c)
    <2>1. UNCHANGED order /\ ~inCallback' /\ Others(c) /\ calls'[c].pc = "bind"
      BY <1>00, <1>2 DEF Opening1, WorkerOrder, Becomes, Others, CursorInv
    <2>2. Users = {} /\ beside = {}
      BY <1>2 DEF Opening1, CursorInv
    <2>3. Users' \subseteq {c}
      BY <2>1, <2>2, UsersOfOthers DEF order
    <2>. QED  BY <1>2, <2>1, <2>2, <2>3 DEF CursorInv, RaceTypeOK, Opening1, order, Others
  <1>3. CASE Uses(c)
    <2>1. /\ c \in Users /\ Others(c) /\ ~inCallback' /\ SameCursor(stmt, stmt')
          /\ calls'[c].pc # "idle"
      BY <1>3 DEF Uses, Users, Becomes, Others, CursorInv
    <2>2. Users = {c} /\ touched \subseteq {c} /\ c \notin beside
      BY <2>1 DEF CursorInv, Users, RaceTypeOK
    <2>3. /\ touched' \subseteq {c} /\ raced' = FALSE /\ c \notin beside' /\ beside' \subseteq Calls
      BY <2>2 DEF WorkerOrder, ByWorker, order, CursorInv, RaceTypeOK, Outstanding
    <2>4. Users' \subseteq {c}
      BY <2>1, <2>2, <2>3, UsersOfOthers
    <2>. QED  BY <2>1, <2>2, <2>3, <2>4 DEF CursorInv, RaceTypeOK, SameCursor
  <1>. QED  BY <1>0, <1>1, <1>2, <1>3

LEMMA CursorDeliverStep ==
    ASSUME CursorClient, CursorInv, RInv', NEW c \in Calls, Deliver(c), DeliverOrder(c)
    PROVE  CursorInv'
  <1>1. Settled(c) /\ Sane(c)
    BY DeliverRows DEF DeliverKinds, CursorInv, RInv, IInv
  <1>2. calls[c].op \notin {"fetch", "fetchAll"} /\ calls[c].pc = "done"
    BY <1>1 DEF Settled, Sane, CursorClient
  <1>3. stmt' = stmt \/ stmt' = BuildJsObject(stmt)
    BY <1>2 DEF Deliver, OnError, OnOK, ExecOnOK, PrepareOnOK, ExecuteOnOK, FetchOnOK,
       FetchAllOnOK, Return
  <1>4. SameCursor(stmt, stmt')
    BY <1>3 DEF CursorInv, RInv, IInv, TypeOK, Stmt, BuildJsObject, SameCursor
  <1>5. /\ touched' = touched \ {c} /\ c \notin beside' /\ beside' \subseteq Calls
        /\ raced' = FALSE /\ beside' \cap (Users \ {c}) = {}
        /\ beside' # {} => Users # {} \/ beside # {}
    <2>1. CASE calls[c].op = "exec" /\ ~calls[c].err
      <3>1. c \in Users
        BY <1>2, <2>1 DEF Users
      <3>2. Users = {c} /\ touched \subseteq {c}
        BY <3>1 DEF CursorInv, Users, RaceTypeOK
      <3>. QED  BY <2>1, <3>2 DEF DeliverOrder, ByMain, CursorInv, RaceTypeOK, Outstanding
    <2>2. CASE ~(calls[c].op = "exec" /\ ~calls[c].err)
      BY <1>2, <2>2 DEF DeliverOrder, CursorInv, RaceTypeOK
    <2>. QED  BY <2>1, <2>2
  <1>6. ~inCallback' /\ Others(c) /\ calls'[c].pc = "idle"
    BY <1>1 DEF Settled, Others, Idle
  <1>7. Users' \subseteq Users \ {c}
    <2>1. c \notin Users'
      BY <1>5, <1>6 DEF Users
    <2>. QED  BY <1>5, <1>6, <2>1, UsersOfOthers
  <1>8. \A d \in touched' : calls'[d].pc # "idle"
    BY <1>5, <1>6 DEF CursorInv, RaceTypeOK, Others
  <1>. QED  BY <1>4, <1>5, <1>6, <1>7, <1>8 DEF CursorInv, RaceTypeOK, SameCursor

LEMMA CursorStep ==
    ASSUME CursorClient, CursorInv, [RaceNext]_racyVars
    PROVE  CursorInv'
  <1>1. RInv'
    BY RaceStepIsStep, NextKeepsRInv DEF CursorInv
  <1>2. CASE UNCHANGED racyVars
    BY <1>1, <1>2 DEF racyVars, vars, order, CursorInv, RaceTypeOK, Users
  <1>. QED  BY <1>1, <1>2, CursorMethodStep, CursorQueueStep, CursorWorkerStep,
            CursorDeliverStep DEF RaceNext

-----------------------------------------------------------------------------

LEMMA InitRace ==
    ASSUME RaceInit
    PROVE  WaitInv /\ CursorInv
  <1>1. RInv /\ touched = {} /\ beside = {} /\ raced = FALSE
    BY InitRInv DEF RaceInit
  <1>2. Outstanding = {} /\ Users = {} /\ ~inCallback /\ stmt.live
    BY <1>1 DEF RaceInit, Init, Idle, Outstanding, Users
  <1>. QED  BY <1>1, <1>2 DEF WaitInv, CursorInv, RaceTypeOK, Alone

\* No two threads use the column descriptions, the binding row or the fetched
\* rows at once, for any number of calls and any size of the pool, when the
\* client waits for its calls and when it overlaps calls that leave the cursor
\* to the one that opened it (ExecAsyncWorker, dbstmt.cc:263-315).
THEOREM NeverRaces ==
    ASSUME ~MayOverlap \/ CursorClient
    PROVE  RaceSpec => []NoRace
  <1>1. CASE ~MayOverlap
    <2>1. WaitInv /\ [RaceNext]_racyVars => WaitInv'
      BY <1>1, WaitStep
    <2>2. WaitInv => NoRace
      BY DEF WaitInv, NoRace
    <2>. QED  BY <2>1, <2>2, InitRace, PTL DEF RaceSpec
  <1>2. CASE CursorClient
    <2>1. CursorInv /\ [RaceNext]_racyVars => CursorInv'
      BY <1>2, CursorStep
    <2>2. CursorInv => NoRace
      BY DEF CursorInv, NoRace
    <2>. QED  BY <2>1, <2>2, InitRace, PTL DEF RaceSpec
  <1>. QED  BY <1>1, <1>2
=============================================================================
