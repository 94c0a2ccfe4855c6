--------------------------- MODULE DbStmtRowSteps ---------------------------
(***************************************************************************)
(* What the steps of DbStmt do to rows.  Each method, each CLI call of a   *)
(* worker and each callback reads rows, hands rows over, opens a result    *)
(* set or leaves the rows alone (RowSteps); in a program whose client      *)
(* waits, the row of an asynchronous fetch is not disturbed between its    *)
(* worker and its callback (AloneInHand).  RInv is the invariant these     *)
(* facts need.                                                             *)
(***************************************************************************)
EXTENDS DbStmtProofs, SequenceTheorems

-----------------------------------------------------------------------------
(* The queue of calls *)

\* The queue holds exactly the calls that wait, each once.
QueueExact ==
    /\ \A c \in Calls : calls[c].pc = "queued" <=> \E i \in 1..Len(queue) : queue[i] = c
    /\ \A i, j \in 1..Len(queue) : queue[i] = queue[j] => i = j

PInv == CallsType /\ QueueExact

\* A step that only takes call c to state pc.
Moves(c, pc) ==
    \A d \in Calls : calls'[d].pc = IF d = c THEN pc ELSE calls[d].pc

-----------------------------------------------------------------------------
(* Every action moves at most one call *)

LEMMA QueueMoves ==
    ASSUME CallsType, NEW c \in Calls, NEW op, NEW q, NEW guard, Queue(c, op, q, guard)
    PROVE  \/ UNCHANGED <<queue, calls>>
           \/ calls[c].pc = "idle" /\ queue' = Append(queue, c) /\ Moves(c, "queued")
  BY DEF Queue, CallsType, Moves, Idle

LEMMA StartMoves ==
    ASSUME CallsType, NEW c \in Calls, Start(c)
    PROVE  /\ queue # <<>> /\ c = Head(queue) /\ queue' = Tail(queue)
           /\ Cardinality({d \in Calls : InPool(d)}) < PoolSize
           /\ \E pc \in {"cli", "fetching"} : Moves(c, pc)
  BY DEF Start, CallsType, Call, Moves

LEMMA WorkerMoves ==
    ASSUME CallsType, NEW c \in Calls, NEW pc, NEW s, NEW rc, NEW err,
           Worker(c, pc, s, rc, err)
    PROVE  queue' = queue /\ Moves(c, pc)
  BY DEF Worker, CallsType, Call, Moves

LEMMA WorkersMove ==
    ASSUME CallsType, NEW c \in Calls,
           \/ ExecAsyncWorkerExec(c) \/ ExecuteAsyncWorkerExec(c)
           \/ PrepareAsyncWorkerExec(c) \/ FetchAsyncWorkerExec(c)
           \/ ExecAsyncWorkerBind(c) \/ ExecuteAsyncWorkerBind(c) \/ WorkerFetchData(c)
    PROVE  /\ InPool(c) /\ queue' = queue
           /\ \E pc \in {"bind", "fetching", "done"} : Moves(c, pc)
  <1>1. CASE ExecAsyncWorkerExec(c)
    BY <1>1, WorkerMoves DEF ExecAsyncWorkerExec, InPool
  <1>2. CASE ExecuteAsyncWorkerExec(c)
    <2>1. ASSUME NEW set
          PROVE  (IF set THEN "done" ELSE "bind") \in {"bind", "done"}
      OBVIOUS
    <2>. QED  BY <1>2, <2>1, WorkerMoves DEF ExecuteAsyncWorkerExec, InPool
  <1>3. CASE PrepareAsyncWorkerExec(c)
    BY <1>3, WorkerMoves DEF PrepareAsyncWorkerExec, InPool
  <1>4. CASE FetchAsyncWorkerExec(c)
    BY <1>4, WorkerMoves DEF FetchAsyncWorkerExec, InPool
  <1>5. CASE ExecAsyncWorkerBind(c) \/ ExecuteAsyncWorkerBind(c)
    <2>1. ASSUME NEW f
          PROVE  LET s1 == BindResult(stmt, f)
                 IN  (IF s1.colCount > 0 /\ ~BindFailed(s1) THEN "fetching" ELSE "done")
                        \in {"fetching", "done"}
      OBVIOUS
    <2>. QED  BY <1>5, <2>1, WorkerMoves DEF ExecAsyncWorkerBind, ExecuteAsyncWorkerBind, InPool
  <1>6. CASE WorkerFetchData(c)
    BY <1>6, WorkerMoves DEF WorkerFetchData, InPool
  <1>. QED  BY <1>1, <1>2, <1>3, <1>4, <1>5, <1>6

LEMMA DeliverMoves ==
    ASSUME CallsType, NEW c \in Calls, Deliver(c)
    PROVE  calls[c].pc = "done" /\ queue' = queue /\ Moves(c, "idle")
  BY DEF Deliver, Settle, OnOK, OnError, ExecOnOK, PrepareOnOK, ExecuteOnOK,
     FetchOnOK, FetchAllOnOK, CallsType, Moves, Idle

\* The five kinds of step.
Stays == UNCHANGED <<queue, calls>>
Enters(c) == calls[c].pc = "idle" /\ queue' = Append(queue, c) /\ Moves(c, "queued")
Starts(c) ==
    /\ queue # <<>> /\ c = Head(queue) /\ queue' = Tail(queue)
    /\ Cardinality({d \in Calls : InPool(d)}) < PoolSize
    /\ \E pc \in {"cli", "fetching"} : Moves(c, pc)
Runs(c) ==
    /\ InPool(c) /\ queue' = queue
    /\ \E pc \in {"bind", "fetching", "done"} : Moves(c, pc)
Leaves(c) == calls[c].pc = "done" /\ queue' = queue /\ Moves(c, "idle")

LEMMA StepKinds ==
    ASSUME CallsType, [Next]_vars
    PROVE  Stays \/ \E c \in Calls : Enters(c) \/ Starts(c) \/ Runs(c) \/ Leaves(c)
  <1>1. CASE SyncCall
    BY <1>1, SyncLeavesCalls DEF Stays
  <1>2. ASSUME NEW c \in Calls, AsyncCall(c)
        PROVE  Stays \/ Enters(c)
    BY <1>2, QueueMoves DEF AsyncCall, Exec, Prepare, Execute, Fetch, FetchAll,
       Stays, Enters
  <1>3. ASSUME NEW c \in Calls, WorkerStep(c)
        PROVE  Starts(c) \/ Runs(c)
    BY <1>3, StartMoves, WorkersMove DEF WorkerStep, Starts, Runs
  <1>4. ASSUME NEW c \in Calls, Deliver(c)
        PROVE  Leaves(c)
    BY <1>4, DeliverMoves DEF Leaves
  <1>5. CASE UNCHANGED vars
    BY <1>5 DEF vars, Stays
  <1>. QED  BY <1>1, <1>2, <1>3, <1>4, <1>5 DEF Next

-----------------------------------------------------------------------------
(* The queue stays exact *)

LEMMA StepKeepsQueue ==
    ASSUME PInv, CallsType',
           Stays \/ \E c \in Calls : Enters(c) \/ Starts(c) \/ Runs(c) \/ Leaves(c)
    PROVE  QueueExact'
  <1>0. queue \in Seq(Calls)
    BY DEF PInv, CallsType
  <1>1. CASE Stays
    BY <1>1 DEF Stays, PInv, QueueExact
  <1>2. ASSUME NEW c \in Calls, Enters(c)
        PROVE  QueueExact'
    <2>1. /\ Len(queue') = Len(queue) + 1 /\ queue'[Len(queue) + 1] = c
          /\ \A i \in 1..Len(queue) : queue'[i] = queue[i]
      BY <1>0, <1>2 DEF Enters
    <2>2. Len(queue) \in Nat
      BY <1>0
    <2>3. \A i \in 1..Len(queue) : queue[i] # c
      BY <1>2 DEF Enters, PInv, QueueExact
    <2>4. \A i, j \in 1..Len(queue') : queue'[i] = queue'[j] => i = j
      BY <2>1, <2>2, <2>3 DEF PInv, QueueExact
    <2>5. ASSUME NEW d \in Calls
          PROVE  calls'[d].pc = "queued" <=> \E i \in 1..Len(queue') : queue'[i] = d
      <3>1. CASE d = c
        BY <1>2, <2>1, <2>2, <3>1 DEF Enters, Moves
      <3>2. CASE d # c
        <4>1. calls'[d].pc = calls[d].pc
          BY <1>2, <3>2 DEF Enters, Moves
        <4>2. (\E i \in 1..Len(queue') : queue'[i] = d)
                <=> \E i \in 1..Len(queue) : queue[i] = d
          BY <2>1, <2>2, <3>2
        <4>. QED  BY <4>1, <4>2 DEF PInv, QueueExact
      <3>. QED  BY <3>1, <3>2
    <2>. QED  BY <2>4, <2>5 DEF QueueExact
  <1>3. ASSUME NEW c \in Calls, Starts(c)
        PROVE  QueueExact'
    <2>1. /\ Len(queue) \in Nat \ {0} /\ Len(queue') = Len(queue) - 1 /\ c = queue[1]
          /\ \A i \in 1..Len(queue') : queue'[i] = queue[i + 1]
      BY <1>0, <1>3 DEF Starts
    <2>2. \A i, j \in 1..Len(queue') : queue'[i] = queue'[j] => i = j
      BY <2>1 DEF PInv, QueueExact
    <2>3. ASSUME NEW d \in Calls
          PROVE  calls'[d].pc = "queued" <=> \E i \in 1..Len(queue') : queue'[i] = d
      <3>1. CASE d = c
        <4>1. calls'[d].pc # "queued"
          BY <1>3, <3>1 DEF Starts, Moves
        <4>2. \A i \in 1..Len(queue') : queue'[i] # d
          BY <2>1, <3>1 DEF PInv, QueueExact
        <4>. QED  BY <4>1, <4>2
      <3>2. CASE d # c
        <4>1. calls'[d].pc = calls[d].pc
          BY <1>3, <3>2 DEF Starts, Moves
        <4>2. ASSUME NEW i \in 1..Len(queue), queue[i] = d
              PROVE  \E j \in 1..Len(queue') : queue'[j] = d
          <5>1. i - 1 \in 1..Len(queue') /\ queue'[i - 1] = d
            BY <2>1, <3>2, <4>2
          <5>. QED  BY <5>1
        <4>3. ASSUME NEW j \in 1..Len(queue'), queue'[j] = d
              PROVE  \E i \in 1..Len(queue) : queue[i] = d
          <5>1. j + 1 \in 1..Len(queue) /\ queue[j + 1] = d
            BY <2>1, <4>3
          <5>. QED  BY <5>1
        <4>. QED  BY <4>1, <4>2, <4>3 DEF PInv, QueueExact
      <3>. QED  BY <3>1, <3>2
    <2>. QED  BY <2>2, <2>3 DEF QueueExact
  <1>4. ASSUME NEW c \in Calls, Runs(c) \/ Leaves(c)
        PROVE  QueueExact'
    <2>1. /\ queue' = queue
          /\ \A d \in Calls : calls'[d].pc = "queued" <=> calls[d].pc = "queued"
      BY <1>4 DEF Runs, Leaves, Moves, InPool
    <2>. QED  BY <2>1 DEF PInv, QueueExact
  <1>. QED  BY <1>1, <1>2, <1>3, <1>4

LEMMA InitQueue ==
    ASSUME Init
    PROVE  PInv
  <1>1. CallsType
    BY IdleType DEF Init, CallsType
  <1>2. QueueExact
    BY DEF Init, QueueExact, Idle
  <1>. QED  BY <1>1, <1>2 DEF PInv

-----------------------------------------------------------------------------
(* What the operators on the record do to rows *)

\* The driver writes into the binding row exactly while it is allocated, and a
\* cursor is open on a live handle, on a result set that was opened.
Tied(s) ==
    /\ s.bindingRowAllocated <=> s.bound = "row"
    /\ s.open # NoShape => s.live /\ s.run > 0

\* No row is read and none is handed over, and no cursor is opened.
SameRows(s, t) ==
    /\ t.run = s.run /\ t.pos = s.pos /\ t.resultSetInC = s.resultSetInC
    /\ t.open \in {s.open, NoShape}

\* ... nor is the binding row bound anew.
Still(s, t) ==
    /\ SameRows(s, t) /\ Tied(t)
    /\ t.bindingRowAllocated => s.bindingRowAllocated

LEMMA StillSelf ==
    ASSUME NEW s, Tied(s)
    PROVE  Still(s, s)
  BY DEF Still, SameRows

LEMMA StillTwice ==
    ASSUME NEW s, NEW t, NEW u, Still(s, t), Still(t, u)
    PROVE  Still(s, u)
  BY DEF Still, SameRows

LEMMA FreeBindingRowStill ==
    ASSUME NEW s, s \in Stmt, s.open # NoShape => s.live /\ s.run > 0
    PROVE  /\ SameRows(s, FreeBindingRow(s)) /\ Tied(FreeBindingRow(s))
           /\ ~FreeBindingRow(s).bindingRowAllocated
           /\ FreeBindingRow(s).live = s.live
  BY DEF Stmt, FreeBindingRow, SameRows, Tied

LEMMA FreeColumnsStill ==
    ASSUME NEW s, s \in Stmt, Tied(s)
    PROVE  Still(s, FreeColumns(s)) /\ FreeColumns(s).live = s.live
  <1>. DEFINE s1 == IF s.colDescAllocated THEN FreeColumnDescriptions(s) ELSE s
  <1>1. Still(s, s1) /\ s1 \in Stmt /\ s1.live = s.live
    <2>. DEFINE m == s.misuse \cup Misuse(s.colCount > s.descN, "columns")
    <2>1. m \in SUBSET MisuseKinds
      BY MisuseType DEF Stmt, MisuseKinds
    <2>2. FreeColumnDescriptions(s) = [s EXCEPT !.colDescAllocated = FALSE, !.misuse = m]
      BY DEF FreeColumnDescriptions
    <2>. HIDE DEF m
    <2>3. [s EXCEPT !.colDescAllocated = FALSE, !.misuse = m] \in Stmt
      BY <2>1 DEF Stmt
    <2>4. Still(s, [s EXCEPT !.colDescAllocated = FALSE, !.misuse = m])
      BY DEF Still, SameRows, Tied, Stmt
    <2>5. [s EXCEPT !.colDescAllocated = FALSE, !.misuse = m].live = s.live
      BY DEF Stmt
    <2>. QED  BY <2>2, <2>3, <2>4, <2>5, StillSelf
  <1>2. FreeColumns(s) = IF s1.bindingRowAllocated THEN FreeBindingRow(s1) ELSE s1
    BY DEF FreeColumns
  <1>. HIDE DEF s1
  <1>. QED  BY <1>1, <1>2, FreeBindingRowStill DEF Still, SameRows, Tied

LEMMA OnHandleStill ==
    ASSUME NEW s, s \in Stmt, Tied(s)
    PROVE  Still(s, OnHandle(s)) /\ OnHandle(s).live = s.live
  BY DEF Still, SameRows, Tied, Stmt, OnHandle

LEMMA SQLPrepareStill ==
    ASSUME NEW s, s \in Stmt, Tied(s), NEW q, NEW f
    PROVE  Still(s, SQLPrepare(s, q, f))
  <1>1. Still(s, [s EXCEPT !.prepared = q])
    BY DEF Still, SameRows, Tied, Stmt
  <1>. QED  BY <1>1, OnHandleStill DEF SQLPrepare

LEMMA SQLNumResultColsStill ==
    ASSUME NEW s, s \in Stmt, Tied(s)
    PROVE  Still(s, SQLNumResultCols(s)) /\ SQLNumResultCols(s).live = s.live
  <1>. DEFINE k == ResultCols(s)
  <1>1. Still(s, [s EXCEPT !.colCount = k])
    <2>. HIDE DEF k
    <2>. QED  BY DEF Still, SameRows, Tied, Stmt
  <1>. QED  BY <1>1, OnHandleStill DEF SQLNumResultCols, Stmt

LEMMA ReadRowStill ==
    ASSUME NEW s, s \in Stmt, Tied(s)
    PROVE  Still(s, ReadRow(s))
  <1>. DEFINE m == s.misuse \cup ColumnsMisuse(s) \cup BindingsMisuse(s)
  <1>1. ReadRow(s) = [s EXCEPT !.misuse = m]
    BY DEF ReadRow
  <1>. HIDE DEF m
  <1>. QED  BY <1>1 DEF Still, SameRows, Tied, Stmt

\* The columns are bound anew; on a dropped handle they are not.
LEMMA BindColDataRows ==
    ASSUME NEW s, Good(s), Tied(s), NEW f
    PROVE  LET t == BindColData(s, f)
           IN  /\ SameRows(s, t) /\ Tied(t)
               /\ t.bindingRowAllocated => s.live
  <1>. DEFINE s1 == IF s.bindingRowAllocated THEN FreeBindingRow(s) ELSE s
              s2 == IF s1.colDescAllocated THEN s1
                    ELSE PopulateColumnDescriptions(s1, f)
  <1>1. s1 \in Stmt /\ SameRows(s, s1) /\ Tied(s1) /\ ~s1.bindingRowAllocated /\ s1.live = s.live
    BY FreeBindingRowStill, FreeBindingRowGood DEF Good, SameRows, Tied
  <1>2. BindColData(s, f) = IF s2.colDescAllocated THEN BindRow(s2, f) ELSE s2
    BY DEF BindColData
  <1>. HIDE DEF s1
  <1>3. s2 \in Stmt /\ SameRows(s, s2) /\ Tied(s2) /\ ~s2.bindingRowAllocated /\ s2.live = s.live
    BY ZenonT(60), <1>1 DEF Stmt, SameRows, Tied, PopulateColumnDescriptions
  <1>. HIDE DEF s2
  <1>4. SameRows(s2, BindRow(s2, f)) /\ Tied(BindRow(s2, f))
        /\ (BindRow(s2, f).bindingRowAllocated => s2.live)
    <2>. DEFINE m == s2.misuse \cup ColumnsMisuse(s2)
    <2>1. BindRow(s2, f) =
            IF ~s2.live \/ f = "bind"
            THEN [s2 EXCEPT !.bindingN = s2.colCount, !.bindingRow = NoRow, !.misuse = m,
                            !.bindingRowAllocated = FALSE,
                            !.bound = IF s2.live THEN "freed" ELSE s2.bound]
            ELSE [s2 EXCEPT !.bindingN = s2.colCount, !.bindingRow = NoRow, !.misuse = m,
                            !.bindingRowAllocated = TRUE, !.bound = "row"]
      BY <1>3 DEF BindRow, Stmt
    <2>. HIDE DEF m
    <2>. QED  BY <1>3, <2>1 DEF SameRows, Tied, Stmt
  <1>. QED  BY <1>2, <1>3, <1>4 DEF SameRows

LEMMA BindResultRows ==
    ASSUME NEW s, Good(s), Tied(s), NEW f
    PROVE  LET t == BindResult(s, f)
           IN  /\ SameRows(s, t) /\ Tied(t)
               /\ t.bindingRowAllocated => s.live \/ s.bindingRowAllocated
  <1>. DEFINE s1 == SQLNumResultCols(s)
              s2 == [s1 EXCEPT !.resultSetAvailable = TRUE]
  <1>1. Still(s, s1) /\ s1.live = s.live /\ Good(s1)
    BY SQLNumResultColsStill, SQLNumResultColsKeeps, KeepsGood DEF Good
  <1>2. BindResult(s, f) = IF s1.colCount = 0 THEN s1 ELSE BindColData(s2, f)
    BY DEF BindResult
  <1>3. ~s.live => "handle" \in s1.misuse
    BY SQLNumResultColsKeeps
  <1>. HIDE DEF s1
  <1>4. Good(s2) /\ Still(s1, s2) /\ s2.live = s1.live
    <2>1. Good(s2)
      BY ZenonT(60), <1>1, <1>3 DEF Good, Stmt, Described, Handled
    <2>2. Still(s1, s2) /\ s2.live = s1.live
      BY <1>1 DEF Good, Stmt, Still, SameRows, Tied
    <2>. QED  BY <2>1, <2>2
  <1>. HIDE DEF s2
  <1>5. LET t == BindColData(s2, f)
        IN  SameRows(s2, t) /\ Tied(t) /\ (t.bindingRowAllocated => s2.live)
    BY <1>4, BindColDataRows DEF Still
  <1>. QED  BY <1>1, <1>2, <1>4, <1>5 DEF Still, SameRows

\* A result set is opened, with no row of it read; the binding row stays.
Opens(s, t) ==
    /\ t.run = s.run + 1 /\ t.pos = 0 /\ t.resultSetInC = s.resultSetInC
    /\ t.bindingRowAllocated = s.bindingRowAllocated /\ Tied(t) /\ t.live

LEMMA OpenedOpens ==
    ASSUME NEW s, s \in Stmt, Tied(s), s.live, NEW r
    PROVE  Opens(s, Opened(s, r))
  BY DEF Stmt, Tied, Opens, Opened

LEMMA ExecutedRows ==
    ASSUME NEW s, s \in Stmt, Tied(s), NEW q, NEW f
    PROVE  IF ExecRc(s, q, f) \in {"success", "no_data"}
           THEN Opens(s, Executed(s, q, f)) ELSE Still(s, Executed(s, q, f))
  <1>1. CASE ExecRc(s, q, f) \in {"success", "no_data"}
    <2>. DEFINE t == Opened(s, Results[q])
                a == t.resultSetAvailable \/ (q \in Procs /\ Results[q] # <<>>)
    <2>1. s.live
      BY <1>1 DEF ExecRc
    <2>2. Executed(s, q, f) = [t EXCEPT !.resultSetAvailable = a]
      BY <1>1 DEF Executed
    <2>3. Opens(s, t)
      BY <2>1, OpenedOpens
    <2>4. /\ [t EXCEPT !.resultSetAvailable = a].run = t.run
          /\ [t EXCEPT !.resultSetAvailable = a].pos = t.pos
          /\ [t EXCEPT !.resultSetAvailable = a].open = t.open
          /\ [t EXCEPT !.resultSetAvailable = a].live = t.live
          /\ [t EXCEPT !.resultSetAvailable = a].bound = t.bound
          /\ [t EXCEPT !.resultSetAvailable = a].resultSetInC = t.resultSetInC
          /\ [t EXCEPT !.resultSetAvailable = a].bindingRowAllocated = t.bindingRowAllocated
      BY DEF Opened, Stmt
    <2>. HIDE DEF t, a
    <2>. QED  BY <1>1, <2>2, <2>3, <2>4 DEF Opens, Tied
  <1>. QED  BY <1>1, OnHandleStill DEF Executed

LEMMA ExecDirectRows ==
    ASSUME NEW s, Good(s), Tied(s), NEW q \in Queries \cup {NoQuery}, NEW f
    PROVE  IF ExecRc(s, q, f) \in {"success", "no_data"}
           THEN Opens(s, ExecDirect(s, q, f)) ELSE Still(s, ExecDirect(s, q, f))
  <1>1. CASE ExecRc(s, q, f) \in {"success", "no_data"}
    <2>. DEFINE t == Executed(s, q, f)
    <2>1. ExecDirect(s, q, f) = [t EXCEPT !.prepared = NoQuery]
      BY <1>1 DEF ExecDirect
    <2>2. t \in Stmt /\ Opens(s, t)
      BY <1>1, ExecutedGood, ExecutedRows DEF Good
    <2>. HIDE DEF t
    <2>. QED  BY <1>1, <2>1, <2>2 DEF Opens, Tied, Stmt
  <1>. QED  BY <1>1, OnHandleStill DEF ExecDirect, Good

LEMMA ExecDirectLive ==
    ASSUME NEW s, s \in Stmt, Tied(s), NEW q, NEW f
    PROVE  ExecRc(s, q, f) \notin {"success", "no_data"} => ExecDirect(s, q, f).live = s.live
  BY OnHandleStill DEF ExecDirect

-----------------------------------------------------------------------------
(* Reading rows *)

At(r, p) == [run |-> r, pos |-> p]

\* What reading on from s yields: the next rows, or nothing of them when there
\* is no binding row.
NewRows(s, q) ==
    /\ q \in Seq(Row)
    /\ \/ s.bindingRowAllocated /\ \A i \in 1..Len(q) : Seen(q[i]) = At(s.run, s.pos + i)
       \/ ~s.bindingRowAllocated /\ \A i \in 1..Len(q) : q[i] = NoRow
    /\ q # <<>> => s.open # NoShape

ReadsOn(s, t, n) ==
    /\ t.run = s.run /\ t.pos = s.pos + n /\ Tied(t)
    /\ t.bindingRowAllocated = s.bindingRowAllocated
    /\ t.open \in {s.open, NoShape}

LEMMA SQLFetchRows ==
    ASSUME NEW s, Good(s), Tied(s), NEW f
    PROVE  LET t == SQLFetch(s, f)
           IN  IF FetchRc(s, f) = "success"
               THEN /\ ReadsOn(s, t, 1) /\ t.resultSetInC = s.resultSetInC
                    /\ NewRows(s, <<BoundRow(t)>>)
               ELSE Still(s, t)
  <1>1. CASE FetchRc(s, f) = "success"
    <2>. DEFINE p == s.pos + 1
                r == IF s.bound = "row"
                     THEN [run |-> s.run, pos |-> p, shape |-> s.open, n |-> s.bindingN]
                     ELSE s.bindingRow
                m == s.misuse \cup Misuse(s.bound = "freed", "bindings")
                t == SQLFetch(s, f)
    <2>1. t = [s EXCEPT !.pos = p, !.bindingRow = r, !.misuse = m]
      BY <1>1 DEF SQLFetch
    <2>2. Good(t)
      BY SQLFetchKeeps, KeepsGood
    <2>3. BoundRow(t) \in Row
      BY <2>2, BoundRowType
    <2>. HIDE DEF m, t
    <2>4. t.run = s.run /\ t.pos = s.pos + 1 /\ t.resultSetInC = s.resultSetInC /\ t.bindingRow = r
          /\ t.bindingRowAllocated = s.bindingRowAllocated /\ t.bound = s.bound
          /\ t.open = s.open /\ t.live = s.live
      BY <2>1 DEF Good, Stmt
    <2>5. NewRows(s, <<BoundRow(t)>>)
      <3>0. s.open # NoShape
        BY <1>1 DEF FetchRc
      <3>1. CASE s.bindingRowAllocated
        <4>1. BoundRow(t) = [r EXCEPT !.n = t.colCount]
          BY <2>4, <3>1 DEF BoundRow
        <4>2. Seen(BoundRow(t)) = At(s.run, s.pos + 1)
          BY <4>1, <3>1 DEF Seen, At, Tied
        <4>. QED  BY <2>3, <3>0, <3>1, <4>2 DEF NewRows
      <3>2. CASE ~s.bindingRowAllocated
        <4>1. BoundRow(t) = NoRow
          BY <2>4, <3>2 DEF BoundRow
        <4>. QED  BY <2>3, <3>0, <3>2, <4>1 DEF NewRows
      <3>. QED  BY <3>1, <3>2
    <2>. QED  BY <1>1, <2>4, <2>5 DEF ReadsOn, Tied, t
  <1>2. CASE FetchRc(s, f) # "success"
    BY <1>2, OnHandleStill DEF SQLFetch, Good
  <1>. QED  BY <1>1, <1>2

LEMMA PushRowRows ==
    ASSUME NEW s, Good(s), Tied(s)
    PROVE  LET t == PushRow(s)
           IN  /\ ReadsOn(s, t, 0) /\ t.resultSetInC = Append(s.resultSetInC, BoundRow(s))
  <1>. DEFINE r == BoundRow(s)
              q == Append(s.resultSetInC, r)
              m == s.misuse \cup ColumnsMisuse(s) \cup BindingsMisuse(s)
  <1>1. PushRow(s) = [s EXCEPT !.resultSetInC = q, !.misuse = m]
    BY DEF PushRow
  <1>. HIDE DEF q, m
  <1>2. PushRow(s).resultSetInC = q /\ ReadsOn(s, PushRow(s), 0)
    BY <1>1 DEF Good, Stmt, ReadsOn, Tied
  <1>. QED  BY <1>2 DEF q

\* What reading rows leaves alone besides.
LEMMA SQLFetchColCount ==
    ASSUME NEW s, Good(s), NEW f
    PROVE  SQLFetch(s, f).colCount = s.colCount
  BY DEF SQLFetch, OnHandle, Good, Stmt

LEMMA PushRowColCount ==
    ASSUME NEW s, Good(s)
    PROVE  PushRow(s).colCount = s.colCount
  BY DEF PushRow, Good, Stmt

LEMMA FetchDataRows ==
    ASSUME NEW s, Good(s), Tied(s), NEW k \in Nat, k <= Left(s)
    PROVE  LET t == FetchData(s, k)
           IN  /\ ReadsOn(s, t, k)
               /\ \E q : /\ NewRows(s, q) /\ Len(q) = k
                         /\ t.resultSetInC = s.resultSetInC \o q
  <1>1. CASE k = 0
    <2>1. NewRows(s, <<>>) /\ Len(<<>>) = 0
      BY DEF NewRows
    <2>2. s.resultSetInC = s.resultSetInC \o <<>>
      BY DEF Good, Stmt
    <2>. QED  BY <1>1, <2>1, <2>2 DEF FetchData, ReadsOn, Good, Stmt
  <1>2. CASE k # 0
    <2>. DEFINE row(i) ==
                  IF s.bound = "row" /\ s.bindingRowAllocated
                  THEN [run |-> s.run, pos |-> s.pos + i, shape |-> s.open, n |-> s.colCount]
                  ELSE BoundRow(s)
                q == [i \in 1..k |-> row(i)]
                r == IF s.bound = "row" THEN [row(k) EXCEPT !.n = s.bindingN]
                     ELSE s.bindingRow
                rs == s.resultSetInC \o q
                p == s.pos + k
                m == s.misuse \cup ColumnsMisuse(s) \cup BindingsMisuse(s)
                       \cup Misuse(s.bound = "freed", "bindings")
                t == FetchData(s, k)
    <2>1. \A i \in 1..k : row(i) \in Row
      <3>. TAKE i \in 1..k
      <3>1. s.pos + i \in Nat
        BY DEF Good, Stmt
      <3>2. [run |-> s.run, pos |-> s.pos + i, shape |-> s.open, n |-> s.colCount] \in Row
        BY <3>1 DEF Good, Stmt, Row
      <3>. QED  BY <3>2, BoundRowType
    <2>2. t = [s EXCEPT !.pos = p, !.bindingRow = r, !.resultSetInC = rs, !.misuse = m]
      BY <1>2 DEF FetchData
    <2>3. NewRows(s, q) /\ Len(q) = k
      <3>0. s.open # NoShape
        BY <1>2 DEF Left
      <3>1. CASE s.bindingRowAllocated
        <4>1. \A i \in 1..k : Seen(q[i]) = At(s.run, s.pos + i)
          BY <3>1 DEF Tied, Seen, At
        <4>. HIDE DEF row
        <4>2. q \in Seq(Row) /\ Len(q) = k
          BY <2>1
        <4>. QED  BY <3>0, <3>1, <4>1, <4>2 DEF NewRows
      <3>2. CASE ~s.bindingRowAllocated
        <4>1. \A i \in 1..k : q[i] = NoRow
          BY <3>2 DEF BoundRow
        <4>. HIDE DEF row
        <4>2. q \in Seq(Row) /\ Len(q) = k
          BY <2>1
        <4>. QED  BY <3>0, <3>2, <4>1, <4>2 DEF NewRows
      <3>. QED  BY <3>1, <3>2
    <2>. HIDE DEF r, rs, m, t, q, row
    <2>4. /\ t.run = s.run /\ t.pos = p /\ t.resultSetInC = rs
          /\ t.bindingRowAllocated = s.bindingRowAllocated /\ t.bound = s.bound
          /\ t.open = s.open /\ t.live = s.live
      BY <2>2 DEF Good, Stmt
    <2>. QED  BY <2>3, <2>4 DEF ReadsOn, Tied, rs, t
  <1>. QED  BY <1>1, <1>2

LEMMA BuildJsObjectRows ==
    ASSUME NEW s, Good(s), Tied(s)
    PROVE  LET t == BuildJsObject(s)
           IN  ReadsOn(s, t, 0) /\ t.resultSetInC = <<>>
  <1>. DEFINE m == s.misuse \cup (IF s.resultSetInC = <<>> THEN {} ELSE ColumnsMisuse(s))
                     \cup Misuse(\E i \in DOMAIN s.resultSetInC :
                                    s.resultSetInC[i].n < s.colCount, "row")
  <1>1. BuildJsObject(s) = [s EXCEPT !.resultSetInC = <<>>, !.misuse = m]
    BY DEF BuildJsObject
  <1>. HIDE DEF m
  <1>. QED  BY <1>1 DEF Good, Stmt, ReadsOn, Tied

-----------------------------------------------------------------------------
(* What a step does to rows *)

Same    == Still(stmt, stmt') /\ UNCHANGED hist
Opening ==
    /\ stmt'.run = stmt.run + 1 /\ stmt'.pos = 0 /\ Tied(stmt')
    /\ stmt'.resultSetInC = stmt.resultSetInC /\ UNCHANGED hist

\* bindColData in a worker.
Binding ==
    /\ \E c \in Calls : calls[c].pc = "bind"
    /\ SameRows(stmt, stmt') /\ Tied(stmt') /\ UNCHANGED hist
    /\ stmt'.bindingRowAllocated => stmt.live \/ stmt.bindingRowAllocated

\* Rows q are read ...
Read(q) == NewRows(stmt, q) /\ ReadsOn(stmt, stmt', Len(q))

\* ... into resultSetInC, by a worker ...
Reading ==
    \E q : /\ Read(q) /\ Len(q) = 1 /\ UNCHANGED hist
           /\ stmt'.resultSetInC = stmt.resultSetInC \o q

\* ... handed over, with all that was left in resultSetInC ...
HandingOver ==
    \E q : /\ Read(q) /\ stmt'.resultSetInC = <<>>
           /\ delivered' = delivered \o (stmt.resultSetInC \o q) /\ UNCHANGED failed

\* ... also those of a result set just opened ...
ExecSyncing ==
    "execSync" \in Ops /\ \E q \in Seq(Row) :
        /\ stmt'.run = stmt.run + 1 /\ stmt'.pos = Len(q) /\ Tied(stmt')
        /\ \A i \in 1..Len(q) : Seen(q[i]) = At(stmt'.run, i)
        /\ stmt'.resultSetInC = <<>>
        /\ delivered' = delivered \o (stmt.resultSetInC \o q) /\ UNCHANGED failed

\* ... or past it, at once ...
Nexting ==
    \E q : /\ Read(q) /\ Len(q) = 1 /\ stmt'.resultSetInC = stmt.resultSetInC
           /\ delivered' = delivered \o q /\ UNCHANGED failed

\* ... or by a worker and a callback.
Holding ==
    /\ Read(<<BoundRow(stmt')>>) /\ UNCHANGED hist
    /\ stmt'.resultSetInC = stmt.resultSetInC
Answering ==
    /\ Still(stmt, stmt') /\ UNCHANGED failed
    /\ delivered' = delivered \o <<BoundRow(stmt)>>

\* Rows are read, and an error is reported.
Failing ==
    \E q : /\ Read(q)
           /\ stmt'.resultSetInC \in {stmt.resultSetInC \o q, <<>>}
           /\ delivered' = delivered /\ failed' = failed \cup {stmt.run}

\* The records of Answer, as far as Return looks at them.
LEMMA AnswerFields ==
    ASSUME NEW op, NEW kind, NEW s, NEW rows, NEW rc
    PROVE  /\ Answer(op, kind, s, rows, rc).op = op
           /\ Answer(op, kind, s, rows, rc).kind = kind
           /\ Answer(op, kind, s, rows, rc).rows = rows
           /\ Answer(op, kind, s, rows, rc).rc = rc
  BY DEF Answer

LEMMA ReturnsValue ==
    ASSUME NEW t, NEW op, NEW s, NEW rows, Return(t, Value(op, s, rows))
    PROVE  stmt' = t /\ delivered' = delivered \o rows /\ failed' = failed
  BY SMTT(30), AnswerFields DEF Value, Return

LEMMA ReturnsAnswer ==
    ASSUME NEW t, NEW op, NEW s, NEW rows, NEW rc,
           Return(t, Answer(op, "value", s, rows, rc))
    PROVE  /\ stmt' = t /\ failed' = failed
           /\ delivered' = IF rc = "success" THEN delivered \o rows ELSE delivered
  BY AnswerFields DEF Return

LEMMA ReturnsNoRows ==
    ASSUME TypeOK, NEW t, NEW op, NEW s, Return(t, Value(op, s, <<>>))
    PROVE  stmt' = t /\ UNCHANGED hist
  <1>1. delivered \o <<>> = delivered
    BY DEF TypeOK
  <1>. QED  BY <1>1, ReturnsValue DEF hist

LEMMA ReturnsFailure ==
    ASSUME NEW t, NEW op, NEW s, Return(t, Failure(op, s))
    PROVE  /\ stmt' = t /\ delivered' = delivered
           /\ failed' = IF op \in FetchOps THEN failed \cup {t.run} ELSE failed
  BY AnswerFields DEF Failure, Return

LEMMA RejectedSame ==
    ASSUME Tied(stmt), NEW op, Rejected(op)
    PROVE  Same
  BY StillSelf DEF Rejected, Same

LEMMA NoRowsRead ==
    ASSUME NEW s, Good(s)
    PROVE  NewRows(s, <<>>) /\ Len(<<>>) = 0 /\ s.resultSetInC \o <<>> = s.resultSetInC
  <1>1. NewRows(s, <<>>) /\ Len(<<>>) = 0
    BY DEF NewRows
  <1>2. s.resultSetInC \in Seq(Row)
    BY DEF Good, Stmt
  <1>. QED  BY <1>1, <1>2

-----------------------------------------------------------------------------
(* Synchronous methods *)

LEMMA PrepareSyncRows ==
    ASSUME TypeOK, Good(stmt), Tied(stmt), NEW q \in Queries, PrepareSync(q)
    PROVE  Same
  <1>. DEFINE op == "prepareSync"
  <1>0. op \notin FetchOps
    BY DEF FetchOps
  <1>. HIDE DEF op
  <1>1. \/ Rejected(op)
        \/ \E f : \/ Return(SQLPrepare(stmt, q, f), Value(op, SQLPrepare(stmt, q, f), <<>>))
                 \/ Return(SQLPrepare(stmt, q, f), Failure(op, SQLPrepare(stmt, q, f)))
    BY DEF PrepareSync, Checked, op
  <1>2. ASSUME NEW f
        PROVE  Still(stmt, SQLPrepare(stmt, q, f))
    BY SQLPrepareStill DEF Good
  <1>. QED  BY <1>0, <1>1, <1>2, RejectedSame, ReturnsNoRows, ReturnsFailure DEF Same, hist

LEMMA ExecSyncRows ==
    ASSUME TypeOK, Good(stmt), Tied(stmt), NEW q \in Queries, NEW cb \in BOOLEAN,
           ExecSync(q, cb)
    PROVE  Same \/ Opening \/ ExecSyncing
  <1>00. "execSync" \in Ops
    BY DEF ExecSync, MainCall
  <1>. DEFINE op == "execSync"
  <1>0. op \notin FetchOps
    BY DEF FetchOps
  <1>. HIDE DEF op
  <1>1. CASE ~stmt.stmtAllocated
    <2>1. Rejected(op)
      BY <1>1 DEF ExecSync, Checked, op
    <2>. QED  BY <2>1, RejectedSame
  <1>2. CASE stmt.stmtAllocated
    <2>1. PICK f :
            LET s1 == ExecDirect(stmt, q, f)
                s2 == BindResult(s1, f)
            IN  IF ExecRc(stmt, q, f) \notin {"success", "no_data"}
                THEN Return(s1, Failure(op, s1)) /\ UNCHANGED inCallback
                ELSE IF s2.colCount = 0
                THEN Return(s2, Value(op, s2, <<>>)) /\ UNCHANGED inCallback
                ELSE IF BindFailed(s2)
                THEN Return(s2, Failure(op, s2)) /\ UNCHANGED inCallback
                ELSE \E end \in FetchEnds(s2) :
                     LET s3 == FetchData(s2, end.got)
                         s4 == BuildJsObject(s3)
                     IN  /\ Return(IF cb THEN s4 ELSE FreeColumns(s4),
                                   Value(op, s3, s3.resultSetInC))
                         /\ inCallback' = cb
      BY <1>2 DEF ExecSync, Checked, op
    <2>. DEFINE s1 == ExecDirect(stmt, q, f)
                s2 == BindResult(s1, f)
    <2>2. Good(s1)
      BY ExecDirectGood
    <2>3. Good(s2)
      BY <2>2, BindResultGood
    <2>4. IF ExecRc(stmt, q, f) \in {"success", "no_data"}
          THEN Opens(stmt, s1) ELSE Still(stmt, s1)
      BY ExecDirectRows
    <2>5. Tied(s1)
      BY <2>4 DEF Opens, Still
    <2>6. SameRows(s1, s2) /\ Tied(s2)
      BY <2>2, <2>5, BindResultRows
    <2>7. ASSUME ~BindFailed(s2), s2.colCount # 0
          PROVE  s2.bindingRowAllocated
      <3>. HIDE DEF s2
      <3>1. s2.colCount \in Nat
        BY <2>3 DEF Good, Stmt
      <3>. QED  BY <2>7, <3>1 DEF BindFailed
    <2>8. ASSUME Opens(stmt, s1), s2.bindingRowAllocated, NEW end \in FetchEnds(s2),
                 Return(IF cb THEN BuildJsObject(FetchData(s2, end.got))
                        ELSE FreeColumns(BuildJsObject(FetchData(s2, end.got))),
                        Value(op, FetchData(s2, end.got),
                              FetchData(s2, end.got).resultSetInC))
          PROVE  ExecSyncing
      <3>. HIDE DEF s1, s2
      <3>. DEFINE s3 == FetchData(s2, end.got)
                  s4 == BuildJsObject(s3)
                  t  == IF cb THEN s4 ELSE FreeColumns(s4)
      <3>0. end.got \in Nat /\ end.got <= Left(s2)
        BY <2>3, FetchEndsType
      <3>1. Good(s3)
        BY <2>3, <3>0, FetchDataKeeps, KeepsGood
      <3>2. Good(s4)
        BY <3>1, BuildJsObjectKeeps, KeepsGood
      <3>3. PICK r : NewRows(s2, r) /\ Len(r) = end.got /\ s3.resultSetInC = s2.resultSetInC \o r
        BY <2>3, <2>6, <3>0, FetchDataRows
      <3>4. ReadsOn(s2, s3, Len(r))
        BY <2>3, <2>6, <3>0, <3>3, FetchDataRows
      <3>. HIDE DEF s3
      <3>5. ReadsOn(s3, s4, 0) /\ s4.resultSetInC = <<>>
        BY <3>1, <3>4, BuildJsObjectRows DEF ReadsOn
      <3>. HIDE DEF s4
      <3>6. t.run = s4.run /\ t.pos = s4.pos /\ t.resultSetInC = <<>> /\ Tied(t)
        BY <3>2, <3>5, FreeColumnsStill DEF Good, ReadsOn, Still, SameRows
      <3>. HIDE DEF t
      <3>7. t.run = stmt.run + 1 /\ t.pos = Len(r) /\ s2.run = t.run /\ s2.pos = 0
            /\ s2.resultSetInC = stmt.resultSetInC
        <4>1. Len(r) \in Nat /\ s3.pos \in Nat
          BY <3>0, <3>1, <3>3 DEF Good, Stmt
        <4>. QED  BY <2>6, <2>8, <3>4, <3>5, <3>6, <4>1 DEF Opens, SameRows, ReadsOn
      <3>8. stmt' = t /\ delivered' = delivered \o s3.resultSetInC /\ failed' = failed
        BY <2>8, ReturnsValue DEF t, s4, s3
      <3>9. r \in Seq(Row) /\ \A i \in 1..Len(r) : Seen(r[i]) = At(t.run, i)
        BY <2>8, <3>3, <3>7 DEF NewRows
      <3>. QED  BY <1>00, <3>3, <3>6, <3>7, <3>8, <3>9 DEF ExecSyncing
    <2>. HIDE DEF s1, s2
    <2>9. CASE ExecRc(stmt, q, f) \notin {"success", "no_data"}
      <3>1. Return(s1, Failure(op, s1))
        BY <2>1, <2>9 DEF s1, s2
      <3>. QED  BY <1>0, <2>4, <2>9, <3>1, ReturnsFailure DEF Same, hist
    <2>10. CASE ExecRc(stmt, q, f) \in {"success", "no_data"}
      <3>1. \/ Return(s2, Value(op, s2, <<>>))
            \/ Return(s2, Failure(op, s2))
            \/ ExecSyncing
        BY <2>1, <2>4, <2>7, <2>8, <2>10 DEF s1, s2
      <3>2. CASE stmt' = s2 /\ UNCHANGED hist
        BY <2>4, <2>6, <2>10, <3>2 DEF Opening, Opens, SameRows
      <3>. QED  BY <1>0, <3>1, <3>2, ReturnsNoRows, ReturnsFailure DEF hist
    <2>. QED  BY <2>9, <2>10
  <1>. QED  BY <1>1, <1>2

LEMMA ExecSyncReturnRows ==
    ASSUME TypeOK, Good(stmt), Tied(stmt), ExecSyncReturn
    PROVE  Same
  BY FreeColumnsStill DEF ExecSyncReturn, Same, Good

LEMMA ExecuteSyncRows ==
    ASSUME TypeOK, Good(stmt), Tied(stmt), ExecuteSync
    PROVE  Same \/ Opening
  <1>. DEFINE op == "executeSync"
  <1>0. op \notin FetchOps
    BY DEF FetchOps
  <1>. HIDE DEF op
  <1>1. PICK f :
          LET s1 == Executed(stmt, stmt.prepared, f)
              s2 == BindResult(s1, f)
          IN  IF ExecRc(stmt, stmt.prepared, f) # "success"
              THEN Return(s1, Failure(op, s1))
              ELSE Return(s2, Failure(op, s2)) \/ Return(s2, Value(op, s2, <<>>))
    BY DEF ExecuteSync, op
  <1>. DEFINE s1 == Executed(stmt, stmt.prepared, f)
              s2 == BindResult(s1, f)
  <1>2. Good(s1)
    BY PreparedType, ExecutedGood
  <1>3. IF ExecRc(stmt, stmt.prepared, f) \in {"success", "no_data"}
        THEN Opens(stmt, s1) ELSE Still(stmt, s1)
    BY ExecutedRows DEF Good
  <1>4. Tied(s1)
    BY <1>3 DEF Opens, Still
  <1>5. SameRows(s1, s2) /\ Tied(s2)
    BY <1>2, <1>4, BindResultRows
  <1>. HIDE DEF s1, s2
  <1>6. CASE ExecRc(stmt, stmt.prepared, f) # "success"
    <2>1. Return(s1, Failure(op, s1))
      BY <1>1, <1>6 DEF s1, s2
    <2>2. stmt' = s1 /\ UNCHANGED hist
      BY <1>0, <2>1, ReturnsFailure DEF hist
    <2>. QED  BY <1>3, <2>2 DEF Same, Opening, Opens
  <1>7. CASE ExecRc(stmt, stmt.prepared, f) = "success"
    <2>1. Return(s2, Failure(op, s2)) \/ Return(s2, Value(op, s2, <<>>))
      BY <1>1, <1>7 DEF s1, s2
    <2>2. stmt' = s2 /\ UNCHANGED hist
      BY <1>0, <2>1, ReturnsFailure, ReturnsNoRows DEF hist
    <2>. QED  BY <1>3, <1>5, <1>7, <2>2 DEF Opening, Opens, SameRows
  <1>. QED  BY <1>6, <1>7

LEMMA FetchSyncRows ==
    ASSUME TypeOK, Good(stmt), Tied(stmt), FetchSync
    PROVE  Same \/ Nexting \/ Failing
  <1>. DEFINE op == "fetchSync"
  <1>0. op \in FetchOps
    BY DEF FetchOps
  <1>. HIDE DEF op
  <1>1. \/ Rejected(op)
        \/ \E f : LET rc == FetchRc(stmt, f)
                      s1 == SQLFetch(stmt, f)
                  IN  IF rc = "error" THEN Return(s1, Failure(op, s1))
                      ELSE Return(ReadRow(s1), Answer(op, "value", s1, <<BoundRow(s1)>>, rc))
    BY DEF FetchSync, Checked, op
  <1>2. ASSUME NEW f,
               LET rc == FetchRc(stmt, f)
                   s1 == SQLFetch(stmt, f)
               IN  IF rc = "error" THEN Return(s1, Failure(op, s1))
                   ELSE Return(ReadRow(s1), Answer(op, "value", s1, <<BoundRow(s1)>>, rc))
        PROVE  Same \/ Nexting \/ Failing
    <2>. DEFINE s1 == SQLFetch(stmt, f)
    <2>0. Good(s1)
      BY SQLFetchKeeps, KeepsGood
    <2>1. IF FetchRc(stmt, f) = "success"
          THEN /\ ReadsOn(stmt, s1, 1) /\ s1.resultSetInC = stmt.resultSetInC
               /\ NewRows(stmt, <<BoundRow(s1)>>)
          ELSE Still(stmt, s1)
      BY SQLFetchRows
    <2>2. IF FetchRc(stmt, f) = "error" THEN Return(s1, Failure(op, s1))
          ELSE Return(ReadRow(s1), Answer(op, "value", s1, <<BoundRow(s1)>>, FetchRc(stmt, f)))
      BY <1>2
    <2>. HIDE DEF s1
    <2>3. Still(s1, ReadRow(s1)) /\ ReadRow(s1).bindingRowAllocated = s1.bindingRowAllocated
      BY <2>0, <2>1, ReadRowStill, ReadRowKeeps DEF Good, Keeps, ReadsOn, Still
    <2>4. CASE FetchRc(stmt, f) = "error"
      <3>1. stmt' = s1 /\ delivered' = delivered /\ failed' = failed \cup {s1.run}
        BY <1>0, <2>2, <2>4, ReturnsFailure
      <3>2. Still(stmt, s1)
        BY <2>1, <2>4
      <3>3. s1.bindingRowAllocated = stmt.bindingRowAllocated
        BY SQLFetchKeeps DEF Keeps, s1
      <3>4. stmt.pos + 0 = stmt.pos
        BY DEF Good, Stmt
      <3>5. ReadsOn(stmt, s1, 0) /\ s1.resultSetInC = stmt.resultSetInC /\ s1.run = stmt.run
        BY <3>2, <3>3, <3>4 DEF Still, SameRows, ReadsOn
      <3>6. Read(<<>>) /\ stmt'.resultSetInC = stmt.resultSetInC \o <<>>
        BY <3>1, <3>5, NoRowsRead DEF Read
      <3>. QED  BY <3>1, <3>5, <3>6 DEF Failing
    <2>5. CASE FetchRc(stmt, f) = "success"
      <3>1. /\ stmt' = ReadRow(s1) /\ failed' = failed
            /\ delivered' = delivered \o <<BoundRow(s1)>>
        BY <2>2, <2>5, ReturnsAnswer
      <3>2. ReadsOn(stmt, stmt', 1) /\ stmt'.resultSetInC = stmt.resultSetInC
        BY <2>1, <2>3, <2>5, <3>1 DEF ReadsOn, Still, SameRows
      <3>3. Len(<<BoundRow(s1)>>) = 1
        OBVIOUS
      <3>4. Read(<<BoundRow(s1)>>)
        BY <2>1, <2>5, <3>2, <3>3 DEF Read
      <3>. QED  BY <3>1, <3>2, <3>3, <3>4 DEF Nexting
    <2>6. CASE FetchRc(stmt, f) \notin {"error", "success"}
      <3>1. stmt' = ReadRow(s1) /\ UNCHANGED hist
        BY <2>2, <2>6, ReturnsAnswer DEF hist
      <3>. QED  BY <2>1, <2>3, <2>6, <3>1, StillTwice DEF Same
    <2>. QED  BY <2>4, <2>5, <2>6
  <1>. QED  BY <1>1, <1>2, RejectedSame

LEMMA FetchAllSyncRows ==
    ASSUME TypeOK, Good(stmt), Tied(stmt), NEW cb \in BOOLEAN, FetchAllSync(cb)
    PROVE  Same \/ HandingOver \/ Failing
  <1>. DEFINE op == "fetchAllSync"
  <1>0. op \in FetchOps
    BY DEF FetchOps
  <1>. HIDE DEF op
  <1>1. \/ Rejected(op)
        \/ \E end \in FetchEnds(stmt) :
              LET s1 == FetchData(stmt, end.got)
              IN  \/ Return(BuildJsObject(s1), Value(op, s1, s1.resultSetInC))
                  \/ Return(s1, Answer(op, "silent", s1, <<>>, end.rc))
                  \/ Return(BuildJsObject(s1), Failure(op, s1))
    BY DEF FetchAllSync, Checked, op
  <1>2. ASSUME NEW end \in FetchEnds(stmt),
               LET s1 == FetchData(stmt, end.got)
               IN  \/ Return(BuildJsObject(s1), Value(op, s1, s1.resultSetInC))
                   \/ Return(s1, Answer(op, "silent", s1, <<>>, end.rc))
                   \/ Return(BuildJsObject(s1), Failure(op, s1))
        PROVE  HandingOver \/ Failing
    <2>. DEFINE s1 == FetchData(stmt, end.got)
    <2>0. end.got \in Nat /\ end.got <= Left(stmt)
      BY FetchEndsType
    <2>1. Good(s1)
      BY <2>0, FetchDataKeeps, KeepsGood
    <2>2. PICK q : /\ NewRows(stmt, q) /\ Len(q) = end.got
                   /\ s1.resultSetInC = stmt.resultSetInC \o q
      BY <2>0, FetchDataRows
    <2>3. ReadsOn(stmt, s1, Len(q))
      BY <2>0, <2>2, FetchDataRows
    <2>4. \/ Return(BuildJsObject(s1), Value(op, s1, s1.resultSetInC))
          \/ Return(s1, Answer(op, "silent", s1, <<>>, end.rc))
          \/ Return(BuildJsObject(s1), Failure(op, s1))
      BY <1>2
    <2>. HIDE DEF s1
    <2>. DEFINE s2 == BuildJsObject(s1)
    <2>5. ReadsOn(s1, s2, 0) /\ s2.resultSetInC = <<>>
      BY <2>1, <2>3, BuildJsObjectRows DEF ReadsOn
    <2>. HIDE DEF s2
    <2>6. ReadsOn(stmt, s2, Len(q))
      <3>1. s1.pos \in Nat
        BY <2>1 DEF Good, Stmt
      <3>. QED  BY <2>3, <2>5, <3>1 DEF ReadsOn
    <2>7. CASE Return(s2, Value(op, s1, s1.resultSetInC))
      <3>1. stmt' = s2 /\ delivered' = delivered \o s1.resultSetInC /\ failed' = failed
        BY <2>7, ReturnsValue
      <3>2. Read(q)
        BY <2>2, <2>6, <3>1 DEF Read
      <3>. QED  BY <2>2, <2>5, <3>1, <3>2 DEF HandingOver
    <2>8. CASE Return(s1, Answer(op, "silent", s1, <<>>, end.rc))
      <3>1. stmt' = s1 /\ delivered' = delivered /\ failed' = failed \cup {s1.run}
        BY <1>0, <2>8, AnswerFields DEF Return
      <3>2. Read(q) /\ s1.run = stmt.run
        BY <2>2, <2>3, <3>1 DEF Read, ReadsOn
      <3>. QED  BY <2>2, <3>1, <3>2 DEF Failing
    <2>9. CASE Return(s2, Failure(op, s1))
      <3>1. stmt' = s2 /\ delivered' = delivered /\ failed' = failed \cup {s2.run}
        BY <1>0, <2>9, ReturnsFailure
      <3>2. Read(q) /\ s2.run = stmt.run
        BY <2>2, <2>6, <3>1 DEF Read, ReadsOn
      <3>. QED  BY <2>2, <2>5, <3>1, <3>2 DEF Failing
    <2>. QED  BY <2>4, <2>7, <2>8, <2>9 DEF s2
  <1>. QED  BY <1>1, <1>2, RejectedSame

LEMMA NextResultRows ==
    ASSUME TypeOK, Good(stmt), Tied(stmt), NextResult
    PROVE  Same \/ Opening
  <1>. DEFINE op == "nextResult"
              more == stmt.live /\ stmt.rest # <<>>
  <1>0. op \notin FetchOps
    BY DEF FetchOps
  <1>. HIDE DEF op
  <1>1. PICK f :
          LET s1 == IF more THEN Opened(stmt, stmt.rest) ELSE OnHandle(stmt)
              s2 == BindResult(s1, f)
          IN  IF more THEN Return(s2, Failure(op, s2)) \/ Return(s2, Value(op, s2, <<>>))
              ELSE Return(s1, Failure(op, s1))
    BY DEF NextResult, op
  <1>2. CASE more
    <2>. DEFINE s1 == Opened(stmt, stmt.rest)
                s2 == BindResult(s1, f)
    <2>1. Opens(stmt, s1)
      BY <1>2, OpenedOpens DEF Good
    <2>2. Good(s1)
      BY OpenedKeeps, KeepsGood DEF Good, Stmt
    <2>3. SameRows(s1, s2) /\ Tied(s2)
      BY <2>1, <2>2, BindResultRows DEF Opens
    <2>4. Return(s2, Failure(op, s2)) \/ Return(s2, Value(op, s2, <<>>))
      BY <1>1, <1>2
    <2>. HIDE DEF s1, s2
    <2>5. stmt' = s2 /\ UNCHANGED hist
      BY <1>0, <2>4, ReturnsFailure, ReturnsNoRows DEF hist
    <2>. QED  BY <2>1, <2>3, <2>5 DEF Opening, Opens, SameRows
  <1>3. CASE ~more
    <2>1. Return(OnHandle(stmt), Failure(op, OnHandle(stmt)))
      BY <1>1, <1>3
    <2>. QED  BY <1>0, <2>1, ReturnsFailure, OnHandleStill DEF Same, hist, Good
  <1>. QED  BY <1>2, <1>3

LEMMA CloseCursorRows ==
    ASSUME TypeOK, Good(stmt), Tied(stmt), CloseCursor
    PROVE  Same
  <1>. DEFINE op == "closeCursor"
              h == OnHandle(stmt)
              t == [h EXCEPT !.open = NoShape]
  <1>0. op \notin FetchOps
    BY DEF FetchOps
  <1>. HIDE DEF op
  <1>1. Return(t, Value(op, stmt, <<>>)) \/ Return(t, Failure(op, stmt))
    BY DEF CloseCursor, op
  <1>2. Still(stmt, h) /\ h \in Stmt
    BY OnHandleStill, OnHandleKeeps DEF Good, Keeps
  <1>. HIDE DEF h
  <1>3. Still(stmt, t)
    BY <1>2 DEF Still, SameRows, Tied, Stmt
  <1>. HIDE DEF t
  <1>. QED  BY <1>0, <1>1, <1>3, ReturnsFailure, ReturnsNoRows DEF Same, hist

LEMMA CloseRows ==
    ASSUME TypeOK, Good(stmt), Tied(stmt), Close
    PROVE  Same
  <1>. DEFINE op == "close"
              s1 == FreeColumns(stmt)
              t  == [s1 EXCEPT !.stmtAllocated = FALSE, !.resultSetAvailable = FALSE,
                               !.live = FALSE, !.open = NoShape, !.rest = <<>>,
                               !.bound = "none", !.prepared = NoQuery]
  <1>0. op \notin FetchOps
    BY DEF FetchOps
  <1>. HIDE DEF op
  <1>1. \/ Return(s1, Value(op, s1, <<>>)) \/ Return(s1, Failure(op, s1))
        \/ Return(t, Value(op, s1, <<>>))
    BY DEF Close, op
  <1>2. Still(stmt, s1) /\ Good(s1)
    BY FreeColumnsStill, FreeColumnsGood DEF Good
  <1>3. ~s1.bindingRowAllocated
    <2>1. ASSUME NEW u
          PROVE  ~FreeBindingRow(u).bindingRowAllocated \/ ~u.bindingRowAllocated
                   \/ u \notin Stmt
      BY DEF FreeBindingRow, Stmt
    <2>. DEFINE u == IF stmt.colDescAllocated THEN FreeColumnDescriptions(stmt) ELSE stmt
    <2>2. u \in Stmt
      <3>. DEFINE m == stmt.misuse \cup Misuse(stmt.colCount > stmt.descN, "columns")
      <3>1. m \in SUBSET MisuseKinds
        BY MisuseType DEF Good, Stmt, MisuseKinds
      <3>2. u \in {stmt, [stmt EXCEPT !.colDescAllocated = FALSE, !.misuse = m]}
        BY DEF FreeColumnDescriptions
      <3>. HIDE DEF m, u
      <3>. QED  BY ZenonT(60), <3>1, <3>2 DEF Good, Stmt
    <2>3. s1 = IF u.bindingRowAllocated THEN FreeBindingRow(u) ELSE u
      BY DEF FreeColumns
    <2>. HIDE DEF u, s1
    <2>. QED  BY <2>1, <2>2, <2>3
  <1>. HIDE DEF s1
  <1>4. Still(stmt, t)
    BY <1>2, <1>3 DEF Still, SameRows, Tied, Good, Stmt
  <1>. HIDE DEF t
  <1>. QED  BY <1>0, <1>1, <1>2, <1>4, ReturnsFailure, ReturnsNoRows DEF Same, hist

LEMMA NumFieldsRows ==
    ASSUME TypeOK, Good(stmt), Tied(stmt), NumFields
    PROVE  Same
  <1>. DEFINE op == "numFields"
              s1 == SQLNumResultCols(stmt)
  <1>1. Rejected(op) \/ Return(s1, Value(op, s1, <<>>))
    BY DEF NumFields, Checked
  <1>2. Still(stmt, s1)
    BY SQLNumResultColsStill DEF Good
  <1>. HIDE DEF op, s1
  <1>. QED  BY <1>1, <1>2, RejectedSame, ReturnsNoRows DEF Same

LEMMA FieldsRows ==
    ASSUME TypeOK, Good(stmt), Tied(stmt), NEW i, FieldValue(i) \/ FieldInfo(i)
    PROVE  Same
  <1>. DEFINE m  == stmt.misuse \cup Misuse(i >= stmt.descN, "columns")
              s1 == [stmt EXCEPT !.misuse = m]
  <1>1. \E op : Rejected(op) \/ Return(s1, Value(op, stmt, <<>>))
    BY DEF FieldValue, FieldInfo, ColumnEntry, Checked
  <1>. HIDE DEF m
  <1>2. Still(stmt, s1)
    BY DEF Still, SameRows, Tied, Good, Stmt
  <1>. HIDE DEF s1
  <1>. QED  BY <1>1, <1>2, RejectedSame, ReturnsNoRows DEF Same

LEMMA HandleCallRows ==
    ASSUME TypeOK, Good(stmt), Tied(stmt), SetStmtAttr \/ GetStmtAttr \/ NumRows \/ StmtError
    PROVE  Same
  <1>. DEFINE s1 == OnHandle(stmt)
  <1>1. PICK op \in {"setStmtAttr", "getStmtAttr", "numRows", "stmtError"} :
            \/ Rejected(op)
            \/ \E kind, rc : Return(s1, Answer(op, kind, stmt, <<>>, rc))
    BY DEF SetStmtAttr, GetStmtAttr, NumRows, StmtError, HandleCall, Checked
  <1>2. op \notin FetchOps
    BY DEF FetchOps
  <1>3. Still(stmt, s1)
    BY OnHandleStill DEF Good
  <1>. HIDE DEF s1
  <1>4. ASSUME NEW kind, NEW rc, Return(s1, Answer(op, kind, stmt, <<>>, rc))
        PROVE  Same
    <2>. DEFINE r == Answer(op, kind, stmt, <<>>, rc)
    <2>0. r.op = op /\ r.rows = <<>>
      BY AnswerFields
    <2>. HIDE DEF r
    <2>1. stmt' = s1 /\ failed' = failed
          /\ (delivered' = delivered \o <<>> \/ delivered' = delivered)
      BY <1>2, <1>4, <2>0 DEF Return, r
    <2>2. delivered \o <<>> = delivered
      BY DEF TypeOK
    <2>. QED  BY <1>3, <2>1, <2>2 DEF Same, hist
  <1>. QED  BY <1>1, <1>4, RejectedSame

\* A synchronous method, seen as what it does to rows.
SyncKinds ==
    \/ Same
    \/ /\ MayOverlap \/ Outstanding = {}
       /\ Opening \/ HandingOver \/ ExecSyncing \/ Nexting \/ Failing

LEMMA SyncRows ==
    ASSUME TypeOK, Good(stmt), Tied(stmt), SyncCall
    PROVE  SyncKinds
  <1>1. ASSUME NEW q \in Queries, NEW cb \in BOOLEAN, ExecSync(q, cb)
        PROVE  SyncKinds
    BY <1>1, ExecSyncRows DEF ExecSync, MainCall, SyncKinds
  <1>2. CASE ExecSyncReturn
    BY <1>2, ExecSyncReturnRows DEF SyncKinds
  <1>3. ASSUME NEW q \in Queries, PrepareSync(q)
        PROVE  SyncKinds
    BY <1>3, PrepareSyncRows DEF SyncKinds
  <1>4. CASE ExecuteSync
    BY <1>4, ExecuteSyncRows DEF ExecuteSync, MainCall, SyncKinds
  <1>5. CASE FetchSync
    BY <1>5, FetchSyncRows DEF FetchSync, MainCall, SyncKinds
  <1>6. ASSUME NEW cb \in BOOLEAN, FetchAllSync(cb)
        PROVE  SyncKinds
    BY <1>6, FetchAllSyncRows DEF FetchAllSync, MainCall, SyncKinds
  <1>7. CASE NextResult
    BY <1>7, NextResultRows DEF NextResult, MainCall, SyncKinds
  <1>8. CASE CloseCursor
    BY <1>8, CloseCursorRows DEF SyncKinds
  <1>9. CASE Close
    BY <1>9, CloseRows DEF SyncKinds
  <1>10. CASE NumFields
    BY <1>10, NumFieldsRows DEF SyncKinds
  <1>11. ASSUME NEW i, FieldValue(i) \/ FieldInfo(i)
         PROVE  SyncKinds
    BY <1>11, FieldsRows DEF SyncKinds
  <1>12. CASE SetStmtAttr \/ GetStmtAttr \/ NumRows \/ StmtError
    BY <1>12, HandleCallRows DEF SyncKinds
  <1>. QED
    BY <1>1, <1>2, <1>3, <1>4, <1>5, <1>6, <1>7, <1>8, <1>9, <1>10, <1>11, <1>12
    DEF SyncCall

-----------------------------------------------------------------------------
(* Workers and their callbacks *)

\* Worker c goes on, and the other calls stay as they are.
Others(c) == UNCHANGED inCallback /\ \A d \in Calls : d # c => calls'[d] = calls[d]
Becomes(c, pc) ==
    Others(c) /\ calls'[c].op = calls[c].op /\ calls'[c].pc = pc

LEMMA WorkerBecomes ==
    ASSUME TypeOK, NEW c \in Calls, NEW pc, NEW s, NEW rc, NEW err,
           Worker(c, pc, s, rc, err)
    PROVE  /\ stmt' = s /\ UNCHANGED hist
           /\ Becomes(c, pc) /\ calls'[c].rc = rc /\ calls'[c].err = err
  BY DEF Worker, TypeOK, Call, Becomes, Others

\* The kinds of step of a worker.
Starting(c) ==
    /\ calls[c].pc = "queued" /\ Same
    /\ Becomes(c, IF calls[c].op = "fetchAll" THEN "fetching" ELSE "cli")
Executing(c) ==
    /\ calls[c].pc = "cli" /\ calls[c].op \in {"exec", "execute"}
    /\ \/ Opening /\ stmt'.live /\ Becomes(c, "bind")
       \/ /\ Same /\ stmt'.live = stmt.live
          /\ Becomes(c, "done") \/ (~stmt.live /\ Becomes(c, "bind"))
Preparing(c) ==
    calls[c].pc = "cli" /\ calls[c].op = "prepare" /\ Same /\ Becomes(c, "done")
BindsColumns(c) ==
    /\ calls[c].pc = "bind" /\ Binding
    /\ \/ /\ calls[c].op = "exec"
          /\ \/ Becomes(c, "fetching") /\ stmt'.colCount > 0
             \/ Becomes(c, "done") /\ (calls'[c].err \/ stmt'.colCount = 0)
       \/ calls[c].op = "execute" /\ Becomes(c, "done")
FetchesRow(c) ==
    /\ calls[c].pc = "fetching" /\ stmt'.colCount = stmt.colCount
    /\ \/ Reading /\ Becomes(c, "fetching")
       \/ \E f : /\ Same /\ Becomes(c, "done") /\ FetchRc(stmt, f) # "success"
                 /\ calls'[c].rc = FetchRc(stmt, f)
                 /\ calls'[c].err <=> FetchRc(stmt, f) = "error" /\ calls[c].op = "fetchAll"
HoldsRow(c) ==
    /\ calls[c].pc = "cli" /\ calls[c].op = "fetch" /\ Becomes(c, "done")
    /\ \E f : /\ calls'[c].rc = FetchRc(stmt, f)
              /\ calls'[c].err <=> FetchRc(stmt, f) = "error"
              /\ IF FetchRc(stmt, f) = "success" THEN Holding ELSE Same
WorkerKinds(c) ==
    \/ Starting(c) \/ Executing(c) \/ Preparing(c) \/ BindsColumns(c)
    \/ FetchesRow(c) \/ HoldsRow(c)

LEMMA StartRows ==
    ASSUME TypeOK, QueueExact, Tied(stmt), NEW c \in Calls, Start(c)
    PROVE  Starting(c)
  <1>1. calls[c].pc = "queued"
    <2>1. queue \in Seq(Calls) /\ queue # <<>> /\ c = Head(queue)
      BY DEF Start, TypeOK
    <2>2. 1 \in 1..Len(queue) /\ queue[1] = c
      BY <2>1
    <2>. QED  BY <2>2 DEF QueueExact
  <1>. DEFINE pc == IF calls[c].op = "fetchAll" THEN "fetching" ELSE "cli"
  <1>2. calls' = [calls EXCEPT ![c].pc = pc] /\ UNCHANGED <<stmt, inCallback, hist>>
    BY DEF Start
  <1>. HIDE DEF pc
  <1>3. Becomes(c, pc)
    BY <1>2 DEF Becomes, Others, TypeOK, Call
  <1>4. Same
    BY <1>2, StillSelf DEF Same
  <1>. QED  BY <1>1, <1>3, <1>4 DEF Starting, pc

LEMMA ExecAsyncWorkerExecRows ==
    ASSUME TypeOK, Good(stmt), Tied(stmt), NEW c \in Calls, ExecAsyncWorkerExec(c)
    PROVE  Executing(c)
  <1>0. calls[c].pc = "cli" /\ calls[c].op = "exec"
    BY DEF ExecAsyncWorkerExec
  <1>1. PICK f :
          LET rc == ExecRc(stmt, calls[c].q, f)
              s1 == ExecDirect(stmt, calls[c].q, f)
          IN  IF rc \in {"success", "no_data"} THEN Worker(c, "bind", s1, rc, FALSE)
              ELSE \E set \in MessageSet(stmt) : Worker(c, "done", s1, rc, set)
    BY DEF ExecAsyncWorkerExec
  <1>. DEFINE rc == ExecRc(stmt, calls[c].q, f)
              s1 == ExecDirect(stmt, calls[c].q, f)
  <1>2. IF rc \in {"success", "no_data"} THEN Opens(stmt, s1) ELSE Still(stmt, s1)
    BY CallFields, ExecDirectRows
  <1>3. rc \notin {"success", "no_data"} => s1.live = stmt.live
    BY ExecDirectLive DEF Good
  <1>4. IF rc \in {"success", "no_data"} THEN Worker(c, "bind", s1, rc, FALSE)
        ELSE \E set \in MessageSet(stmt) : Worker(c, "done", s1, rc, set)
    BY <1>1
  <1>. HIDE DEF rc, s1
  <1>5. CASE rc \in {"success", "no_data"}
    BY <1>0, <1>2, <1>4, <1>5, WorkerBecomes DEF Executing, Opening, Opens
  <1>6. CASE rc \notin {"success", "no_data"}
    BY <1>0, <1>2, <1>3, <1>4, <1>6, WorkerBecomes DEF Executing, Same
  <1>. QED  BY <1>5, <1>6

LEMMA ExecuteAsyncWorkerExecRows ==
    ASSUME TypeOK, Good(stmt), Tied(stmt), NEW c \in Calls, ExecuteAsyncWorkerExec(c)
    PROVE  Executing(c)
  <1>0. calls[c].pc = "cli" /\ calls[c].op = "execute"
    BY DEF ExecuteAsyncWorkerExec
  <1>1. PICK f :
          LET rc == ExecRc(stmt, stmt.prepared, f)
              s1 == Executed(stmt, stmt.prepared, f)
          IN  IF rc \in {"success", "no_data"} THEN Worker(c, "bind", s1, rc, FALSE)
              ELSE \E set \in MessageSet(stmt) :
                   Worker(c, IF set THEN "done" ELSE "bind", s1, rc, set)
    BY DEF ExecuteAsyncWorkerExec
  <1>. DEFINE rc == ExecRc(stmt, stmt.prepared, f)
              s1 == Executed(stmt, stmt.prepared, f)
  <1>2. IF rc \in {"success", "no_data"} THEN Opens(stmt, s1) ELSE Still(stmt, s1)
    BY ExecutedRows DEF Good
  <1>3. rc \notin {"success", "no_data"} => s1.live = stmt.live
    BY OnHandleStill DEF Good, Executed
  <1>4. IF rc \in {"success", "no_data"} THEN Worker(c, "bind", s1, rc, FALSE)
        ELSE \E set \in MessageSet(stmt) :
             Worker(c, IF set THEN "done" ELSE "bind", s1, rc, set)
    BY <1>1
  <1>. HIDE DEF rc, s1
  <1>5. CASE rc \in {"success", "no_data"}
    BY <1>0, <1>2, <1>4, <1>5, WorkerBecomes DEF Executing, Opening, Opens
  <1>6. CASE rc \notin {"success", "no_data"}
    <2>1. PICK set \in MessageSet(stmt) : Worker(c, IF set THEN "done" ELSE "bind", s1, rc, set)
      BY <1>4, <1>6
    <2>2. set \/ (~set /\ ~stmt.live)
      BY DEF MessageSet, Good, Stmt
    <2>3. Worker(c, "done", s1, rc, set) \/ (~stmt.live /\ Worker(c, "bind", s1, rc, set))
      BY <2>1, <2>2
    <2>. QED  BY <1>0, <1>2, <1>3, <1>6, <2>3, WorkerBecomes DEF Executing, Same
  <1>. QED  BY <1>5, <1>6

LEMMA PrepareAsyncWorkerExecRows ==
    ASSUME TypeOK, Good(stmt), Tied(stmt), NEW c \in Calls, PrepareAsyncWorkerExec(c)
    PROVE  Preparing(c)
  <1>0. calls[c].pc = "cli" /\ calls[c].op = "prepare"
    BY DEF PrepareAsyncWorkerExec
  <1>1. \E f, rc, err : Worker(c, "done", SQLPrepare(stmt, calls[c].q, f), rc, err)
    BY DEF PrepareAsyncWorkerExec
  <1>2. ASSUME NEW f
        PROVE  Still(stmt, SQLPrepare(stmt, calls[c].q, f))
    BY SQLPrepareStill DEF Good
  <1>. QED  BY <1>0, <1>1, <1>2, WorkerBecomes DEF Preparing, Same

LEMMA BindRows ==
    ASSUME TypeOK, Good(stmt), Tied(stmt), NEW c \in Calls,
           ExecAsyncWorkerBind(c) \/ ExecuteAsyncWorkerBind(c)
    PROVE  BindsColumns(c)
  <1>1. ASSUME NEW f
        PROVE  LET t == BindResult(stmt, f)
               IN  SameRows(stmt, t) /\ Tied(t)
                   /\ (t.bindingRowAllocated => stmt.live \/ stmt.bindingRowAllocated)
    BY BindResultRows
  <1>2. CASE ExecAsyncWorkerBind(c)
    <2>1. PICK f :
            LET s1 == BindResult(stmt, f)
            IN  Worker(c, IF s1.colCount > 0 /\ ~BindFailed(s1) THEN "fetching" ELSE "done",
                       s1, calls[c].rc, BindFailed(s1))
      BY <1>2 DEF ExecAsyncWorkerBind
    <2>. DEFINE s1 == BindResult(stmt, f)
    <2>2. Good(s1)
      BY BindResultGood
    <2>3. SameRows(stmt, s1) /\ Tied(s1)
          /\ (s1.bindingRowAllocated => stmt.live \/ stmt.bindingRowAllocated)
      BY <1>1
    <2>4. Worker(c, IF s1.colCount > 0 /\ ~BindFailed(s1) THEN "fetching" ELSE "done",
                 s1, calls[c].rc, BindFailed(s1))
      BY <2>1
    <2>. HIDE DEF s1
    <2>5. \/ s1.colCount > 0 /\ Worker(c, "fetching", s1, calls[c].rc, BindFailed(s1))
          \/ /\ BindFailed(s1) \/ s1.colCount = 0
             /\ Worker(c, "done", s1, calls[c].rc, BindFailed(s1))
      <3>1. s1.colCount > 0 \/ s1.colCount = 0
        BY <2>2 DEF Good, Stmt
      <3>. QED  BY <2>4, <3>1
    <2>. QED  BY <1>2, <2>3, <2>5, WorkerBecomes DEF ExecAsyncWorkerBind, BindsColumns, Binding
  <1>3. CASE ExecuteAsyncWorkerBind(c)
    BY ZenonT(60), <1>1, <1>3, WorkerBecomes DEF ExecuteAsyncWorkerBind, BindsColumns, Binding
  <1>. QED  BY <1>2, <1>3

LEMMA WorkerFetchDataRows ==
    ASSUME TypeOK, Good(stmt), Tied(stmt), NEW c \in Calls, WorkerFetchData(c)
    PROVE  FetchesRow(c)
  <1>0. calls[c].pc = "fetching"
    BY DEF WorkerFetchData
  <1>1. PICK f :
          LET rc == FetchRc(stmt, f)
              s1 == SQLFetch(stmt, f)
          IN  IF rc = "success" THEN Worker(c, "fetching", PushRow(s1), calls[c].rc, FALSE)
              ELSE Worker(c, "done", s1, rc, rc = "error" /\ calls[c].op = "fetchAll")
    BY DEF WorkerFetchData
  <1>. DEFINE rc == FetchRc(stmt, f)
              s1 == SQLFetch(stmt, f)
              s2 == PushRow(s1)
              q  == <<BoundRow(s1)>>
  <1>2. IF rc = "success" THEN Worker(c, "fetching", s2, calls[c].rc, FALSE)
        ELSE Worker(c, "done", s1, rc, rc = "error" /\ calls[c].op = "fetchAll")
    BY <1>1
  <1>3. Good(s1) /\ s1.colCount = stmt.colCount /\ Good(s2) /\ s2.colCount = stmt.colCount
    BY SQLFetchKeeps, PushRowKeeps, KeepsGood, SQLFetchColCount, PushRowColCount
  <1>4. IF rc = "success"
        THEN ReadsOn(stmt, s1, 1) /\ s1.resultSetInC = stmt.resultSetInC /\ NewRows(stmt, q)
        ELSE Still(stmt, s1)
    BY SQLFetchRows
  <1>5. Tied(s1)
    BY <1>4 DEF ReadsOn, Still
  <1>6. ReadsOn(s1, s2, 0) /\ s2.resultSetInC = s1.resultSetInC \o q
    <2>1. ReadsOn(s1, s2, 0) /\ s2.resultSetInC = Append(s1.resultSetInC, BoundRow(s1))
      BY <1>3, <1>5, PushRowRows
    <2>2. s1.resultSetInC \in Seq(Row) /\ BoundRow(s1) \in Row
      BY <1>3, BoundRowType DEF Good, Stmt
    <2>. QED  BY <2>1, <2>2, AppendIsConcat
  <1>7. Len(q) = 1
    OBVIOUS
  <1>. HIDE DEF s1, s2, q
  <1>8. CASE rc = "success"
    <2>1. s1.pos + 0 = s1.pos
      BY <1>3 DEF Good, Stmt
    <2>2. ReadsOn(stmt, s2, 1) /\ s2.resultSetInC = stmt.resultSetInC \o q
      <3>1. ReadsOn(stmt, s1, 1) /\ s1.resultSetInC = stmt.resultSetInC
        BY <1>4, <1>8
      <3>2. s2.pos = s1.pos
        BY <1>6, <2>1 DEF ReadsOn
      <3>3. s2.resultSetInC = stmt.resultSetInC \o q
        BY <1>6, <3>1
      <3>4. ReadsOn(stmt, s2, 1)
        BY <1>6, <3>1, <3>2 DEF ReadsOn
      <3>. QED  BY <3>3, <3>4
    <2>3. stmt' = s2 /\ UNCHANGED hist /\ Becomes(c, "fetching")
      BY <1>2, <1>8, WorkerBecomes
    <2>4. Reading
      BY <1>4, <1>7, <1>8, <2>2, <2>3 DEF Reading, Read
    <2>. QED  BY <1>0, <1>3, <2>3, <2>4 DEF FetchesRow
  <1>9. CASE rc # "success"
    <2>1. /\ stmt' = s1 /\ UNCHANGED hist /\ Becomes(c, "done") /\ calls'[c].rc = rc
          /\ calls'[c].err = (rc = "error" /\ calls[c].op = "fetchAll")
      BY <1>2, <1>9, WorkerBecomes
    <2>2. Same
      BY <1>4, <1>9, <2>1 DEF Same
    <2>. QED  BY <1>0, <1>3, <1>9, <2>1, <2>2 DEF FetchesRow
  <1>. QED  BY <1>8, <1>9

LEMMA FetchAsyncWorkerExecRows ==
    ASSUME TypeOK, Good(stmt), Tied(stmt), NEW c \in Calls, FetchAsyncWorkerExec(c)
    PROVE  HoldsRow(c)
  <1>0. calls[c].pc = "cli" /\ calls[c].op = "fetch"
    BY DEF FetchAsyncWorkerExec
  <1>1. PICK f : Worker(c, "done", SQLFetch(stmt, f), FetchRc(stmt, f), FetchRc(stmt, f) = "error")
    BY DEF FetchAsyncWorkerExec
  <1>. DEFINE s1 == SQLFetch(stmt, f)
  <1>2. IF FetchRc(stmt, f) = "success"
        THEN /\ ReadsOn(stmt, s1, 1) /\ s1.resultSetInC = stmt.resultSetInC
             /\ NewRows(stmt, <<BoundRow(s1)>>)
        ELSE Still(stmt, s1)
    BY SQLFetchRows
  <1>. HIDE DEF s1
  <1>3. /\ stmt' = s1 /\ UNCHANGED hist /\ Becomes(c, "done")
        /\ calls'[c].rc = FetchRc(stmt, f) /\ calls'[c].err = (FetchRc(stmt, f) = "error")
    BY <1>1, WorkerBecomes DEF s1
  <1>4. Len(<<BoundRow(s1)>>) = 1
    OBVIOUS
  <1>. QED  BY <1>0, <1>2, <1>3, <1>4 DEF HoldsRow, Holding, Read, Same

\* The callback of call c.
Settled(c) ==
    /\ calls[c].pc = "done" /\ ~inCallback
    /\ calls'[c] = Idle /\ Others(c)
DeliverKinds(c) ==
    /\ Settled(c)
    /\ IF calls[c].err
       THEN IF calls[c].op \in FetchOps
            THEN Failing /\ stmt' = stmt
            ELSE Same
       ELSE \/ calls[c].op = "exec" /\ IF stmt.colCount = 0 THEN Same ELSE HandingOver
            \/ calls[c].op = "fetchAll" /\ HandingOver
            \/ calls[c].op \in {"prepare", "execute"} /\ Same
            \/ calls[c].op = "fetch" /\ IF calls[c].rc = "success" THEN Answering ELSE Same

LEMMA BuildJsObjectHandsOver ==
    ASSUME TypeOK, Good(stmt), Tied(stmt), NEW op,
           Return(BuildJsObject(stmt), Value(op, stmt, stmt.resultSetInC))
    PROVE  HandingOver
  <1>. DEFINE s1 == BuildJsObject(stmt)
  <1>1. ReadsOn(stmt, s1, 0) /\ s1.resultSetInC = <<>>
    BY BuildJsObjectRows
  <1>. HIDE DEF s1
  <1>2. stmt' = s1 /\ delivered' = delivered \o stmt.resultSetInC /\ failed' = failed
    BY ReturnsValue DEF s1
  <1>. QED  BY <1>1, <1>2, NoRowsRead DEF HandingOver, Read

LEMMA DeliverRows ==
    ASSUME TypeOK, Good(stmt), Tied(stmt), NEW c \in Calls, Deliver(c)
    PROVE  DeliverKinds(c)
  <1>. DEFINE op == calls[c].op
  <1>1. Settled(c)
    BY DEF Deliver, Settle, OnOK, OnError, ExecOnOK, PrepareOnOK, ExecuteOnOK,
       FetchOnOK, FetchAllOnOK, TypeOK, Settled, Others
  <1>2. CASE OnError(c)
    <2>1. calls[c].err /\ Return(stmt, Failure(op, stmt))
      BY <1>2 DEF OnError
    <2>. HIDE DEF op
    <2>2. /\ stmt' = stmt /\ delivered' = delivered
          /\ failed' = IF op \in FetchOps THEN failed \cup {stmt.run} ELSE failed
      BY <2>1, ReturnsFailure
    <2>3. CASE op \in FetchOps
      <3>1. ReadsOn(stmt, stmt', 0)
        BY <2>2 DEF ReadsOn, Good, Stmt
      <3>2. Failing
        BY <2>2, <2>3, <3>1, NoRowsRead DEF Failing, Read
      <3>. QED  BY <1>1, <2>1, <2>2, <2>3, <3>2 DEF DeliverKinds, op
    <2>4. CASE op \notin FetchOps
      BY <1>1, <2>1, <2>2, <2>4, StillSelf DEF DeliverKinds, Same, hist, op
    <2>. QED  BY <2>3, <2>4
  <1>3. CASE ExecOnOK(c)
    <2>1. /\ op = "exec" /\ ~calls[c].err
          /\ IF stmt.colCount = 0 THEN Return(stmt, Value("exec", stmt, <<>>))
             ELSE Return(BuildJsObject(stmt), Value("exec", stmt, stmt.resultSetInC))
      BY <1>3 DEF ExecOnOK, OnOK
    <2>2. IF stmt.colCount = 0 THEN Same ELSE HandingOver
      BY <2>1, ReturnsNoRows, StillSelf, BuildJsObjectHandsOver DEF Same
    <2>. QED  BY <1>1, <2>1, <2>2 DEF DeliverKinds
  <1>4. CASE PrepareOnOK(c) \/ ExecuteOnOK(c)
    <2>1. /\ op \in {"prepare", "execute"} /\ ~calls[c].err
          /\ \E o : Return(stmt, Value(o, stmt, <<>>))
      BY <1>4 DEF PrepareOnOK, ExecuteOnOK, OnOK
    <2>2. Same
      BY <2>1, ReturnsNoRows, StillSelf DEF Same
    <2>. QED  BY <1>1, <2>1, <2>2 DEF DeliverKinds
  <1>5. CASE FetchOnOK(c)
    <2>. DEFINE rc == calls[c].rc
                s1 == ReadRow(stmt)
                r  == BoundRow(stmt)
    <2>1. op = "fetch" /\ ~calls[c].err /\ Return(s1, Answer("fetch", "value", stmt, <<r>>, rc))
      BY <1>5 DEF FetchOnOK, OnOK
    <2>2. Still(stmt, s1)
      BY ReadRowStill DEF Good
    <2>. HIDE DEF s1, r
    <2>3. /\ stmt' = s1 /\ failed' = failed
          /\ delivered' = IF rc = "success" THEN delivered \o <<r>> ELSE delivered
      BY <2>1, ReturnsAnswer
    <2>4. IF rc = "success" THEN Answering ELSE Same
      BY <2>2, <2>3 DEF Answering, Same, hist, r
    <2>. QED  BY <1>1, <2>1, <2>4 DEF DeliverKinds
  <1>6. CASE FetchAllOnOK(c)
    <2>1. /\ op = "fetchAll" /\ ~calls[c].err
          /\ Return(BuildJsObject(stmt), Value("fetchAll", stmt, stmt.resultSetInC))
      BY <1>6 DEF FetchAllOnOK, OnOK
    <2>2. HandingOver
      BY <2>1, BuildJsObjectHandsOver
    <2>. QED  BY <1>1, <2>1, <2>2 DEF DeliverKinds
  <1>. QED  BY <1>2, <1>3, <1>4, <1>5, <1>6 DEF Deliver

\* Call c is queued, or the client is turned away.
Queueing(c) ==
    /\ Same /\ UNCHANGED <<stmt, inCallback>>
    /\ MayOverlap \/ (Outstanding = {} /\ ~inCallback)
    /\ \/ UNCHANGED calls
       \/ /\ calls[c].pc = "idle" /\ calls'[c].pc = "queued" /\ calls'[c].op \in Ops \cap AsyncOps
          /\ Others(c)

LEMMA AsyncRows ==
    ASSUME TypeOK, Tied(stmt), NEW c \in Calls, AsyncCall(c)
    PROVE  Queueing(c)
  <1>0. PICK op \in AsyncOps : \E q, guard : Queue(c, op, q, guard)
    BY DEF AsyncCall, AsyncOps, Exec, Prepare, Execute, Fetch, FetchAll
  <1>1. PICK q, guard : Queue(c, op, q, guard)
    BY <1>0
  <1>2. CASE Rejected(op) /\ UNCHANGED <<queue, calls>>
    BY <1>1, <1>2, RejectedSame DEF Queueing, Queue, Rejected
  <1>3. CASE /\ calls' = [calls EXCEPT ![c] = [Idle EXCEPT !.op = op, !.pc = "queued", !.q = q]]
             /\ UNCHANGED <<stmt, hist>>
    <2>1. op \in Ops /\ calls[c].pc = "idle" /\ (MayOverlap \/ (Outstanding = {} /\ ~inCallback))
          /\ inCallback' = inCallback
      BY <1>1 DEF Queue
    <2>2. Same
      BY <1>3, StillSelf DEF Same
    <2>3. /\ calls'[c].pc = "queued" /\ calls'[c].op = op
          /\ \A d \in Calls : d # c => calls'[d] = calls[d]
      BY <1>3 DEF TypeOK, Idle
    <2>. QED  BY <1>3, <2>1, <2>2, <2>3 DEF Queueing, Others
  <1>. QED  BY <1>1, <1>2, <1>3 DEF Queue

-----------------------------------------------------------------------------
(* Every step is of one of these kinds *)

SyncStep ==
    /\ SyncKinds /\ UNCHANGED calls
    /\ MayOverlap \/ Outstanding = {} \/ inCallback
    /\ inCallback' => inCallback \/ ("execSync" \in Ops /\ (MayOverlap \/ Outstanding = {}))
RowStep ==
    \/ UNCHANGED vars
    \/ SyncStep
    \/ \E c \in Calls : Queueing(c) \/ WorkerKinds(c) \/ DeliverKinds(c)

LEMMA SyncCallCallback ==
    ASSUME SyncCall
    PROVE  /\ MayOverlap \/ Outstanding = {} \/ inCallback
           /\ inCallback' => inCallback \/ ("execSync" \in Ops /\ (MayOverlap \/ Outstanding = {}))
  <1>1. ASSUME NEW q, NEW cb, ExecSync(q, cb)
        PROVE  MainCall("execSync")
    BY <1>1 DEF ExecSync
  <1>2. ASSUME NEW op, MainCall(op)
        PROVE  op \in Ops /\ (MayOverlap \/ Outstanding = {})
    BY <1>2 DEF MainCall
  <1>3. \/ \E q, cb : ExecSync(q, cb)
        \/ ExecSyncReturn
        \/ (\E op : MainCall(op)) /\ UNCHANGED inCallback
    BY DEF SyncCall, PrepareSync, ExecuteSync, FetchSync, FetchAllSync, NextResult,
           CloseCursor, Close, NumFields, FieldValue, FieldInfo, ColumnEntry,
           SetStmtAttr, GetStmtAttr, NumRows, StmtError, HandleCall
  <1>4. ExecSyncReturn => inCallback /\ ~inCallback'
    BY DEF ExecSyncReturn
  <1>. QED  BY <1>1, <1>2, <1>3, <1>4

LEMMA WorkerRows ==
    ASSUME TypeOK, Good(stmt), Tied(stmt), QueueExact, NEW c \in Calls, WorkerStep(c)
    PROVE  WorkerKinds(c)
  BY StartRows, ExecAsyncWorkerExecRows, ExecuteAsyncWorkerExecRows,
     PrepareAsyncWorkerExecRows, BindRows, WorkerFetchDataRows, FetchAsyncWorkerExecRows
  DEF WorkerStep, WorkerKinds

LEMMA RowSteps ==
    ASSUME TypeOK, Good(stmt), Tied(stmt), QueueExact, [Next]_vars
    PROVE  RowStep
  <1>1. CASE SyncCall
    BY <1>1, SyncRows, SyncLeavesCalls, SyncCallCallback DEF RowStep, SyncStep
  <1>2. ASSUME NEW c \in Calls, AsyncCall(c) \/ WorkerStep(c) \/ Deliver(c)
        PROVE  RowStep
    BY <1>2, AsyncRows, WorkerRows, DeliverRows DEF RowStep
  <1>. QED  BY <1>1, <1>2 DEF Next, RowStep

\* What every step keeps, for any client.
Sane(c) ==
    /\ calls[c].pc # "idle" => calls[c].op \in Ops \cap AsyncOps
    /\ calls[c].pc = "fetching" => calls[c].op \in {"exec", "fetchAll"}
    /\ calls[c].pc = "bind" => calls[c].op \in {"exec", "execute"}
RInv == IInv /\ QueueExact /\ Tied(stmt) /\ \A c \in Calls : Sane(c)

LEMMA WorkerKindsOfRows ==
    ASSUME NEW c \in Calls, WorkerKinds(c)
    PROVE  /\ calls[c].pc \in {"queued", "cli", "bind", "fetching"}
           /\ Others(c) /\ calls'[c].op = calls[c].op
           /\ Same \/ Opening \/ Binding \/ Reading \/ (HoldsRow(c) /\ Holding)
  <1>1. CASE HoldsRow(c)
    BY <1>1 DEF HoldsRow, Becomes
  <1>2. CASE FetchesRow(c)
    BY <1>2 DEF FetchesRow, Becomes
  <1>3. CASE Starting(c) \/ Executing(c) \/ Preparing(c)
    BY <1>3 DEF Starting, Executing, Preparing, Becomes
  <1>4. CASE BindsColumns(c)
    BY <1>4 DEF BindsColumns, Becomes
  <1>. QED  BY <1>1, <1>2, <1>3, <1>4 DEF WorkerKinds

LEMMA KindsKeepTied ==
    ASSUME Tied(stmt), RowStep
    PROVE  Tied(stmt')
  <1>1. CASE UNCHANGED vars
    BY <1>1 DEF vars, Tied
  <1>2. \/ UNCHANGED vars
        \/ Same \/ Opening \/ Binding \/ Reading \/ HandingOver \/ ExecSyncing \/ Nexting
        \/ Holding \/ Answering \/ Failing
    <2>1. CASE SyncStep
      BY <2>1 DEF SyncStep, SyncKinds
    <2>2. ASSUME NEW c \in Calls, WorkerKinds(c)
          PROVE  Same \/ Opening \/ Binding \/ Reading \/ Holding
      BY <2>2, WorkerKindsOfRows
    <2>3. ASSUME NEW c \in Calls, DeliverKinds(c)
          PROVE  Same \/ HandingOver \/ Answering \/ Failing
      BY <2>3 DEF DeliverKinds
    <2>. QED  BY <2>1, <2>2, <2>3 DEF RowStep, Queueing
  <1>3. ASSUME NEW q, Read(q)
        PROVE  Tied(stmt')
    BY <1>3 DEF Read, ReadsOn
  <1>. QED  BY <1>1, <1>2, <1>3 DEF Same, Still, Opening, Binding, Reading, HandingOver,
            ExecSyncing, Nexting, Holding, Answering, Failing

LEMMA RowStepSane ==
    ASSUME CallsType, \A c \in Calls : Sane(c), RowStep
    PROVE  \A c \in Calls : Sane(c)'
  <1>1. CASE UNCHANGED vars \/ SyncStep
    BY <1>1 DEF vars, SyncStep, Sane
  <1>2. ASSUME NEW c \in Calls, Queueing(c)
        PROVE  \A d \in Calls : Sane(d)'
    BY <1>2 DEF Queueing, Others, Sane
  <1>3. ASSUME NEW c \in Calls, WorkerKinds(c)
        PROVE  \A d \in Calls : Sane(d)'
    BY <1>3 DEF WorkerKinds, Starting, Executing, Preparing, BindsColumns, FetchesRow,
       HoldsRow, Becomes, Others, Sane
  <1>4. ASSUME NEW c \in Calls, DeliverKinds(c)
        PROVE  \A d \in Calls : Sane(d)'
    BY <1>4 DEF DeliverKinds, Settled, Others, Idle, Sane
  <1>. QED  BY <1>1, <1>2, <1>3, <1>4 DEF RowStep

LEMMA InitRInv ==
    ASSUME Init
    PROVE  RInv
  BY InitInv, InitQueue DEF RInv, PInv, Init, Idle, Tied, Sane

LEMMA NextKeepsRInv ==
    ASSUME RInv, [Next]_vars
    PROVE  RInv' /\ RowStep
  <1>1. IInv'
    BY NextKeepsInv DEF RInv
  <1>2. RowStep
    BY RowSteps DEF RInv, IInv
  <1>3. QueueExact'
    BY <1>1, StepKinds, StepKeepsQueue DEF RInv, IInv, TypeOK, PInv, CallsType
  <1>4. Tied(stmt') /\ \A c \in Calls : Sane(c)'
    BY <1>2, KindsKeepTied, RowStepSane DEF RInv, IInv, TypeOK, CallsType
  <1>. QED  BY <1>1, <1>2, <1>3, <1>4 DEF RInv

LEMMA RInvariant == Spec => []RInv
  BY InitRInv, NextKeepsRInv, PTL DEF Spec

-----------------------------------------------------------------------------
(* A client that waits has one call outstanding *)

Alone ==
    /\ \A c, d \in Outstanding : c = d
    /\ inCallback => Outstanding = {}

\* Call c reads rows into resultSetInC, or is about to hand them over.
InBulk(c) ==
    \/ calls[c].pc = "fetching"
    \/ calls[c].pc = "done" /\ calls[c].op = "fetchAll"
    \/ calls[c].pc = "done" /\ calls[c].op = "exec" /\ ~calls[c].err /\ stmt.colCount > 0
Bulk == \E c \in Calls : InBulk(c)

LEMMA OnlyOne ==
    ASSUME Alone, NEW c \in Calls, calls[c].pc # "idle"
    PROVE  /\ \A d \in Calls : d # c => calls[d].pc = "idle"
           /\ ~inCallback
  BY DEF Alone, Outstanding

LEMMA NoneOutstanding ==
    ASSUME Outstanding = {}
    PROVE  ~FetchInHand /\ ~Bulk /\ \A c \in Calls : calls[c].pc = "idle"
  BY DEF Outstanding, FetchInHand, Bulk, InBulk

LEMMA RowStepAlone ==
    ASSUME Alone, ~MayOverlap, RowStep
    PROVE  Alone'
  <1>1. CASE UNCHANGED vars \/ SyncStep
    <2>1. Outstanding' = Outstanding
      BY <1>1 DEF vars, SyncStep, Outstanding
    <2>. QED  BY <1>1, <2>1 DEF vars, SyncStep, Alone
  <1>2. ASSUME NEW c \in Calls, Queueing(c)
        PROVE  Alone'
    <2>1. Outstanding' \subseteq {c} /\ ~inCallback'
      BY <1>2, NoneOutstanding DEF Queueing, Others, Outstanding
    <2>. QED  BY <2>1 DEF Alone
  <1>3. ASSUME NEW c \in Calls, WorkerKinds(c) \/ DeliverKinds(c)
        PROVE  Alone'
    <2>1. calls[c].pc # "idle" /\ Others(c)
      <3>1. CASE WorkerKinds(c)
        BY <3>1, WorkerKindsOfRows
      <3>2. CASE DeliverKinds(c)
        BY <3>2 DEF DeliverKinds, Settled
      <3>. QED  BY <1>3, <3>1, <3>2
    <2>2. Outstanding' \subseteq {c} /\ ~inCallback'
      BY <2>1, OnlyOne DEF Others, Outstanding
    <2>. QED  BY <2>2 DEF Alone
  <1>. QED  BY <1>1, <1>2, <1>3 DEF RowStep

\* The row of an asynchronous fetch is in hand from its worker to its callback,
\* and nothing else happens to the rows meanwhile.
HandStep ==
    \/ UNCHANGED vars
    \/ /\ ~FetchInHand /\ ~FetchInHand'
       /\ \/ Same \/ Binding \/ Reading \/ HandingOver \/ Failing
          \/ (MayOverlap \/ ~Bulk) /\ (Opening \/ ExecSyncing \/ Nexting)
    \/ ~FetchInHand /\ FetchInHand' /\ ~Bulk /\ Holding
    \/ FetchInHand /\ ~FetchInHand' /\ Answering

LEMMA NeverInHand ==
    ASSUME MayOverlap, "fetch" \notin Ops,
           \A c \in Calls : Sane(c), \A c \in Calls : Sane(c)', RowStep
    PROVE  HandStep
  <1>1. ~FetchInHand /\ ~FetchInHand'
    BY DEF FetchInHand, Sane
  <1>2. CASE SyncStep
    BY <1>1, <1>2 DEF SyncStep, SyncKinds, HandStep
  <1>3. ASSUME NEW c \in Calls, WorkerKinds(c)
        PROVE  HandStep
    <2>1. ~HoldsRow(c)
      BY DEF Sane, HoldsRow
    <2>2. Same \/ Opening \/ Binding \/ Reading
      BY <1>3, <2>1, WorkerKindsOfRows
    <2>. QED  BY <1>1, <2>2 DEF HandStep
  <1>4. ASSUME NEW c \in Calls, DeliverKinds(c)
        PROVE  HandStep
    <2>1. calls[c].op # "fetch"
      BY <1>4 DEF Sane, DeliverKinds, Settled
    <2>2. Same \/ HandingOver \/ Failing
      BY <1>4, <2>1 DEF DeliverKinds
    <2>. QED  BY <1>1, <2>2 DEF HandStep
  <1>5. ASSUME NEW c \in Calls, Queueing(c)
        PROVE  HandStep
    BY <1>1, <1>5 DEF HandStep, Queueing
  <1>. QED  BY <1>2, <1>3, <1>4, <1>5 DEF RowStep, HandStep

LEMMA AloneInHand ==
    ASSUME ~MayOverlap, Alone, \A c \in Calls : Sane(c), RowStep
    PROVE  HandStep
  <1>1. CASE SyncStep
    <2>1. Outstanding = {}
      BY <1>1 DEF SyncStep, Alone
    <2>2. ~FetchInHand /\ ~FetchInHand' /\ ~Bulk
      BY <1>1, <2>1, NoneOutstanding DEF SyncStep, FetchInHand
    <2>. QED  BY <1>1, <2>2 DEF SyncStep, SyncKinds, HandStep
  <1>2. ASSUME NEW c \in Calls, Queueing(c)
        PROVE  HandStep
    <2>1. \A d \in Calls : calls[d].pc = "idle"
      BY <1>2, NoneOutstanding DEF Queueing
    <2>2. ~FetchInHand /\ ~FetchInHand'
      BY <1>2, <2>1 DEF Queueing, Others, FetchInHand
    <2>. QED  BY <1>2, <2>2 DEF HandStep, Queueing
  <1>3. ASSUME NEW c \in Calls, WorkerKinds(c)
        PROVE  HandStep
    <2>1. calls[c].pc \in {"queued", "cli", "bind", "fetching"} /\ Others(c)
          /\ calls'[c].op = calls[c].op
      BY <1>3, WorkerKindsOfRows
    <2>2. \A d \in Calls : d # c => calls[d].pc = "idle" /\ calls'[d].pc = "idle"
      BY <2>1, OnlyOne DEF Others
    <2>3. ~FetchInHand
      BY <2>1, <2>2 DEF FetchInHand
    <2>4. CASE HoldsRow(c)
      <3>1. ~Bulk
        BY <2>2, <2>4 DEF HoldsRow, Bulk, InBulk
      <3>2. PICK f : /\ calls'[c].rc = FetchRc(stmt, f)
                     /\ calls'[c].err <=> FetchRc(stmt, f) = "error"
                     /\ IF FetchRc(stmt, f) = "success" THEN Holding ELSE Same
        BY <2>4 DEF HoldsRow
      <3>3. CASE FetchRc(stmt, f) = "success"
        <4>1. FetchInHand'
          BY <2>1, <2>4, <3>2, <3>3 DEF HoldsRow, Becomes, FetchInHand
        <4>. QED  BY <2>3, <3>1, <3>2, <3>3, <4>1 DEF HandStep
      <3>4. CASE FetchRc(stmt, f) # "success"
        <4>1. ~FetchInHand'
          BY <2>2, <3>2, <3>4 DEF FetchInHand
        <4>. QED  BY <2>3, <3>2, <3>4, <4>1 DEF HandStep
      <3>. QED  BY <3>3, <3>4
    <2>5. CASE ~HoldsRow(c)
      <3>1. ~FetchInHand'
        <4>1. calls'[c].pc # "done" \/ calls[c].op # "fetch"
          BY <1>3, <2>5 DEF WorkerKinds, Starting, Executing, Preparing, BindsColumns,
             FetchesRow, Becomes, Sane
        <4>. QED  BY <2>1, <2>2, <4>1 DEF FetchInHand
      <3>2. Same \/ Opening \/ Binding \/ Reading
        BY <1>3, <2>5, WorkerKindsOfRows
      <3>3. Opening => Same \/ Binding \/ Reading \/ ~Bulk
        <4>1. CASE Executing(c)
          BY <2>2, <4>1 DEF Executing, Bulk, InBulk
        <4>2. CASE ~Executing(c)
          BY <1>3, <2>5, <4>2 DEF WorkerKinds, Starting, Preparing, BindsColumns, FetchesRow
        <4>. QED  BY <4>1, <4>2
      <3>. QED  BY <2>3, <3>1, <3>2, <3>3 DEF HandStep
    <2>. QED  BY <2>4, <2>5
  <1>4. ASSUME NEW c \in Calls, DeliverKinds(c)
        PROVE  HandStep
    <2>1. calls[c].pc = "done" /\ calls'[c] = Idle /\ Others(c)
      BY <1>4 DEF DeliverKinds, Settled
    <2>2. \A d \in Calls : d # c => calls[d].pc = "idle" /\ calls'[d].pc = "idle"
      BY <2>1, OnlyOne DEF Others
    <2>3. ~FetchInHand'
      BY <2>1, <2>2 DEF FetchInHand, Idle
    <2>4. FetchInHand <=> calls[c].op = "fetch" /\ calls[c].rc = "success" /\ ~calls[c].err
      BY <2>1, <2>2 DEF FetchInHand
    <2>5. CASE FetchInHand
      <3>1. Answering
        BY <1>4, <2>4, <2>5 DEF DeliverKinds
      <3>. QED  BY <2>3, <2>5, <3>1 DEF HandStep
    <2>6. CASE ~FetchInHand
      <3>1. Same \/ HandingOver \/ Failing
        BY <1>4, <2>4, <2>6 DEF DeliverKinds
      <3>. QED  BY <2>3, <2>6, <3>1 DEF HandStep
    <2>. QED  BY <2>5, <2>6
  <1>. QED  BY <1>1, <1>2, <1>3, <1>4 DEF RowStep, HandStep

=============================================================================
