---------------------------- MODULE DbStmtProofs ----------------------------
(***************************************************************************)
(* Proofs about DbStmt: for any queries, shapes, numbers of rows and calls *)
(* and any size of the pool, whatever methods the client calls in whatever *)
(* order, and whichever CLI calls fail.                                    *)
(***************************************************************************)
EXTENDS DbStmt, TLAPS

(* The invariant of the statement object *)

Described(s) == s.bindingRowAllocated => s.colDescAllocated

\* stmtAllocated is exact, and resultSetAvailable outlives the handle only
\* where a CLI call has got the dropped handle before.
Handled(s) ==
    /\ s.live <=> s.stmtAllocated
    /\ s.resultSetAvailable /\ "handle" \notin s.misuse => s.live

Good(s) == s \in Stmt /\ Described(s) /\ Handled(s) /\ s.pos <= NRows

\* What the operators on the record do to the flags: nothing.
Keeps(s, t) ==
    /\ t \in Stmt /\ t.pos <= NRows
    /\ t.bindingRowAllocated = s.bindingRowAllocated
    /\ t.colDescAllocated = s.colDescAllocated
    /\ t.resultSetAvailable = s.resultSetAvailable
    /\ t.stmtAllocated = s.stmtAllocated /\ t.live = s.live
    /\ s.misuse \subseteq t.misuse

LEMMA KeepsGood ==
    ASSUME NEW s, NEW t, Good(s), Keeps(s, t)
    PROVE  Good(t)
  BY DEF Keeps, Good, Described, Handled

LEMMA KeepsSelf ==
    ASSUME NEW s, Good(s)
    PROVE  Keeps(s, s)
  BY DEF Keeps, Good

LEMMA KeepsTwice ==
    ASSUME NEW s, NEW t, NEW u, Keeps(s, t), Keeps(t, u)
    PROVE  Keeps(s, u)
  BY DEF Keeps

-----------------------------------------------------------------------------
(* Memory *)

LEMMA MisuseType ==
    ASSUME NEW c, NEW k \in MisuseKinds
    PROVE  Misuse(c, k) \in SUBSET MisuseKinds
  BY DEF Misuse

LEMMA ColumnsMisuseType ==
    ASSUME NEW s
    PROVE  ColumnsMisuse(s) \in SUBSET MisuseKinds
  BY MisuseType DEF ColumnsMisuse, MisuseKinds

LEMMA BindingsMisuseType ==
    ASSUME NEW s
    PROVE  BindingsMisuse(s) \in SUBSET MisuseKinds
  BY MisuseType DEF BindingsMisuse, MisuseKinds

LEMMA NoRowType == NoRow \in Row
  BY DEF NoRow, Row

LEMMA FreeBindingRowGood ==
    ASSUME NEW s, s \in Stmt, Handled(s), s.pos <= NRows
    PROVE  Good(FreeBindingRow(s)) /\ ~FreeBindingRow(s).bindingRowAllocated
  <1>. DEFINE m == s.misuse \cup Misuse(s.colCount > s.bindingN, "bindings")
              b == IF s.bound = "row" THEN "freed" ELSE s.bound
  <1>1. m \in SUBSET MisuseKinds /\ s.misuse \subseteq m
    BY MisuseType DEF Stmt, MisuseKinds
  <1>2. b \in {"none", "row", "freed"}
    BY DEF Stmt
  <1>3. FreeBindingRow(s) = [s EXCEPT !.bindingRowAllocated = FALSE,
                                      !.bound = b, !.misuse = m]
    BY DEF FreeBindingRow
  <1>. HIDE DEF m, b
  <1>4. FreeBindingRow(s) \in Stmt
    BY <1>1, <1>2, <1>3 DEF Stmt
  <1>. QED  BY <1>1, <1>3, <1>4 DEF Good, Stmt, Described, Handled

\* In between, the row may be bound without its descriptions.
LEMMA FreeColumnsGood ==
    ASSUME NEW s, Good(s)
    PROVE  Good(FreeColumns(s))
  <1>. DEFINE s1 == IF s.colDescAllocated THEN FreeColumnDescriptions(s) ELSE s
  <1>1. /\ s1 \in Stmt /\ Handled(s1) /\ s1.pos <= NRows
        /\ ~s1.bindingRowAllocated => Described(s1)
    BY ZenonT(60) DEF Good, Stmt, Described, Handled, FreeColumnDescriptions, Misuse, MisuseKinds
  <1>. HIDE DEF s1
  <1>2. CASE s1.bindingRowAllocated
    <2>1. Good(FreeBindingRow(s1))
      BY <1>1, FreeBindingRowGood
    <2>. QED  BY <1>2, <2>1 DEF FreeColumns, s1
  <1>3. CASE ~s1.bindingRowAllocated
    BY <1>1, <1>3 DEF Good, FreeColumns, s1
  <1>. QED  BY <1>2, <1>3

LEMMA PopulateGood ==
    ASSUME NEW s, Good(s), ~s.bindingRowAllocated, NEW f
    PROVE  Good(PopulateColumnDescriptions(s, f))
  BY DEF Good, Stmt, Described, Handled, PopulateColumnDescriptions

LEMMA BindRowGood ==
    ASSUME NEW s, Good(s), s.colDescAllocated, NEW f
    PROVE  Good(BindRow(s, f))
  <1>. DEFINE m  == s.misuse \cup ColumnsMisuse(s)
              s1 == [s EXCEPT !.bindingN = s.colCount, !.bindingRow = NoRow,
                              !.misuse = m]
  <1>1. m \in SUBSET MisuseKinds /\ s.misuse \subseteq m
    BY ColumnsMisuseType DEF Good, Stmt
  <1>2. Keeps(s, s1)
    <2>. HIDE DEF m
    <2>1. s1 \in Stmt
      BY <1>1, NoRowType DEF Good, Stmt
    <2>. QED  BY <1>1, <2>1 DEF Keeps, Good, Stmt
  <1>3. s1.colDescAllocated /\ Good(s1)
    BY <1>2, KeepsGood DEF Keeps
  <1>4. BindRow(s, f) =
          IF ~s.live \/ f = "bind"
          THEN [s1 EXCEPT !.bindingRowAllocated = FALSE,
                          !.bound = IF s.live THEN "freed" ELSE s1.bound]
          ELSE [s1 EXCEPT !.bindingRowAllocated = TRUE, !.bound = "row"]
    BY DEF BindRow
  <1>. HIDE DEF s1
  <1>5. Good([s1 EXCEPT !.bindingRowAllocated = FALSE, !.bound = "freed"])
    BY ZenonT(60), <1>3 DEF Good, Stmt, Described, Handled
  <1>6. Good([s1 EXCEPT !.bindingRowAllocated = FALSE, !.bound = s1.bound])
    BY ZenonT(60), <1>3 DEF Good, Stmt, Described, Handled
  <1>7. Good([s1 EXCEPT !.bindingRowAllocated = TRUE, !.bound = "row"])
    BY ZenonT(60), <1>3 DEF Good, Stmt, Described, Handled
  <1>. QED  BY <1>4, <1>5, <1>6, <1>7

LEMMA BindColDataGood ==
    ASSUME NEW s, Good(s), NEW f
    PROVE  Good(BindColData(s, f))
  <1>. DEFINE s1 == IF s.bindingRowAllocated THEN FreeBindingRow(s) ELSE s
              s2 == IF s1.colDescAllocated THEN s1
                    ELSE PopulateColumnDescriptions(s1, f)
  <1>1. Good(s1) /\ ~s1.bindingRowAllocated
    BY FreeBindingRowGood DEF Good, Stmt
  <1>2. Good(s2)
    BY <1>1, PopulateGood
  <1>3. BindColData(s, f) = IF s2.colDescAllocated THEN BindRow(s2, f) ELSE s2
    BY DEF BindColData
  <1>. HIDE DEF s2
  <1>. QED  BY <1>2, <1>3, BindRowGood

-----------------------------------------------------------------------------
(* CLI calls *)

LEMMA OnHandleKeeps ==
    ASSUME NEW s, Good(s)
    PROVE  /\ Keeps(s, OnHandle(s))
           /\ ~s.live => "handle" \in OnHandle(s).misuse
  BY DEF Good, Keeps, Stmt, OnHandle, Misuse, MisuseKinds

LEMMA OpenedKeeps ==
    ASSUME NEW s, Good(s), NEW r \in Seq(Shapes)
    PROVE  Keeps(s, Opened(s, r))
  <1>. DEFINE k == s.run + 1
  <1>1. PICK sh \in Shapes \cup {NoShape}, q \in Seq(Shapes) :
           Opened(s, r) = [s EXCEPT !.open = sh, !.rest = q, !.pos = 0, !.run = k]
    <2>1. CASE r = <<>>
      BY <2>1 DEF Opened
    <2>2. CASE r # <<>>
      <3>1. Head(r) \in Shapes /\ Tail(r) \in Seq(Shapes)
        BY <2>2
      <3>. QED  BY <2>2, <3>1 DEF Opened
    <2>. QED  BY <2>1, <2>2
  <1>2. k \in Nat
    BY DEF Good, Stmt
  <1>. HIDE DEF k
  <1>3. [s EXCEPT !.open = sh, !.rest = q, !.pos = 0, !.run = k] \in Stmt
    BY <1>2 DEF Good, Stmt
  <1>. QED  BY <1>1, <1>3, ShapeAssumption DEF Good, Keeps, Stmt

\* These two may set resultSetAvailable, on a live handle.
LEMMA ExecutedGood ==
    ASSUME NEW s, Good(s), NEW q \in Queries \cup {NoQuery}, NEW f
    PROVE  Good(Executed(s, q, f))
  <1>1. CASE ExecRc(s, q, f) \in {"success", "no_data"}
    <2>. DEFINE t == Opened(s, Results[q])
                a == t.resultSetAvailable \/ (q \in Procs /\ Results[q] # <<>>)
    <2>1. q \in Queries /\ s.live
      BY <1>1 DEF ExecRc
    <2>2. Keeps(s, t)
      BY <2>1, OpenedKeeps, ShapeAssumption
    <2>3. Good(t)
      BY <2>2, KeepsGood
    <2>4. Executed(s, q, f) = [t EXCEPT !.resultSetAvailable = a]
      BY <1>1 DEF Executed
    <2>5. a \in BOOLEAN
      OBVIOUS
    <2>6. t.live
      BY <2>1, <2>2 DEF Keeps
    <2>. HIDE DEF t, a
    <2>. QED  BY <2>3, <2>4, <2>5, <2>6 DEF Good, Stmt, Described, Handled
  <1>2. CASE ExecRc(s, q, f) \notin {"success", "no_data"}
    BY <1>2, OnHandleKeeps, KeepsGood DEF Executed
  <1>. QED  BY <1>1, <1>2

LEMMA ExecDirectGood ==
    ASSUME NEW s, Good(s), NEW q \in Queries \cup {NoQuery}, NEW f
    PROVE  Good(ExecDirect(s, q, f))
  <1>1. CASE ExecRc(s, q, f) \in {"success", "no_data"}
    <2>. DEFINE t == Executed(s, q, f)
    <2>1. ExecDirect(s, q, f) = [t EXCEPT !.prepared = NoQuery]
      BY <1>1 DEF ExecDirect
    <2>2. Good(t)
      BY ExecutedGood
    <2>. HIDE DEF t
    <2>3. ExecDirect(s, q, f) \in Stmt
      BY <2>1, <2>2 DEF Good, Stmt
    <2>4. Keeps(t, ExecDirect(s, q, f))
      BY <2>1, <2>2, <2>3 DEF Good, Keeps, Stmt
    <2>. QED  BY <2>2, <2>4, KeepsGood
  <1>2. CASE ExecRc(s, q, f) \notin {"success", "no_data"}
    BY <1>2, OnHandleKeeps, KeepsGood DEF ExecDirect
  <1>. QED  BY <1>1, <1>2

LEMMA SQLPrepareKeeps ==
    ASSUME NEW s, Good(s), NEW q \in Queries \cup {NoQuery}, NEW f
    PROVE  Keeps(s, SQLPrepare(s, q, f))
  <1>1. [s EXCEPT !.prepared = q] \in Stmt
    BY DEF Good, Stmt
  <1>2. Keeps(s, [s EXCEPT !.prepared = q])
    BY <1>1 DEF Good, Keeps, Stmt
  <1>. QED  BY <1>2, OnHandleKeeps DEF SQLPrepare

LEMMA SQLNumResultColsKeeps ==
    ASSUME NEW s, Good(s)
    PROVE  /\ Keeps(s, SQLNumResultCols(s))
           /\ ~s.live => "handle" \in SQLNumResultCols(s).misuse
  <1>1. ResultCols(s) \in Nat
    <2>1. ASSUME NEW sh \in Shapes
          PROVE  Cols[sh] \in Nat
      BY ShapeAssumption
    <2>2. CASE s.open # NoShape
      BY <2>1, <2>2 DEF ResultCols, Good, Stmt
    <2>3. CASE s.open = NoShape /\ s.prepared # NoQuery /\ Results[s.prepared] # <<>>
      <3>1. s.prepared \in Queries
        BY <2>3 DEF Good, Stmt
      <3>2. Head(Results[s.prepared]) \in Shapes
        BY <2>3, <3>1, ShapeAssumption
      <3>. QED  BY <2>1, <2>3, <3>2 DEF ResultCols
    <2>. QED  BY <2>2, <2>3 DEF ResultCols
  <1>2. ASSUME NEW k \in Nat
        PROVE  Keeps(s, [s EXCEPT !.colCount = k])
    <2>1. [s EXCEPT !.colCount = k] \in Stmt
      BY DEF Good, Stmt
    <2>. QED  BY <2>1 DEF Good, Keeps, Stmt
  <1>. QED  BY <1>1, <1>2, OnHandleKeeps DEF SQLNumResultCols

LEMMA SQLFetchKeeps ==
    ASSUME NEW s, Good(s), NEW f
    PROVE  Keeps(s, SQLFetch(s, f))
  <1>1. CASE FetchRc(s, f) # "success"
    BY <1>1, OnHandleKeeps DEF SQLFetch
  <1>2. CASE FetchRc(s, f) = "success"
    <2>. DEFINE p == s.pos + 1
                r == IF s.bound = "row"
                     THEN [run |-> s.run, pos |-> p, shape |-> s.open, n |-> s.bindingN]
                     ELSE s.bindingRow
                m == s.misuse \cup Misuse(s.bound = "freed", "bindings")
    <2>1. r \in Row /\ m \in SUBSET MisuseKinds /\ s.misuse \subseteq m
      BY DEF Good, Stmt, Row, MisuseKinds, Misuse
    <2>2. p \in Nat /\ p <= NRows
      BY <1>2, ShapeAssumption DEF Good, Stmt, FetchRc, Left
    <2>3. SQLFetch(s, f) = [s EXCEPT !.pos = p, !.bindingRow = r, !.misuse = m]
      BY <1>2 DEF SQLFetch
    <2>. HIDE DEF p, r, m
    <2>4. SQLFetch(s, f) \in Stmt
      BY <2>1, <2>2, <2>3 DEF Good, Stmt
    <2>. QED  BY <2>1, <2>2, <2>3, <2>4 DEF Good, Keeps, Stmt
  <1>. QED  BY <1>1, <1>2

-----------------------------------------------------------------------------
(* Rows *)

LEMMA BoundRowType ==
    ASSUME NEW s, Good(s)
    PROVE  BoundRow(s) \in Row
  <1>1. [s.bindingRow EXCEPT !.n = s.colCount] \in Row
    BY DEF Good, Stmt, Row
  <1>. QED  BY <1>1, NoRowType DEF BoundRow

LEMMA PushRowKeeps ==
    ASSUME NEW s, Good(s)
    PROVE  Keeps(s, PushRow(s))
  <1>. DEFINE r == BoundRow(s)
              q == Append(s.resultSetInC, r)
              m == s.misuse \cup ColumnsMisuse(s) \cup BindingsMisuse(s)
  <1>1. r \in Row /\ m \in SUBSET MisuseKinds /\ s.misuse \subseteq m
    BY BoundRowType, ColumnsMisuseType, BindingsMisuseType DEF Good, Stmt
  <1>2. q \in Seq(Row)
    BY <1>1 DEF Good, Stmt
  <1>3. PushRow(s) = [s EXCEPT !.resultSetInC = q, !.misuse = m]
    BY DEF PushRow
  <1>. HIDE DEF r, q, m
  <1>4. PushRow(s) \in Stmt
    BY <1>1, <1>2, <1>3 DEF Good, Stmt
  <1>. QED  BY <1>1, <1>3, <1>4 DEF Good, Keeps, Stmt

LEMMA FetchDataKeeps ==
    ASSUME NEW s, Good(s), NEW k \in Nat, k <= Left(s)
    PROVE  Keeps(s, FetchData(s, k))
  <1>1. CASE k = 0
    BY <1>1, KeepsSelf DEF FetchData
  <1>2. CASE k # 0
    <2>. DEFINE row(i) ==
                  IF s.bound = "row" /\ s.bindingRowAllocated
                  THEN [run |-> s.run, pos |-> s.pos + i, shape |-> s.open, n |-> s.colCount]
                  ELSE BoundRow(s)
                p == s.pos + k
                r == IF s.bound = "row" THEN [row(k) EXCEPT !.n = s.bindingN]
                     ELSE s.bindingRow
                q == s.resultSetInC \o [i \in 1..k |-> row(i)]
                m == s.misuse \cup ColumnsMisuse(s) \cup BindingsMisuse(s)
                       \cup Misuse(s.bound = "freed", "bindings")
    <2>1. \A i \in 1..k : row(i) \in Row
      <3>. TAKE i \in 1..k
      <3>1. s.pos + i \in Nat
        BY DEF Good, Stmt
      <3>2. [run |-> s.run, pos |-> s.pos + i, shape |-> s.open, n |-> s.colCount] \in Row
        BY <3>1 DEF Good, Stmt, Row
      <3>. QED  BY <3>2, BoundRowType
    <2>. HIDE DEF row
    <2>2. r \in Row
      <3>1. row(k) \in Row
        BY <1>2, <2>1
      <3>. HIDE DEF row
      <3>. QED  BY <3>1 DEF Good, Stmt, Row
    <2>3. q \in Seq(Row)
      <3>1. [i \in 1..k |-> row(i)] \in Seq(Row)
        BY <2>1
      <3>. QED  BY <3>1 DEF Good, Stmt
    <2>4. m \in SUBSET MisuseKinds /\ s.misuse \subseteq m
      BY ColumnsMisuseType, BindingsMisuseType, MisuseType DEF Good, Stmt, MisuseKinds
    <2>5. p \in Nat /\ p <= NRows
      BY <1>2, ShapeAssumption DEF Good, Stmt, Left
    <2>6. FetchData(s, k) = [s EXCEPT !.pos = p, !.bindingRow = r,
                                      !.resultSetInC = q, !.misuse = m]
      BY <1>2 DEF FetchData, row
    <2>. HIDE DEF p, q, r, m
    <2>7. FetchData(s, k) \in Stmt
      BY ZenonT(60), <2>2, <2>3, <2>4, <2>5, <2>6 DEF Good, Stmt
    <2>. QED  BY SMTT(30), <2>4, <2>5, <2>6, <2>7 DEF Good, Keeps, Stmt
  <1>. QED  BY <1>1, <1>2

LEMMA FetchEndsType ==
    ASSUME NEW s, Good(s), NEW end \in FetchEnds(s)
    PROVE  end.got \in Nat /\ end.got <= Left(s) /\ end.rc \in Rcs
  <1>1. Left(s) \in Nat
    BY ShapeAssumption DEF Good, Stmt, Left
  <1>. QED  BY <1>1 DEF FetchEnds, Rcs, Left

LEMMA BuildJsObjectKeeps ==
    ASSUME NEW s, Good(s)
    PROVE  Keeps(s, BuildJsObject(s))
  <1>. DEFINE m == s.misuse \cup (IF s.resultSetInC = <<>> THEN {} ELSE ColumnsMisuse(s))
                     \cup Misuse(\E i \in DOMAIN s.resultSetInC :
                                    s.resultSetInC[i].n < s.colCount, "row")
  <1>1. m \in SUBSET MisuseKinds /\ s.misuse \subseteq m
    BY ColumnsMisuseType, MisuseType DEF Good, Stmt, MisuseKinds
  <1>. DEFINE q == <<>>
  <1>4. q \in Seq(Row)
    OBVIOUS
  <1>2. BuildJsObject(s) = [s EXCEPT !.resultSetInC = q, !.misuse = m]
    BY DEF BuildJsObject
  <1>. HIDE DEF m, q
  <1>3. BuildJsObject(s) \in Stmt
    BY <1>1, <1>2, <1>4 DEF Good, Stmt
  <1>. QED  BY <1>1, <1>2, <1>3 DEF Good, Keeps, Stmt

LEMMA ReadRowKeeps ==
    ASSUME NEW s, Good(s)
    PROVE  Keeps(s, ReadRow(s))
  <1>. DEFINE m == s.misuse \cup ColumnsMisuse(s) \cup BindingsMisuse(s)
  <1>1. m \in SUBSET MisuseKinds /\ s.misuse \subseteq m
    BY ColumnsMisuseType, BindingsMisuseType DEF Good, Stmt
  <1>2. ReadRow(s) = [s EXCEPT !.misuse = m]
    BY DEF ReadRow
  <1>. HIDE DEF m
  <1>3. ReadRow(s) \in Stmt
    BY <1>1, <1>2 DEF Good, Stmt
  <1>. QED  BY <1>1, <1>2, <1>3 DEF Good, Keeps, Stmt

\* resultSetAvailable is set on a dropped handle only after SQLNumResultCols
\* was called on it.
LEMMA BindResultGood ==
    ASSUME NEW s, Good(s), NEW f
    PROVE  Good(BindResult(s, f))
  <1>. DEFINE s1 == SQLNumResultCols(s)
  <1>1. Keeps(s, s1) /\ (~s.live => "handle" \in s1.misuse)
    BY SQLNumResultColsKeeps
  <1>2. Good(s1)
    BY <1>1, KeepsGood
  <1>3. BindResult(s, f) = IF s1.colCount = 0 THEN s1
                           ELSE BindColData([s1 EXCEPT !.resultSetAvailable = TRUE], f)
    BY DEF BindResult
  <1>. HIDE DEF s1
  <1>4. Good([s1 EXCEPT !.resultSetAvailable = TRUE])
    BY ZenonT(60), <1>1, <1>2 DEF Keeps, Good, Stmt, Described, Handled
  <1>. QED  BY <1>2, <1>3, <1>4, BindColDataGood

-----------------------------------------------------------------------------
(* Replies *)

AnyOp == AsyncOps \cup SyncOps \cup {"none"}

LEMMA AnswerType ==
    ASSUME NEW op \in AnyOp, NEW kind \in {"accepted", "value", "error", "silent"},
           NEW s \in Stmt, NEW rows \in Seq(Row), NEW rc \in Rcs
    PROVE  Answer(op, kind, s, rows, rc) \in Reply
  BY DEF Answer, Reply, AnyOp, Stmt

LEMMA ValueType ==
    ASSUME NEW op \in AnyOp, NEW s \in Stmt, NEW rows \in Seq(Row)
    PROVE  Value(op, s, rows) \in Reply
  BY AnswerType DEF Value, Rcs

LEMMA NoRows == <<>> \in Seq(Row)
  OBVIOUS

LEMMA FailureType ==
    ASSUME NEW op \in AnyOp, NEW s \in Stmt
    PROVE  Failure(op, s) \in Reply
  BY AnswerType, NoRows DEF Failure, Rcs

LEMMA OneRow ==
    ASSUME NEW s, Good(s)
    PROVE  <<BoundRow(s)>> \in Seq(Row)
  BY BoundRowType

\* The conclusion about every action, for what it may change of the statement
\* and of what the client has seen.
Output == /\ Good(stmt') /\ reply' \in Reply
          /\ delivered' \in Seq(Row) /\ failed' \in SUBSET Nat

LEMMA ReturnOutput ==
    ASSUME TypeOK, NEW s, Good(s), NEW r \in Reply, Return(s, r)
    PROVE  Output
  <1>1. stmt' = s /\ reply' = r
    BY DEF Return
  <1>2. r.rows \in Seq(Row) /\ s.run \in Nat
    BY DEF Reply, Good, Stmt
  <1>3. delivered' = delivered \/ delivered' = delivered \o r.rows
    BY DEF Return
  <1>4. delivered' \in Seq(Row)
    <2>1. delivered \in Seq(Row)
      BY DEF TypeOK
    <2>2. ASSUME NEW rows \in Seq(Row)
          PROVE  delivered \o rows \in Seq(Row)
      BY <2>1
    <2>. QED  BY <1>2, <1>3, <2>1, <2>2
  <1>5. failed' = failed \/ failed' = failed \cup {s.run}
    BY DEF Return
  <1>6. failed' \in SUBSET Nat
    BY <1>2, <1>5 DEF TypeOK
  <1>. QED  BY <1>1, <1>4, <1>6 DEF Output

LEMMA RejectedOutput ==
    ASSUME TypeOK, Good(stmt), NEW op \in AnyOp, Rejected(op)
    PROVE  Output
  <1>1. reply' \in Reply
    BY FailureType DEF Rejected, Good
  <1>. QED  BY <1>1 DEF Rejected, Output, hist, TypeOK

LEMMA SameOutput ==
    ASSUME TypeOK, Good(stmt), UNCHANGED <<stmt, reply, hist>>
    PROVE  Output
  BY DEF TypeOK, Output, hist

-----------------------------------------------------------------------------
(* Synchronous methods *)

LEMMA ExecSyncOutput ==
    ASSUME TypeOK, Good(stmt), NEW q \in Queries, NEW cb \in BOOLEAN, ExecSync(q, cb)
    PROVE  Output /\ inCallback' \in BOOLEAN
  <1>. DEFINE op == "execSync"
  <1>0. op \in AnyOp
    BY DEF AnyOp, SyncOps
  <1>. HIDE DEF op
  <1>1. CASE ~stmt.stmtAllocated
    <2>1. Rejected(op) /\ UNCHANGED inCallback
      BY <1>1 DEF ExecSync, Checked, op
    <2>. QED  BY <1>0, <2>1, RejectedOutput DEF TypeOK
  <1>2. CASE stmt.stmtAllocated
    <2>1. PICK f :
            LET s1 == ExecDirect(stmt, q, f)
                s2 == BindResult(s1, f)
            IN  IF ExecRc(stmt, q, f) \notin {"success", "no_data"}
                THEN Return(s1, Failure(op, s1)) /\ UNCHANGED inCallback
                ELSE IF s2.colCount = 0
                THEN Return(s2, Value(op, s2, <<>>)) /\ UNCHANGED inCallback
                ELSE IF BindFailed(s2)
                THEN Return(s2, Failure(op, s2)) /\ UNCHANGED inCallback
                ELSE \E end \in FetchEnds(s2) :
                     LET s3 == FetchData(s2, end.got)
                         s4 == BuildJsObject(s3)
                     IN  /\ Return(IF cb THEN s4 ELSE FreeColumns(s4),
                                   Value(op, s3, s3.resultSetInC))
                         /\ inCallback' = cb
      BY <1>2 DEF ExecSync, Checked, op
    <2>. DEFINE s1 == ExecDirect(stmt, q, f)
                s2 == BindResult(s1, f)
    <2>2. Good(s1)
      BY ExecDirectGood
    <2>3. Good(s2)
      BY <2>2, BindResultGood
    <2>4. /\ s1 \in Stmt /\ s2 \in Stmt
          /\ Failure(op, s1) \in Reply /\ Failure(op, s2) \in Reply
          /\ Value(op, s2, <<>>) \in Reply
      BY <1>0, <2>2, <2>3, FailureType, ValueType, NoRows DEF Good
    <2>5. ASSUME NEW end \in FetchEnds(s2),
                 Return(IF cb THEN BuildJsObject(FetchData(s2, end.got))
                        ELSE FreeColumns(BuildJsObject(FetchData(s2, end.got))),
                        Value(op, FetchData(s2, end.got),
                              FetchData(s2, end.got).resultSetInC))
          PROVE  Output
      <3>. HIDE DEF s2
      <3>. DEFINE s3 == FetchData(s2, end.got)
                  s4 == BuildJsObject(s3)
      <3>1. Good(s3)
        BY <2>3, FetchEndsType, FetchDataKeeps, KeepsGood
      <3>2. Good(s4) /\ Good(FreeColumns(s4))
        BY <3>1, BuildJsObjectKeeps, KeepsGood, FreeColumnsGood
      <3>3. Value(op, s3, s3.resultSetInC) \in Reply
        BY <1>0, <3>1, ValueType DEF Good, Stmt
      <3>4. Good(IF cb THEN s4 ELSE FreeColumns(s4))
        BY <3>2
      <3>. QED  BY <2>5, <3>3, <3>4, ReturnOutput
    <2>. HIDE DEF s1, s2
    <2>6. \/ Return(s1, Failure(op, s1)) /\ UNCHANGED inCallback
          \/ Return(s2, Value(op, s2, <<>>)) /\ UNCHANGED inCallback
          \/ Return(s2, Failure(op, s2)) /\ UNCHANGED inCallback
          \/ Output /\ inCallback' = cb
      BY <2>1, <2>5 DEF s1, s2
    <2>. QED  BY <2>2, <2>3, <2>4, <2>6, ReturnOutput DEF TypeOK
  <1>. QED  BY <1>1, <1>2

LEMMA ExecSyncReturnOutput ==
    ASSUME TypeOK, Good(stmt), ExecSyncReturn
    PROVE  Output
  BY FreeColumnsGood DEF ExecSyncReturn, TypeOK, Output, hist

LEMMA PrepareSyncOutput ==
    ASSUME TypeOK, Good(stmt), NEW q \in Queries, PrepareSync(q)
    PROVE  Output
  <1>. DEFINE op == "prepareSync"
  <1>0. op \in AnyOp
    BY DEF AnyOp, SyncOps
  <1>. HIDE DEF op
  <1>1. \/ Rejected(op)
        \/ \E f : \/ Return(SQLPrepare(stmt, q, f), Value(op, SQLPrepare(stmt, q, f), <<>>))
                 \/ Return(SQLPrepare(stmt, q, f), Failure(op, SQLPrepare(stmt, q, f)))
    BY DEF PrepareSync, Checked, op
  <1>2. ASSUME NEW f
        PROVE  /\ Good(SQLPrepare(stmt, q, f))
               /\ Value(op, SQLPrepare(stmt, q, f), <<>>) \in Reply
               /\ Failure(op, SQLPrepare(stmt, q, f)) \in Reply
    <2>1. Good(SQLPrepare(stmt, q, f))
      BY SQLPrepareKeeps, KeepsGood
    <2>. QED  BY <1>0, <2>1, ValueType, FailureType, NoRows DEF Good
  <1>. QED  BY <1>0, <1>1, <1>2, RejectedOutput, ReturnOutput

LEMMA PreparedType ==
    ASSUME Good(stmt)
    PROVE  stmt.prepared \in Queries \cup {NoQuery}
  BY DEF Good, Stmt

LEMMA ExecuteSyncOutput ==
    ASSUME TypeOK, Good(stmt), ExecuteSync
    PROVE  Output
  <1>. DEFINE op == "executeSync"
  <1>0. op \in AnyOp
    BY DEF AnyOp, SyncOps
  <1>. HIDE DEF op
  <1>1. PICK f :
          LET s1 == Executed(stmt, stmt.prepared, f)
              s2 == BindResult(s1, f)
          IN  \/ Return(s1, Failure(op, s1))
              \/ Return(s2, Failure(op, s2))
              \/ Return(s2, Value(op, s2, <<>>))
    BY DEF ExecuteSync, op
  <1>. DEFINE s1 == Executed(stmt, stmt.prepared, f)
              s2 == BindResult(s1, f)
  <1>2. Good(s1)
    BY PreparedType, ExecutedGood
  <1>3. Good(s2)
    BY <1>2, BindResultGood
  <1>. HIDE DEF s1, s2
  <1>4. /\ Failure(op, s1) \in Reply /\ Failure(op, s2) \in Reply
        /\ Value(op, s2, <<>>) \in Reply
    BY <1>0, <1>2, <1>3, FailureType, ValueType, NoRows DEF Good
  <1>. QED  BY <1>1, <1>2, <1>3, <1>4, ReturnOutput DEF s1, s2

LEMMA FetchRcType ==
    ASSUME NEW s, NEW f
    PROVE  FetchRc(s, f) \in Rcs
  BY DEF FetchRc, Rcs

LEMMA FetchSyncOutput ==
    ASSUME TypeOK, Good(stmt), FetchSync
    PROVE  Output
  <1>. DEFINE op == "fetchSync"
  <1>0. op \in AnyOp
    BY DEF AnyOp, SyncOps
  <1>. HIDE DEF op
  <1>1. \/ Rejected(op)
        \/ \E f : LET s1 == SQLFetch(stmt, f)
                 IN  \/ Return(s1, Failure(op, s1))
                     \/ Return(ReadRow(s1),
                               Answer(op, "value", s1, <<BoundRow(s1)>>, FetchRc(stmt, f)))
    BY DEF FetchSync, Checked, op
  <1>2. ASSUME NEW f
        PROVE  LET s1 == SQLFetch(stmt, f)
               IN  /\ Good(s1) /\ Good(ReadRow(s1))
                   /\ Failure(op, s1) \in Reply
                   /\ Answer(op, "value", s1, <<BoundRow(s1)>>, FetchRc(stmt, f)) \in Reply
    <2>. DEFINE s1 == SQLFetch(stmt, f)
    <2>1. Good(s1)
      BY SQLFetchKeeps, KeepsGood
    <2>. HIDE DEF s1
    <2>2. Good(ReadRow(s1))
      BY <2>1, ReadRowKeeps, KeepsGood
    <2>3. /\ Failure(op, s1) \in Reply
          /\ Answer(op, "value", s1, <<BoundRow(s1)>>, FetchRc(stmt, f)) \in Reply
      BY <1>0, <2>1, FailureType, AnswerType, OneRow, FetchRcType DEF Good
    <2>. QED  BY <2>1, <2>2, <2>3 DEF s1
  <1>. QED  BY <1>0, <1>1, <1>2, RejectedOutput, ReturnOutput

LEMMA FetchAllSyncOutput ==
    ASSUME TypeOK, Good(stmt), NEW cb \in BOOLEAN, FetchAllSync(cb)
    PROVE  Output
  <1>. DEFINE op == "fetchAllSync"
  <1>0. op \in AnyOp
    BY DEF AnyOp, SyncOps
  <1>. HIDE DEF op
  <1>1. \/ Rejected(op)
        \/ \E end \in FetchEnds(stmt) :
             LET s1 == FetchData(stmt, end.got)
             IN  \/ Return(BuildJsObject(s1), Value(op, s1, s1.resultSetInC))
                 \/ Return(s1, Answer(op, "silent", s1, <<>>, end.rc))
                 \/ Return(BuildJsObject(s1), Failure(op, s1))
    BY DEF FetchAllSync, Checked, op
  <1>2. ASSUME NEW end \in FetchEnds(stmt)
        PROVE  LET s1 == FetchData(stmt, end.got)
               IN  /\ Good(s1) /\ Good(BuildJsObject(s1))
                   /\ Value(op, s1, s1.resultSetInC) \in Reply
                   /\ Answer(op, "silent", s1, <<>>, end.rc) \in Reply
                   /\ Failure(op, s1) \in Reply
    <2>. DEFINE s1 == FetchData(stmt, end.got)
    <2>1. Good(s1) /\ end.rc \in Rcs
      BY FetchEndsType, FetchDataKeeps, KeepsGood
    <2>. HIDE DEF s1
    <2>2. Good(BuildJsObject(s1))
      BY <2>1, BuildJsObjectKeeps, KeepsGood
    <2>3. s1 \in Stmt /\ s1.resultSetInC \in Seq(Row)
      BY <2>1 DEF Good, Stmt
    <2>4. /\ Value(op, s1, s1.resultSetInC) \in Reply
          /\ Answer(op, "silent", s1, <<>>, end.rc) \in Reply
          /\ Failure(op, s1) \in Reply
      BY <1>0, <2>1, <2>3, ValueType, AnswerType, FailureType, NoRows
    <2>. QED  BY <2>1, <2>2, <2>4 DEF s1
  <1>. QED  BY <1>0, <1>1, <1>2, RejectedOutput, ReturnOutput

LEMMA NextResultOutput ==
    ASSUME TypeOK, Good(stmt), NextResult
    PROVE  Output
  <1>. DEFINE op == "nextResult"
  <1>0. op \in AnyOp
    BY DEF AnyOp, SyncOps
  <1>. HIDE DEF op
  <1>. DEFINE s1 == IF stmt.live /\ stmt.rest # <<>> THEN Opened(stmt, stmt.rest)
                    ELSE OnHandle(stmt)
  <1>1. \/ Return(s1, Failure(op, s1))
        \/ \E f : LET s2 == BindResult(s1, f)
                 IN  Return(s2, Failure(op, s2)) \/ Return(s2, Value(op, s2, <<>>))
    BY DEF NextResult, op
  <1>2. Good(s1)
    <2>1. stmt.rest \in Seq(Shapes)
      BY DEF Good, Stmt
    <2>. QED  BY <2>1, OpenedKeeps, OnHandleKeeps, KeepsGood
  <1>. HIDE DEF s1
  <1>3. ASSUME NEW f
        PROVE  LET s2 == BindResult(s1, f)
               IN  /\ Good(s2) /\ Failure(op, s2) \in Reply
                   /\ Value(op, s2, <<>>) \in Reply
    <2>1. Good(BindResult(s1, f))
      BY <1>2, BindResultGood
    <2>. QED  BY <1>0, <2>1, FailureType, ValueType, NoRows DEF Good
  <1>4. Failure(op, s1) \in Reply
    BY <1>0, <1>2, FailureType DEF Good
  <1>. QED  BY <1>1, <1>2, <1>3, <1>4, ReturnOutput

LEMMA CloseCursorOutput ==
    ASSUME TypeOK, Good(stmt), CloseCursor
    PROVE  Output
  <1>. DEFINE op == "closeCursor"
              s1 == OnHandle(stmt)
              s2 == [s1 EXCEPT !.open = NoShape]
  <1>0. op \in AnyOp
    BY DEF AnyOp, SyncOps
  <1>1. Return(s2, Value(op, stmt, <<>>)) \/ Return(s2, Failure(op, stmt))
    BY DEF CloseCursor
  <1>2. Good(s1)
    BY OnHandleKeeps, KeepsGood
  <1>. HIDE DEF op, s1
  <1>3. Good(s2)
    <2>1. s2 \in Stmt
      BY <1>2 DEF Good, Stmt
    <2>2. Keeps(s1, s2)
      BY <1>2, <2>1 DEF Keeps, Good, Stmt
    <2>. QED  BY <1>2, <2>2, KeepsGood
  <1>4. Value(op, stmt, <<>>) \in Reply /\ Failure(op, stmt) \in Reply
    BY <1>0, FailureType, ValueType, NoRows DEF Good
  <1>. QED  BY <1>1, <1>3, <1>4, ReturnOutput

LEMMA CloseOutput ==
    ASSUME TypeOK, Good(stmt), Close
    PROVE  Output
  <1>. DEFINE op == "close"
              s1 == FreeColumns(stmt)
              s2 == [s1 EXCEPT !.stmtAllocated = FALSE, !.resultSetAvailable = FALSE,
                               !.live = FALSE, !.open = NoShape, !.rest = <<>>,
                               !.bound = "none", !.prepared = NoQuery]
  <1>0. op \in AnyOp
    BY DEF AnyOp, SyncOps
  <1>1. \/ Return(s1, Value(op, s1, <<>>)) \/ Return(s1, Failure(op, s1))
        \/ Return(s2, Value(op, s1, <<>>))
    BY DEF Close
  <1>2. Good(s1)
    BY FreeColumnsGood
  <1>. HIDE DEF op, s1
  <1>3. Good(s2)
    <2>. DEFINE q == <<>>
    <2>1. q \in Seq(Shapes)
      OBVIOUS
    <2>2. s2 = [s1 EXCEPT !.stmtAllocated = FALSE, !.resultSetAvailable = FALSE,
                          !.live = FALSE, !.open = NoShape, !.rest = q,
                          !.bound = "none", !.prepared = NoQuery]
      OBVIOUS
    <2>. HIDE DEF q, s2
    <2>3. s2 \in Stmt
      BY <1>2, <2>1, <2>2 DEF Good, Stmt
    <2>. QED  BY <1>2, <2>2, <2>3 DEF Good, Stmt, Described, Handled
  <1>4. Value(op, s1, <<>>) \in Reply /\ Failure(op, s1) \in Reply
    BY <1>0, <1>2, FailureType, ValueType, NoRows DEF Good
  <1>. QED  BY <1>1, <1>2, <1>3, <1>4, ReturnOutput

LEMMA NumFieldsOutput ==
    ASSUME TypeOK, Good(stmt), NumFields
    PROVE  Output
  <1>. DEFINE op == "numFields"
              s1 == SQLNumResultCols(stmt)
  <1>0. op \in AnyOp
    BY DEF AnyOp, SyncOps
  <1>1. Rejected(op) \/ Return(s1, Value(op, s1, <<>>))
    BY DEF NumFields, Checked
  <1>2. Good(s1)
    BY SQLNumResultColsKeeps, KeepsGood
  <1>. HIDE DEF op, s1
  <1>3. Value(op, s1, <<>>) \in Reply
    BY <1>0, <1>2, ValueType, NoRows DEF Good
  <1>. QED  BY <1>0, <1>1, <1>2, <1>3, RejectedOutput, ReturnOutput

LEMMA ColumnEntryOutput ==
    ASSUME TypeOK, Good(stmt), NEW op \in AnyOp, NEW i, ColumnEntry(op, i)
    PROVE  Output
  <1>. DEFINE m  == stmt.misuse \cup Misuse(i >= stmt.descN, "columns")
              s1 == [stmt EXCEPT !.misuse = m]
  <1>1. Rejected(op) \/ Return(s1, Value(op, stmt, <<>>))
    BY DEF ColumnEntry, Checked
  <1>2. m \in SUBSET MisuseKinds /\ stmt.misuse \subseteq m
    BY MisuseType DEF Good, Stmt, MisuseKinds
  <1>. HIDE DEF m
  <1>3. Good(s1)
    <2>1. s1 \in Stmt
      BY <1>2 DEF Good, Stmt
    <2>2. Keeps(stmt, s1)
      BY <1>2, <2>1 DEF Keeps, Good, Stmt
    <2>. QED  BY <2>2, KeepsGood
  <1>4. Value(op, stmt, <<>>) \in Reply
    BY ValueType, NoRows DEF Good
  <1>. QED  BY <1>1, <1>3, <1>4, RejectedOutput, ReturnOutput

LEMMA HandleCallOutput ==
    ASSUME TypeOK, Good(stmt), NEW op \in AnyOp,
           NEW kinds \in SUBSET {"value", "error", "silent"}, HandleCall(op, kinds)
    PROVE  Output
  <1>. DEFINE s1 == OnHandle(stmt)
              r(kind, rc) == Answer(op, kind, stmt, <<>>, rc)
  <1>1. \/ Rejected(op)
        \/ \E kind \in {"value", "error", "silent"}, rc \in {"success", "error"} :
               Return(s1, r(kind, rc))
    BY DEF HandleCall, Checked
  <1>2. Good(s1)
    BY OnHandleKeeps, KeepsGood
  <1>3. ASSUME NEW kind \in {"value", "error", "silent"}, NEW rc \in {"success", "error"}
        PROVE  r(kind, rc) \in Reply
    BY AnswerType, NoRows DEF Good, Rcs
  <1>. HIDE DEF s1, r
  <1>. QED  BY <1>1, <1>2, <1>3, RejectedOutput, ReturnOutput

LEMMA FieldAndHandleOutput ==
    ASSUME TypeOK, Good(stmt),
           \/ \E i : FieldValue(i) \/ FieldInfo(i)
           \/ SetStmtAttr \/ GetStmtAttr \/ NumRows \/ StmtError
    PROVE  Output
  <1>1. {"fieldValue", "fieldInfo", "setStmtAttr", "getStmtAttr", "numRows",
         "stmtError"} \subseteq AnyOp
    BY DEF AnyOp, SyncOps
  <1>2. CASE \E i : FieldValue(i) \/ FieldInfo(i)
    BY <1>1, <1>2, ColumnEntryOutput DEF FieldValue, FieldInfo
  <1>3. CASE SetStmtAttr \/ GetStmtAttr \/ NumRows \/ StmtError
    BY <1>1, <1>3, HandleCallOutput DEF SetStmtAttr, GetStmtAttr, NumRows, StmtError
  <1>. QED  BY <1>2, <1>3

-----------------------------------------------------------------------------
(* Calls *)

CallsType == queue \in Seq(Calls) /\ calls \in [Calls -> Call]

LEMMA CallUpdate ==
    ASSUME CallsType, NEW c \in Calls, NEW r \in Call
    PROVE  [calls EXCEPT ![c] = r] \in [Calls -> Call]
  BY DEF CallsType

LEMMA IdleType == Idle \in Call
  BY DEF Idle, Call, Rcs

LEMMA QueueOutput ==
    ASSUME TypeOK, Good(stmt), NEW c \in Calls, NEW op \in AsyncOps,
           NEW q \in Queries \cup {NoQuery}, NEW guard, Queue(c, op, q, guard)
    PROVE  Output /\ CallsType' /\ inCallback' \in BOOLEAN
  <1>0. op \in AnyOp
    BY DEF AnyOp
  <1>1. \/ /\ calls' = [calls EXCEPT ![c] = [Idle EXCEPT !.op = op, !.pc = "queued", !.q = q]]
           /\ queue' = Append(queue, c)
           /\ reply' = Answer(op, "accepted", stmt, <<>>, "success")
           /\ UNCHANGED <<stmt, hist>>
        \/ Rejected(op) /\ UNCHANGED <<queue, calls>>
    BY DEF Queue
  <1>2. inCallback' \in BOOLEAN
    BY DEF Queue, TypeOK
  <1>3. CASE Rejected(op) /\ UNCHANGED <<queue, calls>>
    BY <1>0, <1>2, <1>3, RejectedOutput DEF TypeOK, CallsType
  <1>4. CASE /\ calls' = [calls EXCEPT ![c] = [Idle EXCEPT !.op = op, !.pc = "queued", !.q = q]]
             /\ queue' = Append(queue, c)
             /\ reply' = Answer(op, "accepted", stmt, <<>>, "success")
             /\ UNCHANGED <<stmt, hist>>
    <2>1. [Idle EXCEPT !.op = op, !.pc = "queued", !.q = q] \in Call
      BY DEF Idle, Call, Rcs
    <2>2. calls' \in [Calls -> Call]
      BY <1>4, <2>1, CallUpdate DEF TypeOK, CallsType
    <2>3. queue' \in Seq(Calls)
      <3>1. queue \in Seq(Calls)
        BY DEF TypeOK
      <3>. QED  BY <1>4, <3>1
    <2>4. reply' \in Reply
      BY <1>0, <1>4, AnswerType, NoRows DEF Good, Rcs
    <2>5. Output
      BY <1>4, <2>4 DEF Output, TypeOK, hist
    <2>. QED  BY <1>2, <2>2, <2>3, <2>5 DEF CallsType
  <1>. QED  BY <1>1, <1>3, <1>4

LEMMA StartOutput ==
    ASSUME TypeOK, Good(stmt), NEW c \in Calls, Start(c)
    PROVE  Output /\ CallsType' /\ inCallback' \in BOOLEAN
  <1>1. UNCHANGED <<stmt, inCallback, reply, hist>>
    BY DEF Start
  <1>2. queue' \in Seq(Calls)
    <2>1. queue \in Seq(Calls) /\ queue # <<>> /\ queue' = Tail(queue)
      BY DEF TypeOK, Start
    <2>. QED  BY <2>1
  <1>3. \E pc \in {"cli", "fetching"} : calls' = [calls EXCEPT ![c].pc = pc]
    BY DEF Start
  <1>4. ASSUME NEW pc \in {"cli", "fetching"}
        PROVE  [calls EXCEPT ![c].pc = pc] \in [Calls -> Call]
    BY DEF TypeOK, Call
  <1>. QED  BY <1>1, <1>2, <1>3, <1>4, SameOutput DEF TypeOK, CallsType

LEMMA WorkerOutput ==
    ASSUME TypeOK, Good(stmt), NEW c \in Calls,
           NEW pc \in {"cli", "bind", "fetching", "done"}, NEW s, Good(s),
           NEW rc \in Rcs, NEW err \in BOOLEAN, Worker(c, pc, s, rc, err)
    PROVE  Output /\ CallsType' /\ inCallback' \in BOOLEAN
  <1>1. /\ stmt' = s /\ UNCHANGED <<queue, inCallback, reply, hist>>
        /\ calls' = [calls EXCEPT ![c].pc = pc, ![c].rc = rc, ![c].err = err]
    BY DEF Worker
  <1>. DEFINE r == [calls[c] EXCEPT !.pc = pc, !.rc = rc, !.err = err]
  <1>2. r \in Call
    <2>1. calls[c] \in Call
      BY DEF TypeOK
    <2>. QED  BY <2>1 DEF Call
  <1>3. calls' = [calls EXCEPT ![c] = r]
    <2>1. calls \in [Calls -> Call]
      BY DEF TypeOK
    <2>. QED  BY <1>1, <2>1
  <1>. HIDE DEF r
  <1>4. calls' \in [Calls -> Call]
    BY <1>2, <1>3, CallUpdate DEF TypeOK, CallsType
  <1>. QED  BY <1>1, <1>4 DEF TypeOK, Output, hist, CallsType

LEMMA CallFields ==
    ASSUME TypeOK, NEW c \in Calls
    PROVE  /\ calls[c].q \in Queries \cup {NoQuery} /\ calls[c].rc \in Rcs
           /\ calls[c].op \in AnyOp
  BY DEF TypeOK, Call, AnyOp

LEMMA ExecRcType ==
    ASSUME NEW s, NEW q, NEW f
    PROVE  ExecRc(s, q, f) \in Rcs
  BY DEF ExecRc, Rcs

LEMMA MessageSetType ==
    ASSUME NEW s
    PROVE  MessageSet(s) \subseteq BOOLEAN
  BY DEF MessageSet

LEMMA ExecAsyncWorkerExecOutput ==
    ASSUME TypeOK, Good(stmt), NEW c \in Calls, ExecAsyncWorkerExec(c)
    PROVE  Output /\ CallsType' /\ inCallback' \in BOOLEAN
  <1>1. PICK f :
          LET s1 == ExecDirect(stmt, calls[c].q, f)
              rc == ExecRc(stmt, calls[c].q, f)
          IN  \/ Worker(c, "bind", s1, rc, FALSE)
              \/ \E set \in MessageSet(stmt) : Worker(c, "done", s1, rc, set)
    BY DEF ExecAsyncWorkerExec
  <1>2. Good(ExecDirect(stmt, calls[c].q, f))
    BY CallFields, ExecDirectGood
  <1>3. ExecRc(stmt, calls[c].q, f) \in Rcs
    BY ExecRcType
  <1>. QED  BY <1>1, <1>2, <1>3, WorkerOutput, MessageSetType

LEMMA ExecuteAsyncWorkerExecOutput ==
    ASSUME TypeOK, Good(stmt), NEW c \in Calls, ExecuteAsyncWorkerExec(c)
    PROVE  Output /\ CallsType' /\ inCallback' \in BOOLEAN
  <1>1. PICK f :
          LET s1 == Executed(stmt, stmt.prepared, f)
              rc == ExecRc(stmt, stmt.prepared, f)
          IN  \/ Worker(c, "bind", s1, rc, FALSE)
              \/ \E set \in MessageSet(stmt) :
                     Worker(c, IF set THEN "done" ELSE "bind", s1, rc, set)
    BY DEF ExecuteAsyncWorkerExec
  <1>2. Good(Executed(stmt, stmt.prepared, f))
    BY PreparedType, ExecutedGood
  <1>3. ExecRc(stmt, stmt.prepared, f) \in Rcs
    BY ExecRcType
  <1>. QED  BY <1>1, <1>2, <1>3, WorkerOutput, MessageSetType

LEMMA PrepareAsyncWorkerExecOutput ==
    ASSUME TypeOK, Good(stmt), NEW c \in Calls, PrepareAsyncWorkerExec(c)
    PROVE  Output /\ CallsType' /\ inCallback' \in BOOLEAN
  <1>1. PICK f :
          LET s1 == SQLPrepare(stmt, calls[c].q, f)
              rc == ExecRc(stmt, calls[c].q, f)
          IN  \/ Worker(c, "done", s1, rc, FALSE)
              \/ \E set \in MessageSet(stmt) : Worker(c, "done", s1, rc, set)
    BY DEF PrepareAsyncWorkerExec
  <1>2. Good(SQLPrepare(stmt, calls[c].q, f))
    BY CallFields, SQLPrepareKeeps, KeepsGood
  <1>3. ExecRc(stmt, calls[c].q, f) \in Rcs
    BY ExecRcType
  <1>. QED  BY <1>1, <1>2, <1>3, WorkerOutput, MessageSetType

LEMMA BindOutput ==
    ASSUME TypeOK, Good(stmt), NEW c \in Calls,
           ExecAsyncWorkerBind(c) \/ ExecuteAsyncWorkerBind(c)
    PROVE  Output /\ CallsType' /\ inCallback' \in BOOLEAN
  <1>1. PICK f :
          LET s1 == BindResult(stmt, f)
          IN  \/ Worker(c, "fetching", s1, calls[c].rc, BindFailed(s1))
              \/ Worker(c, "done", s1, calls[c].rc, BindFailed(s1))
              \/ Worker(c, "done", s1, calls[c].rc, FALSE)
    BY DEF ExecAsyncWorkerBind, ExecuteAsyncWorkerBind
  <1>2. Good(BindResult(stmt, f))
    BY BindResultGood
  <1>3. BindFailed(BindResult(stmt, f)) \in BOOLEAN
    BY DEF BindFailed
  <1>. QED  BY <1>1, <1>2, <1>3, CallFields, WorkerOutput

LEMMA WorkerFetchDataOutput ==
    ASSUME TypeOK, Good(stmt), NEW c \in Calls, WorkerFetchData(c)
    PROVE  Output /\ CallsType' /\ inCallback' \in BOOLEAN
  <1>1. PICK f :
          \/ Worker(c, "fetching", PushRow(SQLFetch(stmt, f)), calls[c].rc, FALSE)
          \/ Worker(c, "done", SQLFetch(stmt, f), FetchRc(stmt, f),
                    FetchRc(stmt, f) = "error" /\ calls[c].op = "fetchAll")
    BY DEF WorkerFetchData
  <1>4. (FetchRc(stmt, f) = "error" /\ calls[c].op = "fetchAll") \in BOOLEAN
    OBVIOUS
  <1>2. Good(SQLFetch(stmt, f))
    BY SQLFetchKeeps, KeepsGood
  <1>3. Good(PushRow(SQLFetch(stmt, f)))
    BY <1>2, PushRowKeeps, KeepsGood
  <1>. QED  BY <1>1, <1>2, <1>3, <1>4, CallFields, FetchRcType, WorkerOutput

LEMMA FetchAsyncWorkerExecOutput ==
    ASSUME TypeOK, Good(stmt), NEW c \in Calls, FetchAsyncWorkerExec(c)
    PROVE  Output /\ CallsType' /\ inCallback' \in BOOLEAN
  <1>1. PICK f :
          Worker(c, "done", SQLFetch(stmt, f), FetchRc(stmt, f), FetchRc(stmt, f) = "error")
    BY DEF FetchAsyncWorkerExec
  <1>2. Good(SQLFetch(stmt, f))
    BY SQLFetchKeeps, KeepsGood
  <1>3. (FetchRc(stmt, f) = "error") \in BOOLEAN
    OBVIOUS
  <1>. QED  BY <1>1, <1>2, <1>3, FetchRcType, WorkerOutput

LEMMA DeliverOutput ==
    ASSUME TypeOK, Good(stmt), NEW c \in Calls, Deliver(c)
    PROVE  Output /\ CallsType' /\ inCallback' \in BOOLEAN
  <1>. DEFINE op == calls[c].op
  <1>1. /\ calls' = [calls EXCEPT ![c] = Idle]
        /\ UNCHANGED <<queue, inCallback>>
        /\ \/ Return(stmt, Failure(op, stmt))
           \/ Return(BuildJsObject(stmt), Value(op, stmt, stmt.resultSetInC))
           \/ Return(ReadRow(stmt),
                     Answer(op, "value", stmt, <<BoundRow(stmt)>>, calls[c].rc))
           \/ Return(stmt, Value(op, stmt, <<>>))
    BY DEF Deliver, Settle, OnOK, OnError, ExecOnOK, PrepareOnOK, ExecuteOnOK,
       FetchOnOK, FetchAllOnOK
  <1>2. Good(BuildJsObject(stmt)) /\ Good(ReadRow(stmt))
    BY BuildJsObjectKeeps, ReadRowKeeps, KeepsGood
  <1>3. op \in AnyOp /\ calls[c].rc \in Rcs
    BY CallFields
  <1>. HIDE DEF op
  <1>4. stmt \in Stmt /\ stmt.resultSetInC \in Seq(Row)
    BY DEF Good, Stmt
  <1>5. /\ Failure(op, stmt) \in Reply /\ Value(op, stmt, stmt.resultSetInC) \in Reply
        /\ Answer(op, "value", stmt, <<BoundRow(stmt)>>, calls[c].rc) \in Reply
        /\ Value(op, stmt, <<>>) \in Reply
    BY <1>3, <1>4, FailureType, ValueType, AnswerType, OneRow, NoRows
  <1>6. Output
    BY <1>1, <1>2, <1>5, ReturnOutput
  <1>7. CallsType' /\ inCallback' \in BOOLEAN
    BY <1>1, IdleType, CallUpdate DEF TypeOK, CallsType
  <1>. QED  BY <1>6, <1>7

-----------------------------------------------------------------------------
(* The invariant is inductive *)

IInv == TypeOK /\ Good(stmt)

LEMMA InitInv ==
    ASSUME Init
    PROVE  IInv
  <1>1. stmt \in Stmt
    BY NoRowType, NoRows DEF Init, Stmt, MisuseKinds
  <1>2. stmt.pos <= NRows /\ Described(stmt) /\ Handled(stmt)
    BY ShapeAssumption DEF Init, Described, Handled
  <1>3. reply \in Reply
    BY NoRows DEF Init, Reply, Rcs
  <1>4. calls \in [Calls -> Call]
    BY IdleType DEF Init
  <1>5. queue \in Seq(Calls)
    BY DEF Init
  <1>6. delivered \in Seq(Row)
    BY NoRows DEF Init
  <1>7. failed \subseteq Nat /\ inCallback \in BOOLEAN
    BY DEF Init
  <1>. QED  BY <1>1, <1>2, <1>3, <1>4, <1>5, <1>6, <1>7 DEF IInv, TypeOK, Good

\* A synchronous method leaves the workers alone.
LEMMA SyncLeavesCalls ==
    ASSUME SyncCall
    PROVE  UNCHANGED <<queue, calls>>
  BY DEF SyncCall, MainCall, ExecSync, ExecSyncReturn, PrepareSync, ExecuteSync,
         FetchSync, FetchAllSync, NextResult, CloseCursor, Close, NumFields, FieldValue, FieldInfo,
         ColumnEntry, SetStmtAttr, GetStmtAttr, NumRows, StmtError, HandleCall

\* Only execSync and the return of its callback touch inCallback.
LEMMA SyncOutput ==
    ASSUME TypeOK, Good(stmt), SyncCall
    PROVE  Output /\ inCallback' \in BOOLEAN
  <1>1. ASSUME NEW q \in Queries, NEW cb \in BOOLEAN, ExecSync(q, cb)
        PROVE  Output /\ inCallback' \in BOOLEAN
    BY <1>1, ExecSyncOutput
  <1>2. CASE ExecSyncReturn
    BY <1>2, ExecSyncReturnOutput DEF ExecSyncReturn
  <1>3. ASSUME NEW q \in Queries, PrepareSync(q)
        PROVE  Output /\ inCallback' \in BOOLEAN
    BY <1>3, PrepareSyncOutput DEF PrepareSync, TypeOK
  <1>4. CASE ExecuteSync
    BY <1>4, ExecuteSyncOutput DEF ExecuteSync, TypeOK
  <1>5. CASE FetchSync
    BY <1>5, FetchSyncOutput DEF FetchSync, TypeOK
  <1>6. ASSUME NEW cb \in BOOLEAN, FetchAllSync(cb)
        PROVE  Output /\ inCallback' \in BOOLEAN
    BY <1>6, FetchAllSyncOutput DEF FetchAllSync, TypeOK
  <1>7. CASE NextResult
    BY <1>7, NextResultOutput DEF NextResult, TypeOK
  <1>8. CASE CloseCursor
    BY <1>8, CloseCursorOutput DEF CloseCursor, TypeOK
  <1>9. CASE Close
    BY <1>9, CloseOutput DEF Close, TypeOK
  <1>10. CASE NumFields
    BY <1>10, NumFieldsOutput DEF NumFields, TypeOK
  <1>11. CASE \/ \E i : FieldValue(i) \/ FieldInfo(i)
              \/ SetStmtAttr \/ GetStmtAttr \/ NumRows \/ StmtError
    <2>1. inCallback' = inCallback
      BY <1>11 DEF FieldValue, FieldInfo, ColumnEntry, SetStmtAttr, GetStmtAttr,
         NumRows, StmtError, HandleCall
    <2>. QED  BY <1>11, <2>1, FieldAndHandleOutput DEF TypeOK
  <1>. QED
    BY <1>1, <1>2, <1>3, <1>4, <1>5, <1>6, <1>7, <1>8, <1>9, <1>10, <1>11 DEF SyncCall

LEMMA AsyncOutput ==
    ASSUME TypeOK, Good(stmt), NEW c \in Calls, AsyncCall(c)
    PROVE  Output /\ CallsType' /\ inCallback' \in BOOLEAN
  <1>1. \E guard : \E op \in AsyncOps, q \in Queries \cup {NoQuery} : Queue(c, op, q, guard)
    BY DEF AsyncCall, AsyncOps, Exec, Prepare, Execute, Fetch, FetchAll
  <1>. QED  BY <1>1, QueueOutput

LEMMA WorkerStepOutput ==
    ASSUME TypeOK, Good(stmt), NEW c \in Calls, WorkerStep(c)
    PROVE  Output /\ CallsType' /\ inCallback' \in BOOLEAN
  BY StartOutput, ExecAsyncWorkerExecOutput, ExecuteAsyncWorkerExecOutput,
     PrepareAsyncWorkerExecOutput, FetchAsyncWorkerExecOutput, BindOutput,
     WorkerFetchDataOutput DEF WorkerStep

LEMMA NextKeepsInv ==
    ASSUME IInv, [Next]_vars
    PROVE  IInv'
  <1>0. TypeOK /\ Good(stmt)
    BY DEF IInv
  <1>1. Output /\ CallsType' /\ inCallback' \in BOOLEAN
    <2>1. CASE SyncCall
      BY <1>0, <2>1, SyncLeavesCalls, SyncOutput DEF TypeOK, CallsType
    <2>2. ASSUME NEW c \in Calls, AsyncCall(c) \/ WorkerStep(c) \/ Deliver(c)
          PROVE  Output /\ CallsType' /\ inCallback' \in BOOLEAN
      BY <1>0, <2>2, AsyncOutput, WorkerStepOutput, DeliverOutput
    <2>3. CASE UNCHANGED vars
      BY <1>0, <2>3 DEF vars, hist, TypeOK, CallsType, Output
    <2>. QED  BY <2>1, <2>2, <2>3 DEF Next
  <1>. QED  BY <1>1 DEF IInv, TypeOK, Output, CallsType, Good, Described, Handled

\* What holds of the statement object at every moment.
LEMMA Inductive == Spec => []IInv
  <1>1. Init => IInv
    BY InitInv
  <1>2. IInv /\ [Next]_vars => IInv'
    BY NextKeepsInv
  <1>. QED  BY <1>1, <1>2, PTL DEF Spec

-----------------------------------------------------------------------------
(* Theorems *)

\* Whatever the client calls and whichever CLI call fails, the members of the
\* object, the workers and the replies stay in their types (dbstmt.h:106-149).
THEOREM TypeCorrect == Spec => []TypeOK
  <1>1. IInv => TypeOK
    BY DEF IInv
  <1>. QED  BY <1>1, Inductive, PTL

\* A row buffer is bound only while the descriptions it is decoded with are
\* allocated (bindColData, freeColumns), for the clients that NeverRaces shows
\* to keep two threads out of this memory; for others the steps of DbStmt are
\* larger than those of the code, and nothing is claimed.
THEOREM BoundRowsDescribed ==
    ASSUME ~MayOverlap \/ CursorClient
    PROVE  Spec => []BoundRowIsDescribed
  <1>1. IInv => BoundRowIsDescribed
    BY DEF IInv, Good, Described, BoundRowIsDescribed
  <1>. QED  BY <1>1, Inductive, PTL

\* resultSetAvailable, which the fetch and field methods check, stands for a
\* live handle until a method without a check has used a dropped one.
THEOREM ResultSetsNeedHandle == Spec => []ResultSetNeedsHandle
  <1>1. IInv => ResultSetNeedsHandle
    BY DEF IInv, Good, Handled, ResultSetNeedsHandle
  <1>. QED  BY <1>1, Inductive, PTL
=============================================================================
