------------------------- MODULE DbStmtMemoryProofs -------------------------
(***************************************************************************)
(* Proofs about the memory of a statement, for a client that waits for its *)
(* calls and does not use execSync, while SQLDescribeCol, SQLBindCol and   *)
(* SQLFreeStmt do what they are asked: the columns of an open result set   *)
(* are then bound whenever rows of it are read.  Where besides all result  *)
(* sets have as many columns, nothing freed or too short is ever touched.  *)
(***************************************************************************)
EXTENDS DbStmtRowSteps

\* The client and the faults these proofs are about.
Calm ==
    /\ ~MayOverlap /\ "execSync" \notin Ops
    /\ Faults \cap {"describe", "bind", "drop"} = {}

\* All result sets have as many columns.
Uniform == \A a, b \in Shapes : Cols[a] = Cols[b]
Widths  == {Cols[sh] : sh \in Shapes}

-----------------------------------------------------------------------------
(* The invariant of the statement object *)

\* close() leaves nothing allocated, and only close() leaves the driver bound
\* to freed buffers, on a handle it drops.
Tidy(s) ==
    /\ s.live \/ (~s.colDescAllocated /\ ~s.bindingRowAllocated)
    /\ s.bound # "freed"

\* Rows can be read: the columns of the open result set are bound.
Ready(s) ==
    /\ Tidy(s)
    /\ s.open # NoShape => s.bindingRowAllocated /\ s.colCount = Cols[s.open]
    /\ s.live /\ s.resultSetAvailable => s.bindingRowAllocated

\* A worker has run a statement, and has not bound its columns yet.
Unbound(s) ==
    /\ Tidy(s)
    /\ s.live /\ s.open = NoShape =>
         /\ ResultCols(s) = 0
         /\ s.resultSetAvailable => s.bindingRowAllocated

\* Every array is as long as any result set is wide.
Fitting(s) ==
    /\ s.misuse \subseteq {"handle"}
    /\ s.colCount \in {0} \cup Widths
    /\ s.colDescAllocated => s.descN \in Widths
    /\ s.bindingRowAllocated => s.bindingN \in Widths
    /\ \A i \in 1..Len(s.resultSetInC) : s.resultSetInC[i].n \in Widths
Fits(s) == Uniform => Fitting(s)

Binds   == \E c \in Calls : calls[c].pc = "bind"
Drained == stmt.open # NoShape /\ stmt.pos = NRows

\* What holds from the check of a method to its callback, and from the return
\* of the CLI call that ended the data to the callback.
Poised(c) ==
    /\ calls[c].pc # "idle" /\ calls[c].op \in {"exec", "fetch", "fetchAll"} => stmt.live
    /\ calls[c].pc # "idle" /\ calls[c].op \in {"fetch", "fetchAll"} => stmt.resultSetAvailable
    /\ InBulk(c) => stmt.resultSetAvailable
    /\ calls[c].pc = "done" /\ calls[c].op = "fetchAll" /\ ~calls[c].err => Drained
    /\ calls[c].pc = "done" /\ calls[c].op = "fetch" /\ calls[c].rc = "no_data" => Drained

MInv ==
    /\ RInv /\ Alone /\ ~inCallback
    /\ IF Binds THEN Unbound(stmt) ELSE Ready(stmt)
    /\ Fits(stmt)
    /\ \A c \in Calls : Poised(c)

-----------------------------------------------------------------------------
(* The operators on the record *)

Safe(s) == Good(s) /\ Tied(s) /\ Ready(s) /\ Fits(s)

\* Safety looks at these fields only.
LEMMA SafeFields ==
    ASSUME NEW s, Safe(s), NEW t, Good(t), Tied(t),
           t.live = s.live, t.colDescAllocated = s.colDescAllocated,
           t.bindingRowAllocated = s.bindingRowAllocated, t.bound = s.bound,
           t.colCount = s.colCount, t.resultSetAvailable = s.resultSetAvailable,
           t.open \in {s.open, NoShape}, t.descN = s.descN, t.bindingN = s.bindingN,
           t.resultSetInC = s.resultSetInC, t.misuse \subseteq s.misuse \cup {"handle"}
    PROVE  Safe(t)
  <1>1. Ready(t)
    BY DEF Safe, Ready, Tidy
  <1>2. Fits(t)
    BY DEF Safe, Fits, Fitting
  <1>. QED  BY <1>1, <1>2 DEF Safe

LEMMA OnHandleFields ==
    ASSUME NEW s, s \in Stmt
    PROVE  LET t == OnHandle(s)
           IN  /\ t.live = s.live /\ t.colDescAllocated = s.colDescAllocated
               /\ t.bindingRowAllocated = s.bindingRowAllocated /\ t.bound = s.bound
               /\ t.colCount = s.colCount /\ t.resultSetAvailable = s.resultSetAvailable
               /\ t.open = s.open /\ t.descN = s.descN /\ t.bindingN = s.bindingN
               /\ t.prepared = s.prepared /\ t.rest = s.rest
               /\ t.resultSetInC = s.resultSetInC /\ t.misuse \subseteq s.misuse \cup {"handle"}
  BY DEF OnHandle, Stmt, Misuse

LEMMA OnHandleSafe ==
    ASSUME NEW s, Safe(s)
    PROVE  Safe(OnHandle(s))
  <1>1. Good(OnHandle(s)) /\ Tied(OnHandle(s)) /\ s \in Stmt
    BY OnHandleKeeps, OnHandleStill, KeepsGood DEF Safe, Good, Still
  <1>. DEFINE t == OnHandle(s)
  <1>2. /\ t.live = s.live /\ t.colDescAllocated = s.colDescAllocated
        /\ t.bindingRowAllocated = s.bindingRowAllocated /\ t.bound = s.bound
        /\ t.colCount = s.colCount /\ t.resultSetAvailable = s.resultSetAvailable
        /\ t.open = s.open /\ t.descN = s.descN /\ t.bindingN = s.bindingN
        /\ t.resultSetInC = s.resultSetInC /\ t.misuse \subseteq s.misuse \cup {"handle"}
    BY <1>1, OnHandleFields
  <1>. HIDE DEF t
  <1>. QED  BY <1>1, <1>2, SafeFields DEF t

LEMMA SQLPrepareSafe ==
    ASSUME NEW s, Safe(s), NEW q \in Queries \cup {NoQuery}, NEW f
    PROVE  Safe(SQLPrepare(s, q, f))
  <1>. DEFINE t == [s EXCEPT !.prepared = q]
  <1>1. Good(t) /\ Tied(t)
    BY SMTT(30) DEF Safe, Good, Described, Handled, Tied, Stmt
  <1>2. /\ t.live = s.live /\ t.colDescAllocated = s.colDescAllocated
        /\ t.bindingRowAllocated = s.bindingRowAllocated /\ t.bound = s.bound
        /\ t.colCount = s.colCount /\ t.resultSetAvailable = s.resultSetAvailable
        /\ t.open = s.open /\ t.descN = s.descN /\ t.bindingN = s.bindingN
        /\ t.resultSetInC = s.resultSetInC /\ t.misuse = s.misuse
    BY DEF Safe, Good, Stmt
  <1>. HIDE DEF t
  <1>3. Safe(t)
    BY <1>1, <1>2, SafeFields
  <1>. QED  BY <1>3, OnHandleSafe DEF SQLPrepare, t

LEMMA ResultColsWidth ==
    ASSUME NEW s, s \in Stmt
    PROVE  /\ ResultCols(s) \in {0} \cup Widths /\ ResultCols(s) \in Nat
           /\ s.open # NoShape => ResultCols(s) = Cols[s.open] /\ ResultCols(s) # 0
  <1>1. \A sh \in Shapes : Cols[sh] \in Widths /\ Cols[sh] \in Nat \ {0}
    BY ShapeAssumption DEF Widths
  <1>2. CASE s.open # NoShape
    BY <1>1, <1>2 DEF ResultCols, Stmt
  <1>3. CASE s.open = NoShape /\ s.prepared # NoQuery /\ Results[s.prepared] # <<>>
    <2>1. Head(Results[s.prepared]) \in Shapes
      <3>1. s.prepared \in Queries
        BY <1>3 DEF Stmt
      <3>. QED  BY <1>3, <3>1, ShapeAssumption
    <2>. QED  BY <1>1, <1>3, <2>1 DEF ResultCols
  <1>. QED  BY <1>2, <1>3 DEF ResultCols

LEMMA SQLNumResultColsSafe ==
    ASSUME NEW s, Safe(s)
    PROVE  Safe(SQLNumResultCols(s))
  <1>. DEFINE k == ResultCols(s)
              t == [s EXCEPT !.colCount = k]
  <1>1. k \in {0} \cup Widths /\ k \in Nat /\ (s.open # NoShape => k = Cols[s.open])
    BY ResultColsWidth DEF Safe, Good
  <1>. HIDE DEF k
  <1>2. Safe(t)
    <2>1. Good(t) /\ Tied(t)
      BY ZenonT(60), <1>1 DEF Safe, Good, Described, Handled, Tied, Stmt
    <2>2. Ready(t)
      BY <1>1 DEF Safe, Good, Ready, Tidy, Stmt
    <2>3. Fits(t)
      BY <1>1 DEF Safe, Good, Fits, Fitting, Stmt
    <2>. QED  BY <2>1, <2>2, <2>3 DEF Safe
  <1>. QED  BY <1>2, OnHandleSafe DEF SQLNumResultCols, k, t

\* Reading with the descriptions and the bindings at hand.
LEMMA NoMisuse ==
    ASSUME NEW s, Good(s), Fits(s), s.bindingRowAllocated, Uniform
    PROVE  ColumnsMisuse(s) = {} /\ BindingsMisuse(s) = {}
  <1>1. s.colDescAllocated /\ s.descN \in Widths /\ s.bindingN \in Widths
        /\ s.colCount \in {0} \cup Widths
    BY DEF Good, Described, Fits, Fitting
  <1>2. s.colCount = 0 \/ (s.colCount = s.descN /\ s.colCount = s.bindingN)
    BY <1>1 DEF Widths, Uniform
  <1>3. s.colCount \in Nat
    BY DEF Good, Stmt
  <1>. QED  BY <1>1, <1>2, <1>3 DEF ColumnsMisuse, BindingsMisuse, Misuse

LEMMA ReadRowSafe ==
    ASSUME NEW s, Safe(s), s.bindingRowAllocated
    PROVE  Safe(ReadRow(s))
  <1>. DEFINE m == s.misuse \cup ColumnsMisuse(s) \cup BindingsMisuse(s)
              t == ReadRow(s)
  <1>1. Good(t) /\ Tied(t)
    BY ReadRowKeeps, KeepsGood, ReadRowStill DEF Safe, Good, Still
  <1>2. t = [s EXCEPT !.misuse = m]
    BY DEF ReadRow
  <1>3. Uniform => m = s.misuse
    BY NoMisuse DEF Safe
  <1>. HIDE DEF m, t
  <1>4. Ready(t)
    BY <1>2 DEF Safe, Good, Ready, Tidy, Stmt
  <1>5. Fits(t)
    BY <1>2, <1>3 DEF Safe, Good, Fits, Fitting, Stmt
  <1>. QED  BY <1>1, <1>4, <1>5 DEF Safe, t

-----------------------------------------------------------------------------
(* Opening a result set and binding its columns *)

Pending(s) == Good(s) /\ Tied(s) /\ Unbound(s) /\ Fits(s)

LEMMA SafePending ==
    ASSUME NEW s, Safe(s), ~s.live
    PROVE  Pending(s)
  BY DEF Safe, Pending, Ready, Unbound

\* A result set is open, or the statement has none.
LEMMA OpenedPending ==
    ASSUME NEW s, Safe(s), s.live, NEW r \in Seq(Shapes),
           r = <<>> => s.prepared = NoQuery \/ Results[s.prepared] = <<>>
    PROVE  /\ Pending(Opened(s, r)) /\ Opened(s, r).live
           /\ r # <<>> => Opened(s, r).open # NoShape
  <1>. DEFINE k  == s.run + 1
              sh == IF r = <<>> THEN NoShape ELSE Head(r)
              q  == IF r = <<>> THEN <<>> ELSE Tail(r)
              t  == [s EXCEPT !.open = sh, !.rest = q, !.pos = 0, !.run = k]
  <1>1. Good(t) /\ Tied(t) /\ t = Opened(s, r)
    <2>1. Good(Opened(s, r))
      BY OpenedKeeps, KeepsGood DEF Safe
    <2>2. Tied(Opened(s, r))
      BY OpenedOpens DEF Safe, Good, Opens
    <2>3. t = Opened(s, r)
      BY DEF Opened
    <2>. QED  BY <2>1, <2>2, <2>3
  <1>2. r # <<>> => sh # NoShape
    BY ShapeAssumption
  <1>. HIDE DEF k, q
  <1>3. /\ t.live = s.live /\ t.colDescAllocated = s.colDescAllocated
        /\ t.bindingRowAllocated = s.bindingRowAllocated /\ t.bound = s.bound
        /\ t.colCount = s.colCount /\ t.resultSetAvailable = s.resultSetAvailable
        /\ t.open = sh /\ t.descN = s.descN /\ t.bindingN = s.bindingN
        /\ t.resultSetInC = s.resultSetInC /\ t.misuse = s.misuse
        /\ t.prepared = s.prepared
    BY DEF Safe, Good, Stmt
  <1>. HIDE DEF t
  <1>4. sh = NoShape => ResultCols(t) = 0
    BY <1>2, <1>3 DEF ResultCols
  <1>. HIDE DEF sh
  <1>5. Unbound(t)
    BY <1>3, <1>4 DEF Safe, Ready, Unbound, Tidy
  <1>6. Fits(t)
    BY <1>3 DEF Safe, Fits, Fitting
  <1>. QED  BY <1>1, <1>2, <1>3, <1>5, <1>6 DEF Pending

LEMMA ExecutedPending ==
    ASSUME NEW s, Safe(s), NEW f, ExecRc(s, s.prepared, f) \in {"success", "no_data"}
    PROVE  LET t == Executed(s, s.prepared, f)
           IN  Pending(t) /\ t.live
  <1>. DEFINE q == s.prepared
              t == Opened(s, Results[q])
              a == t.resultSetAvailable \/ (q \in Procs /\ Results[q] # <<>>)
              u == Executed(s, q, f)
  <1>1. q \in Queries /\ s.live
    BY DEF ExecRc, Safe, Good, Stmt
  <1>2. Results[q] \in Seq(Shapes)
    BY <1>1, ShapeAssumption
  <1>3. /\ Pending(t) /\ t.live
        /\ Results[q] # <<>> => t.open # NoShape
    BY <1>1, <1>2, OpenedPending
  <1>4. u = [t EXCEPT !.resultSetAvailable = a]
    BY DEF Executed
  <1>5. Good(u) /\ Tied(u)
    <2>1. Good(u)
      BY <1>1, ExecutedGood DEF Safe
    <2>2. Opens(s, u)
      BY <1>1, ExecutedRows DEF Safe, Good
    <2>. QED  BY <2>1, <2>2 DEF Opens
  <1>6. t.open = NoShape => a = t.resultSetAvailable
    BY <1>3 DEF Pending, Good, Stmt
  <1>. HIDE DEF t, a, u
  <1>7. /\ u.live = t.live /\ u.colDescAllocated = t.colDescAllocated
        /\ u.bindingRowAllocated = t.bindingRowAllocated /\ u.bound = t.bound
        /\ u.colCount = t.colCount /\ u.resultSetAvailable = a
        /\ u.open = t.open /\ u.descN = t.descN /\ u.bindingN = t.bindingN
        /\ u.resultSetInC = t.resultSetInC /\ u.misuse = t.misuse
        /\ u.prepared = t.prepared
    BY <1>3, <1>4 DEF Pending, Good, Stmt
  <1>8. ResultCols(u) = ResultCols(t)
    BY <1>7 DEF ResultCols
  <1>9. Unbound(u) /\ Fits(u)
    BY <1>3, <1>6, <1>7, <1>8 DEF Pending, Unbound, Tidy, Fits, Fitting
  <1>. QED  BY <1>3, <1>5, <1>7, <1>9 DEF Pending, u

LEMMA ExecDirectPending ==
    ASSUME NEW s, Safe(s), NEW q \in Queries, NEW f,
           ExecRc(s, q, f) \in {"success", "no_data"}
    PROVE  LET t == ExecDirect(s, q, f)
           IN  Pending(t) /\ t.live
  <1>. DEFINE s0 == [s EXCEPT !.prepared = NoQuery]
              t == Opened(s, Results[q])
              a == t.resultSetAvailable \/ (q \in Procs /\ Results[q] # <<>>)
              u == ExecDirect(s, q, f)
  <1>1. s.live /\ Results[q] \in Seq(Shapes)
    BY ShapeAssumption DEF ExecRc
  <1>2. u = [[t EXCEPT !.resultSetAvailable = a] EXCEPT !.prepared = NoQuery]
    BY DEF Executed, ExecDirect
  <1>3. Good(t)
    BY <1>1, OpenedKeeps, KeepsGood DEF Safe
  <1>4. Good(u) /\ Tied(u)
    <2>1. Good(u)
      BY ExecDirectGood DEF Safe
    <2>2. Opens(s, u)
      BY ExecDirectRows DEF Safe
    <2>. QED  BY <2>1, <2>2 DEF Opens
  <1>5. /\ t.live = s.live /\ t.colDescAllocated = s.colDescAllocated
        /\ t.bindingRowAllocated = s.bindingRowAllocated /\ t.bound = s.bound
        /\ t.colCount = s.colCount /\ t.resultSetAvailable = s.resultSetAvailable
        /\ t.descN = s.descN /\ t.bindingN = s.bindingN
        /\ t.resultSetInC = s.resultSetInC /\ t.misuse = s.misuse
        /\ Results[q] # <<>> => t.open # NoShape
    <2>1. /\ t.live = s.live /\ t.colDescAllocated = s.colDescAllocated
          /\ t.bindingRowAllocated = s.bindingRowAllocated /\ t.bound = s.bound
          /\ t.colCount = s.colCount /\ t.resultSetAvailable = s.resultSetAvailable
          /\ t.descN = s.descN /\ t.bindingN = s.bindingN
          /\ t.resultSetInC = s.resultSetInC /\ t.misuse = s.misuse
      BY DEF Opened, Safe, Good, Stmt
    <2>2. Results[q] # <<>> => t.open # NoShape
      <3>1. Results[q] # <<>> => Head(Results[q]) \in Shapes
        BY <1>1
      <3>2. t.open = IF Results[q] = <<>> THEN NoShape ELSE Head(Results[q])
        BY DEF Opened, Safe, Good, Stmt
      <3>. QED  BY <3>1, <3>2, ShapeAssumption
    <2>. QED  BY <2>1, <2>2
  <1>6. t.open = NoShape => a = t.resultSetAvailable
    BY <1>3, <1>5 DEF Good, Stmt
  <1>. HIDE DEF t, a, u
  <1>7. /\ u.live = t.live /\ u.colDescAllocated = t.colDescAllocated
        /\ u.bindingRowAllocated = t.bindingRowAllocated /\ u.bound = t.bound
        /\ u.colCount = t.colCount /\ u.resultSetAvailable = a
        /\ u.open = t.open /\ u.descN = t.descN /\ u.bindingN = t.bindingN
        /\ u.resultSetInC = t.resultSetInC /\ u.misuse = t.misuse
        /\ u.prepared = NoQuery
    BY <1>2, <1>3 DEF Good, Stmt
  <1>8. u.open = NoShape => ResultCols(u) = 0
    BY <1>7 DEF ResultCols
  <1>9. Unbound(u)
    BY <1>5, <1>6, <1>7, <1>8 DEF Safe, Ready, Unbound, Tidy
  <1>10. Fits(u)
    BY <1>5, <1>7 DEF Safe, Fits, Fitting
  <1>. QED  BY <1>1, <1>4, <1>5, <1>7, <1>9, <1>10 DEF Pending, u

\* bindColData() on the open result set, where nothing of it fails.
LEMMA BindColDataSafe ==
    ASSUME NEW s, Good(s), Tied(s), Tidy(s), Fits(s), s.live, s.open # NoShape,
           s.colCount = Cols[s.open], NEW f, f \notin {"describe", "bind"}
    PROVE  LET t == BindColData(s, f)
           IN  /\ Safe(t) /\ t.bindingRowAllocated /\ t.live /\ t.colCount = s.colCount
               /\ t.resultSetAvailable = s.resultSetAvailable
  <1>. DEFINE m1 == s.misuse \cup Misuse(s.colCount > s.bindingN, "bindings")
              b  == IF s.bound = "row" THEN "freed" ELSE s.bound
              s1 == IF s.bindingRowAllocated THEN FreeBindingRow(s) ELSE s
              s2 == IF s1.colDescAllocated THEN s1 ELSE PopulateColumnDescriptions(s1, f)
              t  == BindColData(s, f)
  <1>0. s.open \in Shapes /\ s.colCount \in Widths /\ s.colCount \in Nat \ {0}
    BY ShapeAssumption DEF Good, Stmt, Widths
  <1>a. t = IF s2.colDescAllocated THEN BindRow(s2, f) ELSE s2
    BY DEF BindColData
  <1>1. /\ s1.live /\ s1.open = s.open /\ s1.colCount = s.colCount
        /\ s1.colDescAllocated = s.colDescAllocated /\ s1.descN = s.descN
        /\ s1.resultSetAvailable = s.resultSetAvailable
        /\ s1.resultSetInC = s.resultSetInC
        /\ s1.misuse \in {s.misuse, m1} /\ (~s.bindingRowAllocated => s1.misuse = s.misuse)
        /\ s1 \in Stmt
    <2>1. m1 \in SUBSET MisuseKinds /\ b \in {"none", "row", "freed"}
      BY MisuseType DEF Good, Stmt, MisuseKinds
    <2>2. FreeBindingRow(s) = [s EXCEPT !.bindingRowAllocated = FALSE, !.bound = b,
                                        !.misuse = m1]
      BY DEF FreeBindingRow
    <2>. HIDE DEF m1, b
    <2>. QED  BY ZenonT(60), <2>1, <2>2 DEF Good, Stmt
  <1>2. Uniform => s1.misuse = s.misuse
    <2>1. Uniform /\ s.bindingRowAllocated => m1 = s.misuse
      <3>1. Uniform /\ s.bindingRowAllocated => s.colCount = s.bindingN
        BY <1>0 DEF Fits, Fitting, Uniform, Widths
      <3>. QED  BY <1>0, <3>1 DEF Misuse
    <2>. HIDE DEF m1, s1
    <2>. QED  BY <1>1, <2>1
  <1>. HIDE DEF s1, m1
  <1>3. /\ s2.live /\ s2.open = s.open /\ s2.colCount = s.colCount
        /\ s2.colDescAllocated /\ s2.misuse = s1.misuse
        /\ s2.resultSetAvailable = s.resultSetAvailable
        /\ s2.resultSetInC = s.resultSetInC
        /\ s2.descN \in {s.descN, s.colCount} /\ (~s.colDescAllocated => s2.descN = s.colCount)
        /\ s2 \in Stmt
    <2>1. CASE s1.colDescAllocated
      BY <1>1, <2>1
    <2>2. CASE ~s1.colDescAllocated
      <3>1. s2 = [s1 EXCEPT !.dbColumn = s1.open, !.descN = s1.colCount,
                            !.colDescAllocated = TRUE]
        BY <1>1, <2>2 DEF PopulateColumnDescriptions
      <3>. QED  BY ZenonT(60), <1>1, <2>2, <3>1 DEF Stmt
    <2>. QED  BY <2>1, <2>2
  <1>4. t = BindRow(s2, f)
    BY <1>a, <1>3
  <1>. HIDE DEF s2
  <1>5. Uniform => ColumnsMisuse(s2) = {}
    <2>1. Uniform => s2.descN = s2.colCount
      BY <1>0, <1>3 DEF Fits, Fitting, Uniform, Widths
    <2>. QED  BY <1>0, <1>3, <2>1 DEF ColumnsMisuse, Misuse
  <1>. DEFINE m2 == s2.misuse \cup ColumnsMisuse(s2)
  <1>6. t = [s2 EXCEPT !.bindingN = s2.colCount, !.bindingRow = NoRow, !.misuse = m2,
                       !.bindingRowAllocated = TRUE, !.bound = "row"]
    BY <1>3, <1>4 DEF BindRow, Stmt
  <1>7. Uniform => m2 = s.misuse
    BY <1>2, <1>3, <1>5
  <1>. HIDE DEF m2
  <1>8. /\ t.live /\ t.open = s.open /\ t.colCount = s.colCount
        /\ t.colDescAllocated /\ t.descN = s2.descN
        /\ t.bindingRowAllocated /\ t.bound = "row" /\ t.bindingN = s.colCount
        /\ t.resultSetAvailable = s.resultSetAvailable
        /\ t.resultSetInC = s.resultSetInC /\ t.misuse = m2
    BY <1>3, <1>6 DEF Stmt
  <1>9. Good(t) /\ Tied(t)
    BY BindColDataGood, BindColDataRows
  <1>. HIDE DEF t
  <1>10. Ready(t)
    BY <1>8 DEF Ready, Tidy
  <1>11. Fits(t)
    <2>1. s2.descN \in Widths \/ ~Uniform
      BY <1>0, <1>3 DEF Fits, Fitting
    <2>. QED  BY <1>0, <1>7, <1>8, <2>1 DEF Fits, Fitting
  <1>. QED  BY <1>8, <1>9, <1>10, <1>11 DEF Safe, t

LEMMA BindResultSafe ==
    ASSUME NEW s, Pending(s), NEW f, f \notin {"describe", "bind"}
    PROVE  LET t == BindResult(s, f)
           IN  /\ Safe(t) /\ t.live = s.live /\ (s.live => ~BindFailed(t))
               /\ s.live /\ t.colCount # 0 => t.resultSetAvailable
  <1>. DEFINE k  == ResultCols(s)
              s1 == SQLNumResultCols(s)
              s2 == [s1 EXCEPT !.resultSetAvailable = TRUE]
              t  == BindResult(s, f)
  <1>1. t = IF s1.colCount = 0 THEN s1 ELSE BindColData(s2, f)
    BY DEF BindResult
  <1>2. Good(s1) /\ Tied(s1) /\ Good(t) /\ Tied(t)
    BY SQLNumResultColsKeeps, KeepsGood, SQLNumResultColsStill, BindResultGood,
       BindResultRows DEF Pending, Good, Still
  <1>3. CASE ~s.live
    <2>1. s1 = OnHandle(s)
      BY <1>3 DEF SQLNumResultCols
    <2>2. /\ s1.live = s.live /\ s1.colDescAllocated = s.colDescAllocated
          /\ s1.bindingRowAllocated = s.bindingRowAllocated /\ s1.bound = s.bound
          /\ s1.colCount = s.colCount
          /\ s1.open = s.open /\ s1.descN = s.descN /\ s1.bindingN = s.bindingN
          /\ s1.resultSetInC = s.resultSetInC /\ s1.misuse \subseteq s.misuse \cup {"handle"}
      BY <2>1, OnHandleFields DEF Pending, Good
    <2>. HIDE DEF s1
    <2>3. /\ ~s2.live /\ ~s2.colDescAllocated
          /\ ~s2.bindingRowAllocated /\ s2.bound = s.bound
          /\ s2.colCount = s.colCount
          /\ s2.open = NoShape /\ s2.resultSetInC = s.resultSetInC
          /\ s2.misuse \subseteq s.misuse \cup {"handle"} /\ s2 \in Stmt
      BY <1>2, <1>3, <2>2 DEF Pending, Unbound, Tidy, Tied, Good, Stmt
    <2>4. BindColData(s2, f) = [s2 EXCEPT !.colDescAllocated = FALSE]
      BY <2>3 DEF BindColData, PopulateColumnDescriptions, Stmt
    <2>. HIDE DEF s2
    <2>5. /\ ~t.live /\ ~t.colDescAllocated /\ ~t.bindingRowAllocated /\ t.bound = s.bound
          /\ t.colCount = s.colCount /\ t.open = NoShape
          /\ t.resultSetInC = s.resultSetInC /\ t.misuse \subseteq s.misuse \cup {"handle"}
      BY <1>1, <1>2, <1>3, <2>2, <2>3, <2>4 DEF Pending, Unbound, Tidy, Tied, Stmt
    <2>. HIDE DEF t
    <2>6. Ready(t)
      BY <2>5 DEF Pending, Unbound, Ready, Tidy
    <2>7. Fits(t)
      BY <2>5 DEF Pending, Fits, Fitting
    <2>8. t.live = s.live
      BY <1>2, <1>3, <2>5 DEF Pending, Good, Stmt
    <2>. QED  BY <1>2, <1>3, <2>5, <2>6, <2>7, <2>8 DEF Safe, t
  <1>4. CASE s.live
    <2>1. s1 = [s EXCEPT !.colCount = k]
      BY <1>4 DEF SQLNumResultCols
    <2>2. /\ k \in {0} \cup Widths /\ k \in Nat
          /\ s.open # NoShape => k = Cols[s.open] /\ k # 0
      BY ResultColsWidth DEF Pending, Good
    <2>3. s.open = NoShape => k = 0 /\ (s.resultSetAvailable => s.bindingRowAllocated)
      BY <1>4 DEF Pending, Unbound
    <2>. HIDE DEF k
    <2>4. /\ s1.live /\ s1.colDescAllocated = s.colDescAllocated
          /\ s1.bindingRowAllocated = s.bindingRowAllocated /\ s1.bound = s.bound
          /\ s1.colCount = k /\ s1.resultSetAvailable = s.resultSetAvailable
          /\ s1.open = s.open /\ s1.descN = s.descN /\ s1.bindingN = s.bindingN
          /\ s1.resultSetInC = s.resultSetInC /\ s1.misuse = s.misuse
      BY <1>4, <2>1 DEF Pending, Good, Stmt
    <2>. HIDE DEF s1
    <2>5. Fits(s1) /\ Tidy(s1)
      BY <2>2, <2>4 DEF Pending, Unbound, Tidy, Fits, Fitting
    <2>6. CASE k = 0
      <3>1. t = s1 /\ s1.open = NoShape
        BY <1>1, <2>2, <2>4, <2>6
      <3>2. Ready(s1)
        BY <2>3, <2>4, <2>5, <2>6, <3>1 DEF Ready
      <3>3. ~BindFailed(s1)
        BY <2>4, <2>6 DEF BindFailed
      <3>. HIDE DEF t
      <3>. QED  BY <1>2, <1>4, <2>4, <2>5, <2>6, <3>1, <3>2, <3>3 DEF Safe, t
    <2>7. CASE k # 0
      <3>1. t = BindColData(s2, f)
        BY <1>1, <2>4, <2>7
      <3>2. /\ s2.live /\ s2.colDescAllocated = s1.colDescAllocated
            /\ s2.bindingRowAllocated = s1.bindingRowAllocated /\ s2.bound = s1.bound
            /\ s2.colCount = k /\ s2.resultSetAvailable
            /\ s2.open = s1.open /\ s2.descN = s1.descN /\ s2.bindingN = s1.bindingN
            /\ s2.resultSetInC = s1.resultSetInC /\ s2.misuse = s1.misuse
            /\ s2.stmtAllocated = s1.stmtAllocated /\ s2.pos = s1.pos /\ s2.run = s1.run
            /\ s2 \in Stmt
        BY <1>2, <2>4 DEF Good, Stmt
      <3>. HIDE DEF s2, t
      <3>3. Good(s2) /\ Tied(s2)
        BY <1>2, <2>4, <3>2 DEF Good, Described, Handled, Tied
      <3>4. Tidy(s2) /\ Fits(s2)
        BY <2>4, <2>5, <3>2 DEF Tidy, Fits, Fitting
      <3>5. s2.open # NoShape /\ s2.colCount = Cols[s2.open]
        BY <2>2, <2>3, <2>4, <2>7, <3>2
      <3>6. /\ Safe(t) /\ t.bindingRowAllocated /\ t.live
            /\ t.resultSetAvailable
        BY <3>1, <3>2, <3>3, <3>4, <3>5, BindColDataSafe
      <3>. QED  BY <1>4, <3>6 DEF BindFailed, t
    <2>. QED  BY <2>6, <2>7
  <1>. QED  BY <1>3, <1>4

-----------------------------------------------------------------------------
(* Rows *)

LEMMA SQLFetchSafe ==
    ASSUME NEW s, Safe(s), NEW f
    PROVE  LET t == SQLFetch(s, f)
           IN  /\ Safe(t) /\ t.live = s.live /\ t.resultSetAvailable = s.resultSetAvailable
               /\ t.open = s.open /\ t.bindingRowAllocated = s.bindingRowAllocated
               /\ FetchRc(s, f) # "success" => t.pos = s.pos
  <1>. DEFINE t == SQLFetch(s, f)
  <1>1. CASE FetchRc(s, f) = "success"
    <2>. DEFINE p == s.pos + 1
                r == IF s.bound = "row"
                     THEN [run |-> s.run, pos |-> p, shape |-> s.open, n |-> s.bindingN]
                     ELSE s.bindingRow
                m == s.misuse \cup Misuse(s.bound = "freed", "bindings")
    <2>1. t = [s EXCEPT !.pos = p, !.bindingRow = r, !.misuse = m]
      BY <1>1 DEF SQLFetch
    <2>2. m = s.misuse
      BY DEF Safe, Ready, Tidy, Misuse
    <2>3. Good(t) /\ Tied(t)
      BY <1>1, SQLFetchKeeps, KeepsGood, SQLFetchRows DEF Safe, ReadsOn
    <2>. HIDE DEF p, r, m, t
    <2>4. /\ t.live = s.live /\ t.colDescAllocated = s.colDescAllocated
          /\ t.bindingRowAllocated = s.bindingRowAllocated /\ t.bound = s.bound
          /\ t.colCount = s.colCount /\ t.resultSetAvailable = s.resultSetAvailable
          /\ t.open = s.open /\ t.descN = s.descN /\ t.bindingN = s.bindingN
          /\ t.resultSetInC = s.resultSetInC /\ t.misuse = s.misuse
      BY <2>1, <2>2 DEF Safe, Good, Stmt
    <2>5. Safe(t)
      BY <2>3, <2>4, SafeFields
    <2>. QED  BY <1>1, <2>4, <2>5 DEF t
  <1>2. CASE FetchRc(s, f) # "success"
    <2>1. t = OnHandle(s)
      BY <1>2 DEF SQLFetch
    <2>2. t.pos = s.pos
      BY <2>1 DEF OnHandle, Safe, Good, Stmt
    <2>. HIDE DEF t
    <2>. QED  BY <2>1, <2>2, OnHandleSafe, OnHandleFields DEF Safe, Good, t
  <1>. QED  BY <1>1, <1>2

\* The open result set, where its columns are bound.
LEMMA OpenWidth ==
    ASSUME NEW s, Safe(s), s.open # NoShape
    PROVE  s.bindingRowAllocated /\ s.colCount \in Widths
  BY ShapeAssumption DEF Safe, Good, Stmt, Ready, Widths

\* More rows, as wide as the open result set.
LEMMA MoreRows ==
    ASSUME NEW s, Safe(s), NEW q \in Seq(Row), \A i \in 1..Len(q) : q[i].n \in Widths,
           NEW t, Good(t), Tied(t),
           t.live = s.live, t.colDescAllocated = s.colDescAllocated,
           t.bindingRowAllocated = s.bindingRowAllocated, t.bound = s.bound,
           t.colCount = s.colCount, t.resultSetAvailable = s.resultSetAvailable,
           t.open = s.open, t.descN = s.descN, t.bindingN = s.bindingN,
           t.resultSetInC = s.resultSetInC \o q, Uniform => t.misuse = s.misuse
    PROVE  Safe(t)
  <1>1. Ready(t)
    BY DEF Safe, Ready, Tidy
  <1>2. Fits(t)
    <2>1. ASSUME NEW i \in 1..Len(t.resultSetInC), Uniform
          PROVE  t.resultSetInC[i].n \in Widths
      <3>. DEFINE a == s.resultSetInC
      <3>1. a \in Seq(Row)
        BY DEF Safe, Good, Stmt
      <3>2. \A j \in 1..Len(a) : a[j].n \in Widths
        BY <2>1 DEF Safe, Fits, Fitting
      <3>. HIDE DEF a
      <3>3. i \in 1..Len(a \o q)
        BY <2>1 DEF a
      <3>4. (a \o q)[i].n \in Widths
        BY <3>1, <3>2, <3>3
      <3>. QED  BY <3>4 DEF a
    <2>. QED  BY <2>1 DEF Safe, Fits, Fitting
  <1>. QED  BY <1>1, <1>2 DEF Safe

LEMMA PushRowSafe ==
    ASSUME NEW s, Safe(s), s.open # NoShape
    PROVE  LET t == PushRow(s)
           IN  /\ Safe(t) /\ t.live = s.live /\ t.resultSetAvailable = s.resultSetAvailable
               /\ t.open = s.open
  <1>. DEFINE r == BoundRow(s)
              q == s.resultSetInC \o <<r>>
              m == s.misuse \cup ColumnsMisuse(s) \cup BindingsMisuse(s)
              t == PushRow(s)
  <1>0. s.resultSetInC \in Seq(Row) /\ r \in Row
    BY BoundRowType DEF Safe, Good, Stmt
  <1>1. r.n \in Widths /\ s.bindingRowAllocated
    BY OpenWidth DEF BoundRow, Safe, Good, Stmt, Row
  <1>. HIDE DEF r
  <1>a. Append(s.resultSetInC, r) = q
    BY <1>0
  <1>2. t = [s EXCEPT !.resultSetInC = q, !.misuse = m]
    <2>1. t = [s EXCEPT !.resultSetInC = Append(s.resultSetInC, r), !.misuse = m]
      BY DEF PushRow, r
    <2>. QED  BY <1>a, <2>1
  <1>3. Good(t) /\ Tied(t)
    BY PushRowKeeps, KeepsGood, PushRowRows DEF Safe, ReadsOn
  <1>4. Uniform => m = s.misuse
    BY <1>1, NoMisuse DEF Safe
  <1>. HIDE DEF q, m, t
  <1>5. /\ t.live = s.live /\ t.colDescAllocated = s.colDescAllocated
        /\ t.bindingRowAllocated = s.bindingRowAllocated /\ t.bound = s.bound
        /\ t.colCount = s.colCount /\ t.resultSetAvailable = s.resultSetAvailable
        /\ t.open = s.open /\ t.descN = s.descN /\ t.bindingN = s.bindingN
        /\ t.resultSetInC = q /\ t.misuse = m
    BY <1>2 DEF Safe, Good, Stmt
  <1>6. <<r>> \in Seq(Row) /\ \A i \in 1..Len(<<r>>) : <<r>>[i].n \in Widths
    BY <1>0, <1>1
  <1>7. Safe(t)
    BY <1>3, <1>4, <1>5, <1>6, MoreRows DEF q
  <1>. QED  BY <1>5, <1>7 DEF t

LEMMA FetchDataSafe ==
    ASSUME NEW s, Safe(s), NEW k \in Nat, k <= Left(s)
    PROVE  LET t == FetchData(s, k)
           IN  /\ Safe(t) /\ t.live = s.live /\ t.resultSetAvailable = s.resultSetAvailable
               /\ t.open = s.open /\ t.pos = s.pos + k
               /\ t.colCount = s.colCount /\ t.bindingRowAllocated = s.bindingRowAllocated
  <1>1. CASE k = 0
    BY <1>1 DEF FetchData, Safe, Good, Stmt
  <1>2. CASE k # 0
    <2>0. s.open # NoShape /\ s.bindingRowAllocated /\ s.colCount \in Widths /\ s.bound = "row"
      BY <1>2, OpenWidth DEF Left, Safe, Tied
    <2>. DEFINE row(i) == [run |-> s.run, pos |-> s.pos + i, shape |-> s.open, n |-> s.colCount]
                q == [i \in 1..k |-> row(i)]
                r == [row(k) EXCEPT !.n = s.bindingN]
                rs == s.resultSetInC \o q
                p == s.pos + k
                m == s.misuse \cup ColumnsMisuse(s) \cup BindingsMisuse(s)
                       \cup Misuse(s.bound = "freed", "bindings")
                t == FetchData(s, k)
    <2>1. q \in Seq(Row) /\ \A i \in 1..Len(q) : q[i].n \in Widths
      <3>1. \A i \in 1..k : row(i) \in Row /\ row(i).n \in Widths
        BY <2>0 DEF Safe, Good, Stmt, Row
      <3>. HIDE DEF row
      <3>. QED  BY <3>1
    <2>2. t = [s EXCEPT !.pos = p, !.bindingRow = r, !.resultSetInC = rs, !.misuse = m]
      BY <1>2, <2>0 DEF FetchData
    <2>3. Good(t) /\ Tied(t)
      BY FetchDataKeeps, KeepsGood, FetchDataRows DEF Safe, ReadsOn
    <2>4. Uniform => m = s.misuse
      BY <2>0, NoMisuse DEF Safe, Misuse
    <2>. HIDE DEF r, rs, m, t, q, row
    <2>5. /\ t.live = s.live /\ t.colDescAllocated = s.colDescAllocated
          /\ t.bindingRowAllocated = s.bindingRowAllocated /\ t.bound = s.bound
          /\ t.colCount = s.colCount /\ t.resultSetAvailable = s.resultSetAvailable
          /\ t.open = s.open /\ t.descN = s.descN /\ t.bindingN = s.bindingN
          /\ t.resultSetInC = rs /\ t.misuse = m /\ t.pos = p
      BY <2>2 DEF Safe, Good, Stmt
    <2>6. Safe(t)
      BY <2>1, <2>3, <2>4, <2>5, MoreRows DEF rs
    <2>. QED  BY <2>5, <2>6 DEF t
  <1>. QED  BY <1>1, <1>2

LEMMA BuildJsObjectSafe ==
    ASSUME NEW s, Safe(s), s.bindingRowAllocated \/ s.resultSetInC = <<>>
    PROVE  LET t == BuildJsObject(s)
           IN  /\ Safe(t) /\ t.live = s.live /\ t.resultSetAvailable = s.resultSetAvailable
               /\ t.open = s.open /\ t.pos = s.pos /\ t.resultSetInC = <<>>
  <1>. DEFINE m == s.misuse \cup (IF s.resultSetInC = <<>> THEN {} ELSE ColumnsMisuse(s))
                     \cup Misuse(\E i \in DOMAIN s.resultSetInC :
                                    s.resultSetInC[i].n < s.colCount, "row")
              q == <<>>
              t == BuildJsObject(s)
  <1>1. t = [s EXCEPT !.resultSetInC = q, !.misuse = m]
    BY DEF BuildJsObject
  <1>2. Good(t) /\ Tied(t)
    BY BuildJsObjectKeeps, KeepsGood, BuildJsObjectRows DEF Safe, ReadsOn
  <1>3. Uniform => m = s.misuse
    <2>1. Uniform /\ s.resultSetInC # <<>> => ColumnsMisuse(s) = {}
      BY NoMisuse DEF Safe
    <2>2. ASSUME Uniform, NEW i \in DOMAIN s.resultSetInC
          PROVE  ~(s.resultSetInC[i].n < s.colCount)
      <3>1. DOMAIN s.resultSetInC = 1..Len(s.resultSetInC) /\ s.resultSetInC[i] \in Row
        BY DEF Safe, Good, Stmt
      <3>2. s.resultSetInC[i].n \in Widths /\ s.resultSetInC[i].n \in Nat
            /\ s.colCount \in {0} \cup Widths /\ s.colCount \in Nat
        BY <2>2, <3>1 DEF Safe, Fits, Fitting, Row, Good, Stmt
      <3>. QED  BY <2>2, <3>2 DEF Widths, Uniform
    <2>3. Uniform => Misuse(\E i \in DOMAIN s.resultSetInC :
                                s.resultSetInC[i].n < s.colCount, "row") = {}
      BY <2>2 DEF Misuse
    <2>. QED  BY <2>1, <2>3
  <1>. HIDE DEF m, t, q
  <1>4. /\ t.live = s.live /\ t.colDescAllocated = s.colDescAllocated
        /\ t.bindingRowAllocated = s.bindingRowAllocated /\ t.bound = s.bound
        /\ t.colCount = s.colCount /\ t.resultSetAvailable = s.resultSetAvailable
        /\ t.open = s.open /\ t.descN = s.descN /\ t.bindingN = s.bindingN
        /\ t.resultSetInC = q /\ t.misuse = m /\ t.pos = s.pos
    BY <1>1 DEF Safe, Good, Stmt
  <1>5. Ready(t)
    BY <1>4 DEF Safe, Ready, Tidy
  <1>6. Fits(t)
    <2>1. Len(q) = 0
      BY DEF q
    <2>. QED  BY <1>3, <1>4, <2>1 DEF Safe, Fits, Fitting
  <1>. QED  BY <1>2, <1>4, <1>5, <1>6 DEF Safe, t, q

-----------------------------------------------------------------------------
(* Closing *)

LEMMA CloseCursorSafe ==
    ASSUME NEW s, Safe(s)
    PROVE  Safe([OnHandle(s) EXCEPT !.open = NoShape])
  <1>. DEFINE u == OnHandle(s)
              t == [u EXCEPT !.open = NoShape]
  <1>1. Safe(u)
    BY OnHandleSafe
  <1>. HIDE DEF u
  <1>2. Good(t) /\ Tied(t)
    BY ZenonT(60), <1>1 DEF Safe, Good, Described, Handled, Tied, Stmt
  <1>3. /\ t.live = u.live /\ t.colDescAllocated = u.colDescAllocated
        /\ t.bindingRowAllocated = u.bindingRowAllocated /\ t.bound = u.bound
        /\ t.colCount = u.colCount /\ t.resultSetAvailable = u.resultSetAvailable
        /\ t.open = NoShape /\ t.descN = u.descN /\ t.bindingN = u.bindingN
        /\ t.resultSetInC = u.resultSetInC /\ t.misuse = u.misuse
    BY <1>1 DEF Safe, Good, Stmt
  <1>. HIDE DEF t
  <1>4. Safe(t)
    BY <1>1, <1>2, <1>3, SafeFields
  <1>. QED  BY <1>4 DEF t, u

LEMMA FreeColumnsFields ==
    ASSUME NEW s, Safe(s)
    PROVE  LET t == FreeColumns(s)
           IN  /\ ~t.colDescAllocated /\ ~t.bindingRowAllocated
               /\ t.live = s.live /\ t.stmtAllocated = s.stmtAllocated
               /\ t.colCount = s.colCount /\ t.open = s.open
               /\ t.resultSetInC = s.resultSetInC
               /\ Uniform => t.misuse = s.misuse
  <1>. DEFINE m1 == s.misuse \cup Misuse(s.colCount > s.descN, "columns")
              s1 == IF s.colDescAllocated THEN FreeColumnDescriptions(s) ELSE s
              b  == IF s1.bound = "row" THEN "freed" ELSE s1.bound
              m2 == s1.misuse \cup Misuse(s1.colCount > s1.bindingN, "bindings")
              t  == FreeColumns(s)
  <1>0. t = IF s1.bindingRowAllocated THEN FreeBindingRow(s1) ELSE s1
    BY DEF FreeColumns
  <1>1. Uniform /\ s.colDescAllocated => m1 = s.misuse
    <2>1. Uniform /\ s.colDescAllocated => ~(s.colCount > s.descN)
      BY DEF Safe, Good, Stmt, Fits, Fitting, Uniform, Widths
    <2>. QED  BY <2>1 DEF Misuse
  <1>2. FreeColumnDescriptions(s) = [s EXCEPT !.colDescAllocated = FALSE, !.misuse = m1]
    BY DEF FreeColumnDescriptions
  <1>. HIDE DEF m1
  <1>3. /\ ~s1.colDescAllocated /\ s1.bindingRowAllocated = s.bindingRowAllocated
        /\ s1.live = s.live /\ s1.stmtAllocated = s.stmtAllocated
        /\ s1.colCount = s.colCount /\ s1.open = s.open /\ s1.bindingN = s.bindingN
        /\ s1.resultSetInC = s.resultSetInC
        /\ Uniform => s1.misuse = s.misuse
    BY <1>1, <1>2 DEF Safe, Good, Stmt
  <1>4. FreeBindingRow(s1) = [s1 EXCEPT !.bindingRowAllocated = FALSE, !.bound = b,
                                        !.misuse = m2]
    BY DEF FreeBindingRow
  <1>5. DOMAIN s1 = DOMAIN s /\ {"bindingRowAllocated", "bound", "misuse"} \subseteq DOMAIN s
    BY <1>2 DEF Safe, Good, Stmt
  <1>. HIDE DEF s1
  <1>6. Uniform /\ s.bindingRowAllocated => m2 = s.misuse
    <2>1. Uniform /\ s.bindingRowAllocated => ~(s1.colCount > s1.bindingN)
      BY <1>3 DEF Safe, Good, Stmt, Fits, Fitting, Uniform, Widths
    <2>. QED  BY <1>3, <2>1 DEF Misuse
  <1>. HIDE DEF m2, b
  <1>7. CASE s.bindingRowAllocated
    <2>1. t = [s1 EXCEPT !.bindingRowAllocated = FALSE, !.bound = b, !.misuse = m2]
      BY <1>0, <1>3, <1>4, <1>7
    <2>. QED  BY <1>3, <1>5, <1>6, <1>7, <2>1
  <1>8. CASE ~s.bindingRowAllocated
    BY <1>0, <1>3, <1>8
  <1>. QED  BY <1>7, <1>8

-----------------------------------------------------------------------------
(* Synchronous methods, with no call outstanding *)

LEMMA ReturnSets ==
    ASSUME NEW s, NEW r, Return(s, r)
    PROVE  stmt' = s
  BY DEF Return

LEMMA RejectedKeeps ==
    ASSUME NEW op, Rejected(op)
    PROVE  stmt' = stmt
  BY DEF Rejected

LEMMA CalmFault ==
    ASSUME Calm, NEW fs, NEW f \in Fault(fs)
    PROVE  f \notin {"describe", "bind"}
  BY DEF Calm, Fault

\* The handle is alive, and a result set that may be fetched from is bound.
LEMMA AvailableBound ==
    ASSUME NEW s, Safe(s), s.stmtAllocated
    PROVE  s.live /\ (s.resultSetAvailable => s.bindingRowAllocated)
  BY DEF Safe, Good, Handled, Ready

LEMMA PrepareSyncSafe ==
    ASSUME Safe(stmt), NEW q \in Queries, PrepareSync(q)
    PROVE  Safe(stmt')
  <1>1. stmt' = stmt \/ \E f : stmt' = SQLPrepare(stmt, q, f)
    BY ReturnSets, RejectedKeeps DEF PrepareSync, Checked
  <1>. QED  BY <1>1, SQLPrepareSafe

\* A statement without a result set has nothing to bind.
LEMMA PendingSafe ==
    ASSUME NEW s, Pending(s), s.open = NoShape, s.live
    PROVE  Safe(s)
  BY DEF Pending, Safe, Unbound, Ready

LEMMA ExecuteSyncSafe ==
    ASSUME Calm, Safe(stmt), ExecuteSync
    PROVE  Safe(stmt')
  <1>. DEFINE q == stmt.prepared
              s1(f) == Executed(stmt, q, f)
  <1>1. PICK f : /\ f \notin {"describe", "bind"}
                 /\ stmt' = IF ExecRc(stmt, q, f) # "success" THEN s1(f)
                            ELSE BindResult(s1(f), f)
    <2>1. PICK f \in Fault({"exec", "no_data", "describe", "bind"}) :
             IF ExecRc(stmt, q, f) # "success"
             THEN Return(s1(f), Failure("executeSync", s1(f)))
             ELSE Return(BindResult(s1(f), f),
                         IF BindFailed(BindResult(s1(f), f))
                         THEN Failure("executeSync", BindResult(s1(f), f))
                         ELSE Value("executeSync", BindResult(s1(f), f), <<>>))
      BY DEF ExecuteSync
    <2>. QED  BY <2>1, CalmFault, ReturnSets
  <1>2. CASE ExecRc(stmt, q, f) = "success"
    BY <1>1, <1>2, ExecutedPending, BindResultSafe
  <1>3. CASE ExecRc(stmt, q, f) = "no_data"
    <2>1. Pending(s1(f)) /\ s1(f).live
      BY <1>3, ExecutedPending
    <2>2. s1(f).open = NoShape
      <3>1. Results[q] = <<>>
        BY <1>3 DEF ExecRc
      <3>2. s1(f) = [Opened(stmt, Results[q]) EXCEPT
                        !.resultSetAvailable = @ \/ (q \in Procs /\ Results[q] # <<>>)]
        BY <1>3 DEF Executed
      <3>3. Opened(stmt, Results[q]).open = NoShape
        BY <3>1 DEF Opened, Safe, Good, Stmt
      <3>. QED  BY <3>2, <3>3
    <2>. QED  BY <1>1, <1>3, <2>1, <2>2, PendingSafe
  <1>4. CASE ExecRc(stmt, q, f) \notin {"success", "no_data"}
    BY <1>1, <1>4, OnHandleSafe DEF Executed
  <1>. QED  BY <1>2, <1>3, <1>4

LEMMA FetchSyncSafe ==
    ASSUME Safe(stmt), FetchSync
    PROVE  Safe(stmt')
  <1>1. CASE stmt' = stmt
    BY <1>1
  <1>2. CASE /\ stmt.stmtAllocated /\ stmt.resultSetAvailable
             /\ \E f : stmt' \in {SQLFetch(stmt, f), ReadRow(SQLFetch(stmt, f))}
    <2>1. PICK f : stmt' \in {SQLFetch(stmt, f), ReadRow(SQLFetch(stmt, f))}
      BY <1>2
    <2>2. Safe(SQLFetch(stmt, f)) /\ SQLFetch(stmt, f).bindingRowAllocated
      BY <1>2, AvailableBound, SQLFetchSafe
    <2>. QED  BY <2>1, <2>2, ReadRowSafe
  <1>. QED  BY <1>1, <1>2, ReturnSets, RejectedKeeps DEF FetchSync, Checked

LEMMA FetchAllSyncSafe ==
    ASSUME Safe(stmt), NEW cb, FetchAllSync(cb)
    PROVE  Safe(stmt')
  <1>1. CASE stmt' = stmt
    BY <1>1
  <1>2. CASE /\ stmt.stmtAllocated /\ stmt.resultSetAvailable
             /\ \E end \in FetchEnds(stmt) :
                   stmt' \in {FetchData(stmt, end.got), BuildJsObject(FetchData(stmt, end.got))}
    <2>1. PICK end \in FetchEnds(stmt) :
             stmt' \in {FetchData(stmt, end.got), BuildJsObject(FetchData(stmt, end.got))}
      BY <1>2
    <2>2. end.got \in Nat /\ end.got <= Left(stmt)
      BY FetchEndsType DEF Safe
    <2>3. Safe(FetchData(stmt, end.got)) /\ FetchData(stmt, end.got).bindingRowAllocated
      BY <1>2, <2>2, AvailableBound, FetchDataSafe
    <2>. QED  BY <2>1, <2>3, BuildJsObjectSafe
  <1>. QED  BY <1>1, <1>2, ReturnSets, RejectedKeeps DEF FetchAllSync, Checked

LEMMA NextResultSafe ==
    ASSUME Calm, Safe(stmt), NextResult
    PROVE  Safe(stmt')
  <1>1. PICK f \in Fault({"describe", "bind"}) :
           IF stmt.live /\ stmt.rest # <<>>
           THEN stmt' = BindResult(Opened(stmt, stmt.rest), f)
           ELSE stmt' = OnHandle(stmt)
    BY ReturnSets DEF NextResult
  <1>2. f \notin {"describe", "bind"}
    BY CalmFault
  <1>3. CASE stmt.live /\ stmt.rest # <<>>
    <2>1. Pending(Opened(stmt, stmt.rest))
      BY <1>3, OpenedPending DEF Safe, Good, Stmt
    <2>. QED  BY <1>1, <1>2, <1>3, <2>1, BindResultSafe
  <1>4. CASE ~(stmt.live /\ stmt.rest # <<>>)
    BY <1>1, <1>4, OnHandleSafe
  <1>. QED  BY <1>3, <1>4

LEMMA ColumnEntrySafe ==
    ASSUME Safe(stmt), NEW op, NEW i \in Nat, ColumnEntry(op, i)
    PROVE  Safe(stmt')
  <1>. DEFINE m == stmt.misuse \cup Misuse(i >= stmt.descN, "columns")
              t == [stmt EXCEPT !.misuse = m]
  <1>1. CASE stmt' = stmt
    BY <1>1
  <1>2. CASE stmt.colDescAllocated /\ i < stmt.colCount /\ stmt' = t
    <2>1. Good(t) /\ Tied(t)
      <3>1. m \in SUBSET MisuseKinds /\ stmt.misuse \subseteq m
        BY MisuseType DEF Safe, Good, Stmt, MisuseKinds
      <3>. HIDE DEF m
      <3>2. /\ t \in Stmt /\ t.misuse = m /\ t.pos = stmt.pos /\ t.run = stmt.run
            /\ t.live = stmt.live /\ t.stmtAllocated = stmt.stmtAllocated
            /\ t.resultSetAvailable = stmt.resultSetAvailable /\ t.open = stmt.open
            /\ t.bindingRowAllocated = stmt.bindingRowAllocated /\ t.bound = stmt.bound
            /\ t.colDescAllocated = stmt.colDescAllocated
        BY <3>1 DEF Safe, Good, Stmt
      <3>. HIDE DEF t
      <3>. QED  BY <3>1, <3>2 DEF Safe, Good, Described, Handled, Tied
    <2>2. Uniform => m = stmt.misuse
      <3>1. Uniform => stmt.colCount = stmt.descN
        BY <1>2 DEF Safe, Fits, Fitting, Uniform, Widths, Good, Described, Stmt
      <3>. QED  BY <1>2, <3>1 DEF Misuse, Safe, Good, Stmt
    <2>. HIDE DEF m
    <2>3. Ready(t)
      BY DEF Safe, Good, Ready, Tidy, Stmt
    <2>4. Fits(t)
      BY <2>2 DEF Safe, Good, Fits, Fitting, Stmt
    <2>. QED  BY <1>2, <2>1, <2>3, <2>4 DEF Safe
  <1>. QED  BY <1>1, <1>2, ReturnSets, RejectedKeeps DEF ColumnEntry, Checked

LEMMA CloseSafe ==
    ASSUME Calm, Safe(stmt), Good(stmt'), Tied(stmt'), Close
    PROVE  Safe(stmt')
  <1>. DEFINE s1 == FreeColumns(stmt)
              t  == [s1 EXCEPT !.stmtAllocated = FALSE, !.resultSetAvailable = FALSE,
                               !.live = FALSE, !.open = NoShape, !.rest = <<>>,
                               !.bound = "none", !.prepared = NoQuery]
  <1>1. \/ ~stmt.stmtAllocated /\ stmt' = s1
        \/ stmt' = t
    BY ReturnSets DEF Close, Calm
  <1>2. /\ ~s1.colDescAllocated /\ ~s1.bindingRowAllocated
        /\ s1.colCount = stmt.colCount /\ s1.resultSetInC = stmt.resultSetInC
        /\ Uniform => s1.misuse = stmt.misuse
    BY FreeColumnsFields
  <1>3. CASE ~stmt.stmtAllocated /\ stmt' = s1
    <2>1. s1 = stmt
      BY <1>3 DEF Safe, Good, Handled, Ready, Tidy, FreeColumns
    <2>. QED  BY <1>3, <2>1
  <1>4. CASE stmt' = t
    <2>1. s1 \in Stmt
      BY FreeColumnsGood DEF Safe, Good
    <2>. HIDE DEF s1
    <2>2. /\ ~t.live /\ ~t.colDescAllocated /\ ~t.bindingRowAllocated /\ t.bound = "none"
          /\ t.colCount = stmt.colCount /\ ~t.resultSetAvailable /\ t.open = NoShape
          /\ t.resultSetInC = stmt.resultSetInC /\ t.misuse = s1.misuse
      BY <1>2, <2>1 DEF Stmt
    <2>. HIDE DEF t
    <2>3. Ready(t)
      BY <2>2 DEF Ready, Tidy
    <2>4. Fits(t)
      BY <1>2, <2>2 DEF Safe, Fits, Fitting
    <2>. QED  BY <1>4, <2>3, <2>4 DEF Safe
  <1>. QED  BY <1>1, <1>3, <1>4

LEMMA SyncSafe ==
    ASSUME Calm, ~inCallback, Safe(stmt), Good(stmt'), Tied(stmt'), SyncCall
    PROVE  Safe(stmt') /\ ~inCallback'
  <1>1. ~inCallback'
    BY SyncCallCallback DEF Calm
  <1>2. ASSUME NEW q \in Queries, NEW cb \in BOOLEAN, ExecSync(q, cb)
        PROVE  FALSE
    BY <1>2 DEF ExecSync, MainCall, Calm
  <1>3. ~ExecSyncReturn
    BY DEF ExecSyncReturn
  <1>4. ASSUME NEW q \in Queries, PrepareSync(q)
        PROVE  Safe(stmt')
    BY <1>4, PrepareSyncSafe
  <1>5. CASE ExecuteSync
    BY <1>1, <1>5, ExecuteSyncSafe
  <1>6. CASE FetchSync
    BY <1>1, <1>6, FetchSyncSafe
  <1>7. ASSUME NEW cb \in BOOLEAN, FetchAllSync(cb)
        PROVE  Safe(stmt')
    BY <1>7, FetchAllSyncSafe
  <1>8. CASE NextResult
    BY <1>1, <1>8, NextResultSafe
  <1>9. CASE CloseCursor
    BY <1>1, <1>9, ReturnSets, CloseCursorSafe DEF CloseCursor
  <1>10. CASE Close
    BY <1>1, <1>10, CloseSafe
  <1>11. CASE NumFields
    <2>1. stmt' \in {stmt, SQLNumResultCols(stmt)}
      BY <1>11, ReturnSets, RejectedKeeps DEF NumFields, Checked
    <2>. QED  BY <1>1, <2>1, SQLNumResultColsSafe
  <1>12. ASSUME NEW i \in Nat, FieldValue(i) \/ FieldInfo(i)
         PROVE  Safe(stmt')
    BY <1>12, ColumnEntrySafe DEF FieldValue, FieldInfo
  <1>13. CASE SetStmtAttr \/ GetStmtAttr \/ NumRows \/ StmtError
    <2>1. stmt' \in {stmt, OnHandle(stmt)}
      BY <1>13, ReturnSets, RejectedKeeps
      DEF SetStmtAttr, GetStmtAttr, NumRows, StmtError, HandleCall, Checked
    <2>. QED  BY <1>1, <2>1, OnHandleSafe
  <1>14. \A sh \in Shapes : 0..Cols[sh] \subseteq Nat
    BY ShapeAssumption
  <1>. QED
    BY <1>14, <1>1, <1>2, <1>3, <1>4, <1>5, <1>6, <1>7, <1>8, <1>9, <1>10, <1>11, <1>12, <1>13
    DEF SyncCall

-----------------------------------------------------------------------------
(* Calls, workers and callbacks *)

\* With all calls but c idle, the invariant is about c.
LEMMA OneCall ==
    ASSUME RInv', Alone', ~inCallback', NEW c \in Calls,
           \A d \in Calls : d # c => calls'[d].pc = "idle",
           IF calls'[c].pc = "bind" THEN Unbound(stmt') ELSE Ready(stmt'),
           Fits(stmt'), Poised(c)'
    PROVE  MInv'
  <1>1. Binds' <=> calls'[c].pc = "bind"
    BY DEF Binds
  <1>2. \A d \in Calls : Poised(d)'
    BY DEF Poised, InBulk
  <1>. QED  BY <1>1, <1>2 DEF MInv

\* The state while call c is outstanding, or none is.
LEMMA MInvOf ==
    ASSUME MInv, NEW c \in Calls, \A d \in Calls : d # c => calls[d].pc = "idle"
    PROVE  /\ calls[c].pc = "bind" => Pending(stmt)
           /\ calls[c].pc # "bind" => Safe(stmt)
  <1>1. Binds <=> calls[c].pc = "bind"
    BY DEF Binds
  <1>. QED  BY <1>1 DEF MInv, RInv, IInv, Pending, Safe

LEMMA QueueMemory ==
    ASSUME MInv, RInv', Alone', Outstanding = {}, NEW c \in Calls, AsyncCall(c)
    PROVE  MInv'
  <1>0. \A d \in Calls : calls[d].pc = "idle"
    BY DEF Outstanding
  <1>1. PICK op \in AsyncOps : \E q, guard :
            /\ Queue(c, op, q, guard)
            /\ guard /\ op \in {"exec", "fetch", "fetchAll"} => stmt.stmtAllocated
            /\ guard /\ op \in {"fetch", "fetchAll"} => stmt.resultSetAvailable
    BY DEF AsyncCall, AsyncOps, Exec, Prepare, Execute, Fetch, FetchAll
  <1>2. PICK q, guard :
            /\ Queue(c, op, q, guard)
            /\ guard /\ op \in {"exec", "fetch", "fetchAll"} => stmt.stmtAllocated
            /\ guard /\ op \in {"fetch", "fetchAll"} => stmt.resultSetAvailable
    BY <1>1
  <1>3. stmt' = stmt /\ inCallback' = inCallback
    BY <1>2, RejectedKeeps DEF Queue
  <1>4. Safe(stmt)
    BY <1>0, MInvOf
  <1>5. CASE calls' = calls
    BY <1>0, <1>3, <1>4, <1>5, OneCall DEF MInv, Safe, Poised, InBulk
  <1>6. CASE guard /\ calls' = [calls EXCEPT ![c] = [Idle EXCEPT !.op = op, !.pc = "queued",
                                                                 !.q = q]]
    <2>1. /\ calls'[c].pc = "queued" /\ calls'[c].op = op
          /\ \A d \in Calls : d # c => calls'[d] = calls[d]
      BY <1>6 DEF MInv, RInv, IInv, TypeOK, Idle
    <2>2. Poised(c)'
      BY <1>2, <1>3, <1>4, <1>6, <2>1 DEF Poised, InBulk, Safe, Good, Handled
    <2>. QED  BY <1>0, <1>3, <1>4, <2>1, <2>2, OneCall DEF MInv, Safe
  <1>. QED  BY <1>2, <1>5, <1>6 DEF Queue

LEMMA DeliverMemory ==
    ASSUME MInv, RInv', Alone', NEW c \in Calls, Deliver(c)
    PROVE  MInv'
  <1>. DEFINE op == calls[c].op
  <1>1. Settle(c)
    BY DEF Deliver, OnOK, OnError, ExecOnOK, PrepareOnOK, ExecuteOnOK, FetchOnOK, FetchAllOnOK
  <1>2. /\ calls[c].pc = "done" /\ calls'[c] = Idle /\ ~inCallback'
        /\ \A d \in Calls : d # c => calls'[d] = calls[d]
    BY <1>1 DEF Settle, MInv, RInv, IInv, TypeOK
  <1>3. \A d \in Calls : d # c => calls[d].pc = "idle"
    BY <1>2, OnlyOne DEF MInv
  <1>4. Safe(stmt)
    BY <1>2, <1>3, MInvOf
  <1>5. op \in {"exec", "fetch", "fetchAll"} => stmt.live
    BY <1>2 DEF MInv, Poised
  <1>6. stmt.live /\ stmt.resultSetAvailable => stmt.bindingRowAllocated
    BY <1>4 DEF Safe, Ready
  <1>7. Safe(stmt')
    <2>1. CASE stmt' = stmt
      BY <1>4, <2>1
    <2>2. CASE ExecOnOK(c) /\ stmt' # stmt
      <3>1. stmt' = BuildJsObject(stmt) /\ op = "exec" /\ ~calls[c].err /\ stmt.colCount # 0
        BY <2>2, ReturnSets DEF ExecOnOK, OnOK
      <3>2. stmt.colCount > 0
        BY <1>4, <3>1 DEF Safe, Good, Stmt
      <3>3. stmt.resultSetAvailable
        BY <1>2, <3>1, <3>2 DEF MInv, Poised, InBulk
      <3>. QED  BY <1>4, <1>5, <1>6, <3>1, <3>3, BuildJsObjectSafe
    <2>3. CASE FetchOnOK(c)
      <3>1. stmt' = ReadRow(stmt) /\ op = "fetch"
        BY <2>3, ReturnSets DEF FetchOnOK, OnOK
      <3>2. stmt.resultSetAvailable
        BY <1>2, <3>1 DEF MInv, Poised
      <3>. QED  BY <1>4, <1>5, <1>6, <3>1, <3>2, ReadRowSafe
    <2>4. CASE FetchAllOnOK(c)
      <3>1. stmt' = BuildJsObject(stmt) /\ op = "fetchAll"
        BY <2>4, ReturnSets DEF FetchAllOnOK, OnOK
      <3>2. stmt.resultSetAvailable
        BY <1>2, <3>1 DEF MInv, Poised
      <3>. QED  BY <1>4, <1>5, <1>6, <3>1, <3>2, BuildJsObjectSafe
    <2>5. CASE OnError(c) \/ PrepareOnOK(c) \/ ExecuteOnOK(c)
      BY <1>4, <2>5, ReturnSets DEF OnError, PrepareOnOK, ExecuteOnOK
    <2>. QED  BY <2>1, <2>2, <2>3, <2>4, <2>5 DEF Deliver
  <1>8. calls'[c].pc = "idle" /\ Poised(c)'
    BY <1>2 DEF Idle, Poised, InBulk
  <1>. QED  BY <1>2, <1>3, <1>7, <1>8, OneCall DEF Safe

\* A step of call c after which Poised says little of it.
LEMMA Steps ==
    ASSUME MInv, RInv', Alone', NEW c \in Calls, calls[c].pc # "idle",
           NEW pc, Becomes(c, pc),
           IF pc = "bind" THEN Pending(stmt') ELSE Safe(stmt'), Poised(c)'
    PROVE  MInv'
  <1>1. /\ \A d \in Calls : d # c => calls'[d].pc = "idle"
        /\ ~inCallback' /\ calls'[c].pc = pc
    BY OnlyOne DEF MInv, Becomes, Others
  <1>. QED  BY <1>1, OneCall DEF Safe, Pending

LEMMA StartMemory ==
    ASSUME MInv, RInv', Alone', NEW c \in Calls, Start(c)
    PROVE  MInv'
  <1>1. Starting(c) /\ stmt' = stmt
    BY StartRows DEF MInv, RInv, IInv, Start
  <1>2. Safe(stmt)
    BY <1>1, OnlyOne, MInvOf DEF Starting, MInv
  <1>3. Poised(c)'
    BY <1>1 DEF Starting, Becomes, MInv, Poised, InBulk
  <1>. QED  BY <1>1, <1>2, <1>3, Steps DEF Starting

LEMMA ExecMemory ==
    ASSUME MInv, RInv', Alone', NEW c \in Calls, ExecAsyncWorkerExec(c)
    PROVE  MInv'
  <1>. DEFINE q  == calls[c].q
              s1(f) == ExecDirect(stmt, q, f)
  <1>1. PICK f : \E set \in MessageSet(stmt) :
           LET rc == ExecRc(stmt, q, f)
           IN  IF rc \in {"success", "no_data"} THEN Worker(c, "bind", s1(f), rc, FALSE)
               ELSE Worker(c, "done", s1(f), rc, set)
    BY DEF ExecAsyncWorkerExec, MessageSet
  <1>2. calls[c].pc = "cli" /\ calls[c].op = "exec"
    BY DEF ExecAsyncWorkerExec
  <1>3. Safe(stmt) /\ stmt.live
    BY <1>2, OnlyOne, MInvOf DEF MInv, Poised
  <1>4. CASE ExecRc(stmt, q, f) \in {"success", "no_data"}
    <2>0. q \in Queries
      BY <1>3, <1>4 DEF ExecRc, MInv, RInv, IInv, TypeOK, Call
    <2>1. Pending(s1(f)) /\ s1(f).live
      BY <1>3, <1>4, <2>0, ExecDirectPending
    <2>2. stmt' = s1(f) /\ Becomes(c, "bind")
      BY <1>1, <1>4, WorkerBecomes DEF MInv, RInv, IInv
    <2>3. Poised(c)'
      BY <1>2, <2>1, <2>2 DEF Becomes, Poised, InBulk
    <2>. QED  BY <1>2, <2>1, <2>2, <2>3, Steps
  <1>5. CASE ExecRc(stmt, q, f) \notin {"success", "no_data"}
    <2>1. /\ stmt' = s1(f) /\ Becomes(c, "done") /\ calls'[c].err
      BY <1>1, <1>3, <1>5, WorkerBecomes DEF MInv, RInv, IInv, MessageSet
    <2>2. s1(f) = OnHandle(stmt)
      BY <1>5 DEF ExecDirect
    <2>3. Safe(s1(f)) /\ s1(f).live
      BY <1>3, <2>2, OnHandleSafe, OnHandleFields DEF Safe, Good
    <2>4. Poised(c)'
      BY <1>2, <2>1, <2>3 DEF Becomes, Poised, InBulk
    <2>. QED  BY <1>2, <2>1, <2>3, <2>4, Steps
  <1>. QED  BY <1>4, <1>5

LEMMA ExecuteMemory ==
    ASSUME MInv, RInv', Alone', NEW c \in Calls, ExecuteAsyncWorkerExec(c)
    PROVE  MInv'
  <1>. DEFINE q  == stmt.prepared
              s1(f) == Executed(stmt, q, f)
  <1>1. PICK f : \E set \in MessageSet(stmt) :
           LET rc == ExecRc(stmt, q, f)
           IN  IF rc \in {"success", "no_data"} THEN Worker(c, "bind", s1(f), rc, FALSE)
               ELSE Worker(c, IF set THEN "done" ELSE "bind", s1(f), rc, set)
    BY DEF ExecuteAsyncWorkerExec, MessageSet
  <1>2. calls[c].pc = "cli" /\ calls[c].op = "execute"
    BY DEF ExecuteAsyncWorkerExec
  <1>3. Safe(stmt)
    BY <1>2, OnlyOne, MInvOf DEF MInv
  <1>4. CASE ExecRc(stmt, q, f) \in {"success", "no_data"}
    <2>1. Pending(s1(f))
      BY <1>3, <1>4, ExecutedPending
    <2>2. stmt' = s1(f) /\ Becomes(c, "bind")
      BY <1>1, <1>4, WorkerBecomes DEF MInv, RInv, IInv
    <2>3. Poised(c)'
      BY <1>2, <2>2 DEF Becomes, Poised, InBulk
    <2>. QED  BY <1>2, <2>1, <2>2, <2>3, Steps
  <1>5. CASE ExecRc(stmt, q, f) \notin {"success", "no_data"}
    <2>1. /\ stmt' = s1(f)
          /\ Becomes(c, "done") \/ (~stmt.live /\ Becomes(c, "bind"))
      <3>1. PICK set \in MessageSet(stmt) :
               Worker(c, IF set THEN "done" ELSE "bind", s1(f), ExecRc(stmt, q, f), set)
        BY <1>1, <1>5
      <3>2. set \/ ~stmt.live
        BY <3>1 DEF MessageSet
      <3>. HIDE DEF s1
      <3>3. stmt' = s1(f) /\ Becomes(c, IF set THEN "done" ELSE "bind")
        BY <3>1, WorkerBecomes DEF MInv, RInv, IInv
      <3>. QED  BY <3>2, <3>3
    <2>2. s1(f) = OnHandle(stmt)
      BY <1>5 DEF Executed
    <2>3. Safe(s1(f)) /\ s1(f).live = stmt.live
      BY <1>3, <2>2, OnHandleSafe, OnHandleFields DEF Safe, Good
    <2>. HIDE DEF s1
    <2>4. CASE Becomes(c, "done")
      <3>1. Poised(c)'
        BY <1>2, <2>4 DEF Becomes, Poised, InBulk
      <3>. QED  BY <1>2, <2>1, <2>3, <2>4, <3>1, Steps
    <2>5. CASE ~stmt.live /\ Becomes(c, "bind")
      <3>1. Poised(c)'
        BY <1>2, <2>5 DEF Becomes, Poised, InBulk
      <3>2. Pending(stmt')
        BY <2>1, <2>3, <2>5, SafePending
      <3>. QED  BY <1>2, <2>5, <3>1, <3>2, Steps
    <2>. QED  BY <2>1, <2>4, <2>5
  <1>. QED  BY <1>4, <1>5

LEMMA PrepareMemory ==
    ASSUME MInv, RInv', Alone', NEW c \in Calls, PrepareAsyncWorkerExec(c)
    PROVE  MInv'
  <1>. DEFINE q  == calls[c].q
  <1>1. PICK f, rc, err : Worker(c, "done", SQLPrepare(stmt, q, f), rc, err)
    BY DEF PrepareAsyncWorkerExec
  <1>2. calls[c].pc = "cli" /\ calls[c].op = "prepare"
    BY DEF PrepareAsyncWorkerExec
  <1>3. Safe(stmt) /\ q \in Queries \cup {NoQuery}
    BY <1>2, OnlyOne, MInvOf DEF MInv, RInv, IInv, TypeOK, Call
  <1>4. stmt' = SQLPrepare(stmt, q, f) /\ Becomes(c, "done")
    BY <1>1, WorkerBecomes DEF MInv, RInv, IInv
  <1>5. Safe(stmt')
    BY <1>3, <1>4, SQLPrepareSafe
  <1>6. Poised(c)'
    BY <1>2, <1>4 DEF Becomes, Poised, InBulk
  <1>. QED  BY <1>2, <1>4, <1>5, <1>6, Steps

LEMMA BindMemory ==
    ASSUME Calm, MInv, RInv', Alone', NEW c \in Calls,
           ExecAsyncWorkerBind(c) \/ ExecuteAsyncWorkerBind(c)
    PROVE  MInv'
  <1>. DEFINE s1(f) == BindResult(stmt, f)
  <1>1. calls[c].pc = "bind"
    BY DEF ExecAsyncWorkerBind, ExecuteAsyncWorkerBind
  <1>2. Pending(stmt)
    BY <1>1, OnlyOne, MInvOf DEF MInv
  <1>3. CASE ExecAsyncWorkerBind(c)
    <2>1. PICK f \in Fault({"describe", "bind"}) :
             Worker(c, IF s1(f).colCount > 0 /\ ~BindFailed(s1(f)) THEN "fetching" ELSE "done",
                    s1(f), calls[c].rc, BindFailed(s1(f)))
      BY <1>3 DEF ExecAsyncWorkerBind
    <2>2. calls[c].op = "exec" /\ stmt.live /\ f \notin {"describe", "bind"}
      BY <1>1, <1>3, CalmFault DEF ExecAsyncWorkerBind, MInv, Poised
    <2>3. /\ Safe(s1(f)) /\ s1(f).live /\ ~BindFailed(s1(f))
          /\ s1(f).colCount # 0 => s1(f).resultSetAvailable
      BY <1>2, <2>2, BindResultSafe
    <2>4. s1(f).colCount \in Nat
      BY <2>3 DEF Safe, Good, Stmt
    <2>. HIDE DEF s1
    <2>. DEFINE pc == IF s1(f).colCount > 0 THEN "fetching" ELSE "done"
    <2>5. stmt' = s1(f) /\ Becomes(c, pc)
      BY <2>1, <2>3, WorkerBecomes DEF MInv, RInv, IInv
    <2>6. Poised(c)'
      BY <2>2, <2>3, <2>4, <2>5 DEF Becomes, Poised, InBulk
    <2>. QED  BY <1>1, <2>3, <2>5, <2>6, Steps
  <1>4. CASE ExecuteAsyncWorkerBind(c)
    <2>1. PICK f \in Fault({"describe", "bind"}) : Worker(c, "done", s1(f), calls[c].rc, FALSE)
      BY <1>4 DEF ExecuteAsyncWorkerBind
    <2>2. calls[c].op = "execute" /\ f \notin {"describe", "bind"}
      BY <1>4, CalmFault DEF ExecuteAsyncWorkerBind
    <2>3. Safe(s1(f))
      BY <1>2, <2>2, BindResultSafe
    <2>. HIDE DEF s1
    <2>4. stmt' = s1(f) /\ Becomes(c, "done")
      BY <2>1, WorkerBecomes DEF MInv, RInv, IInv
    <2>5. Poised(c)'
      BY <2>2, <2>4 DEF Becomes, Poised, InBulk
    <2>. QED  BY <1>1, <2>3, <2>4, <2>5, Steps
  <1>. QED  BY <1>3, <1>4

\* What the end of the data says, on a live handle.
LEMMA DrainedAtEnd ==
    ASSUME NEW s, Safe(s), s.live, NEW f, FetchRc(s, f) \notin {"success", "error"}
    PROVE  s.open # NoShape /\ s.pos = NRows /\ FetchRc(s, f) = "no_data"
  BY ShapeAssumption DEF FetchRc, Left, Safe, Good, Stmt

LEMMA FetchDataMemory ==
    ASSUME MInv, RInv', Alone', NEW c \in Calls, WorkerFetchData(c)
    PROVE  MInv'
  <1>. DEFINE s1(f) == SQLFetch(stmt, f)
  <1>1. PICK f :
           LET rc == FetchRc(stmt, f)
           IN  IF rc = "success"
               THEN Worker(c, "fetching", PushRow(s1(f)), calls[c].rc, FALSE)
               ELSE Worker(c, "done", s1(f), rc, rc = "error" /\ calls[c].op = "fetchAll")
    BY DEF WorkerFetchData
  <1>2. calls[c].pc = "fetching" /\ calls[c].op \in {"exec", "fetchAll"}
    BY DEF WorkerFetchData, MInv, RInv, Sane
  <1>3. Safe(stmt) /\ stmt.live /\ stmt.resultSetAvailable
    BY <1>2, OnlyOne, MInvOf DEF MInv, Poised, InBulk
  <1>4. /\ Safe(s1(f)) /\ s1(f).live /\ s1(f).resultSetAvailable /\ s1(f).open = stmt.open
        /\ FetchRc(stmt, f) # "success" => s1(f).pos = stmt.pos
    BY <1>3, SQLFetchSafe
  <1>. HIDE DEF s1
  <1>5. CASE FetchRc(stmt, f) = "success"
    <2>1. stmt.open # NoShape
      BY <1>5 DEF FetchRc
    <2>2. /\ Safe(PushRow(s1(f))) /\ PushRow(s1(f)).live /\ PushRow(s1(f)).resultSetAvailable
      BY <1>4, <2>1, PushRowSafe
    <2>3. stmt' = PushRow(s1(f)) /\ Becomes(c, "fetching")
      BY <1>1, <1>5, WorkerBecomes DEF MInv, RInv, IInv
    <2>4. Poised(c)'
      BY <1>2, <2>2, <2>3 DEF Becomes, Poised, InBulk
    <2>. QED  BY <1>2, <2>2, <2>3, <2>4, Steps
  <1>6. CASE FetchRc(stmt, f) # "success"
    <2>1. /\ stmt' = s1(f) /\ Becomes(c, "done")
          /\ calls'[c].err = (FetchRc(stmt, f) = "error" /\ calls[c].op = "fetchAll")
      BY <1>1, <1>6, WorkerBecomes DEF MInv, RInv, IInv
    <2>2. FetchRc(stmt, f) # "error" => stmt.open # NoShape /\ stmt.pos = NRows
      BY <1>3, <1>6, DrainedAtEnd
    <2>3. FetchRc(stmt, f) # "error" => Drained'
      BY <1>4, <1>6, <2>1, <2>2 DEF Drained
    <2>4. Poised(c)'
      BY <1>2, <1>4, <2>1, <2>3 DEF Becomes, Poised, InBulk
    <2>. QED  BY <1>2, <1>4, <2>1, <2>4, Steps
  <1>. QED  BY <1>5, <1>6

LEMMA FetchMemory ==
    ASSUME MInv, RInv', Alone', NEW c \in Calls, FetchAsyncWorkerExec(c)
    PROVE  MInv'
  <1>. DEFINE s1(f) == SQLFetch(stmt, f)
  <1>1. PICK f : Worker(c, "done", s1(f), FetchRc(stmt, f), FetchRc(stmt, f) = "error")
    BY DEF FetchAsyncWorkerExec
  <1>2. calls[c].pc = "cli" /\ calls[c].op = "fetch"
    BY DEF FetchAsyncWorkerExec
  <1>3. Safe(stmt) /\ stmt.live /\ stmt.resultSetAvailable
    BY <1>2, OnlyOne, MInvOf DEF MInv, Poised
  <1>4. /\ Safe(s1(f)) /\ s1(f).live /\ s1(f).resultSetAvailable /\ s1(f).open = stmt.open
        /\ FetchRc(stmt, f) # "success" => s1(f).pos = stmt.pos
    BY <1>3, SQLFetchSafe
  <1>. HIDE DEF s1
  <1>5. /\ stmt' = s1(f) /\ Becomes(c, "done") /\ calls'[c].rc = FetchRc(stmt, f)
    BY <1>1, WorkerBecomes DEF MInv, RInv, IInv
  <1>6. FetchRc(stmt, f) = "no_data" => Drained'
    <2>1. FetchRc(stmt, f) = "no_data" => stmt.open # NoShape /\ stmt.pos = NRows
      BY <1>3, DrainedAtEnd
    <2>. QED  BY <1>4, <1>5, <2>1 DEF Drained
  <1>7. Poised(c)'
    BY <1>2, <1>4, <1>5, <1>6 DEF Becomes, Poised, InBulk
  <1>. QED  BY <1>2, <1>4, <1>5, <1>7, Steps

-----------------------------------------------------------------------------
(* Every step *)

LEMMA InitMInv ==
    ASSUME Init
    PROVE  MInv
  <1>1. RInv
    BY InitRInv
  <1>2. Alone /\ ~inCallback /\ ~Binds /\ \A c \in Calls : Poised(c)
    BY DEF Init, Idle, Alone, Outstanding, Binds, Poised, InBulk
  <1>3. Ready(stmt) /\ Fits(stmt)
    BY DEF Init, Ready, Tidy, Fits, Fitting
  <1>. QED  BY <1>1, <1>2, <1>3 DEF MInv

LEMMA NextKeepsMInv ==
    ASSUME Calm, MInv, [Next]_vars
    PROVE  MInv'
  <1>1. RInv' /\ RowStep
    BY NextKeepsRInv DEF MInv
  <1>2. Alone'
    BY <1>1, RowStepAlone DEF Calm, MInv
  <1>3. CASE UNCHANGED vars
    BY <1>1, <1>2, <1>3 DEF vars, MInv, Binds, Poised, InBulk, Drained
  <1>4. CASE SyncCall
    <2>1. Outstanding = {} /\ calls' = calls
      BY <1>4, SyncCallCallback, SyncLeavesCalls DEF Calm, MInv
    <2>2. \A c \in Calls : calls[c].pc = "idle"
      BY <2>1 DEF Outstanding
    <2>3. Safe(stmt)
      BY <2>2 DEF MInv, RInv, IInv, Binds, Safe
    <2>4. Safe(stmt') /\ ~inCallback'
      BY <1>1, <1>4, <2>3, SyncSafe DEF MInv, RInv, IInv
    <2>5. ~Binds' /\ \A c \in Calls : Poised(c)'
      BY <2>1, <2>2 DEF Binds, Poised, InBulk
    <2>. QED  BY <1>1, <1>2, <2>4, <2>5 DEF MInv, Safe
  <1>5. ASSUME NEW c \in Calls, AsyncCall(c)
        PROVE  MInv'
    <2>1. Outstanding = {}
      BY <1>5 DEF AsyncCall, Exec, Prepare, Execute, Fetch, FetchAll, Queue, Calm
    <2>. QED  BY <1>1, <1>2, <1>5, <2>1, QueueMemory
  <1>6. ASSUME NEW c \in Calls, WorkerStep(c)
        PROVE  MInv'
    BY <1>1, <1>2, <1>6, StartMemory, ExecMemory, ExecuteMemory, PrepareMemory, BindMemory,
       FetchDataMemory, FetchMemory DEF WorkerStep
  <1>7. ASSUME NEW c \in Calls, Deliver(c)
        PROVE  MInv'
    BY <1>1, <1>2, <1>7, DeliverMemory
  <1>. QED  BY <1>3, <1>4, <1>5, <1>6, <1>7 DEF Next

LEMMA MInvariant ==
    ASSUME Calm
    PROVE  Spec => []MInv
  <1>1. Init => MInv
    BY InitMInv
  <1>2. MInv /\ [Next]_vars => MInv'
    BY NextKeepsMInv
  <1>. QED  BY <1>1, <1>2, PTL DEF Spec

\* MemorySafe for a client that waits for its calls and does not use execSync,
\* on result sets of one width, while SQLDescribeCol, SQLBindCol and
\* SQLFreeStmt do what they are asked: whatever the order of its methods and
\* whichever other CLI call fails, no column description, binding buffer or
\* row is used after it was freed or past its end (dbstmt.cc:2252-2550).
THEOREM MemoryIsSafe ==
    ASSUME Calm, Uniform
    PROVE  Spec => []MemorySafe
  <1>1. MInv => MemorySafe
    BY DEF MInv, Fits, Fitting, MemorySafe
  <1>. QED  BY <1>1, MInvariant, PTL

=============================================================================
