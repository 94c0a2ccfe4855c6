--------------------------- MODULE StmtFetchProofs ---------------------------
(***************************************************************************)
(* Proofs about StmtFetch: which row a fetch hands over, what its values   *)
(* are and how long a Buffer lasts, for any layout, result set, NULLs,     *)
(* positions and faults.                                                   *)
(***************************************************************************)
EXTENDS StmtFetch, TLAPS

-----------------------------------------------------------------------------
(* The invariant *)

\* The memory of the statement: a binding row in use has its buffers, cells of
\* those given up lie behind a CLOB, rows not yet allocated were never written,
\* and lengths and data are of the same row.
Core(s) ==
    /\ s \in Stmt
    /\ s.bindingRowAllocated => s.gen # 0
    /\ \A g \in 1..MaxBinds, c \in Cols : <<g, c>> \in s.heap =>
          /\ g <= s.gen /\ ~IsClob(c)
          /\ \/ s.bindingRowAllocated /\ g = s.gen
             \/ \E d \in Cols : d < c /\ IsClob(d)
    /\ \A g \in 1..MaxBinds : g > s.gen => s.buffer[g] = 0
    /\ s.gen # 0 => s.buffer[s.gen] = 0 \/ s.indicator = s.buffer[s.gen]
    /\ \A i \in DOMAIN s.resultSetInC : \E p \in 1..NRows : s.resultSetInC[i] = Copy(p)
Mem(s) ==
    /\ Core(s)
    /\ s.bindingRowAllocated => \A c \in Bound(0) : <<s.gen, c>> \in s.heap

\* What fetching changes nothing of.
Same(t, s) ==
    /\ t.stmtAllocated = s.stmtAllocated /\ t.asNumber = s.asNumber
    /\ t.bindingRowAllocated = s.bindingRowAllocated /\ t.gen = s.gen
    /\ t.scrollable = s.scrollable /\ t.open = s.open

\* Where a fetch stands before SQLFetch.
Before(s, ask, from) == IF Scrolls(s, ask) THEN Target(ask, from) ELSE from

\* SQLFetch was called with the cursor at p and did not fail.
Arrived(s, p, rc) ==
    IF p < NRows
    THEN rc = RowRc(p + 1) /\ s.buffer[s.gen] = p + 1 /\ s.indicator = p + 1
    ELSE rc = "no_data"

\* fetchData() was called with the cursor at from and met the end.
New(from) == IF from >= NRows THEN 0 ELSE NRows - from
Collected(s, from) ==
    LET n == Len(s.resultSetInC)
    IN  /\ n >= New(from)
        /\ \A i \in 1..New(from) : s.resultSetInC[n - New(from) + i] = Copy(from + i)

CallOK ==
    /\ call \in Call
    /\ call.pc # "idle" => stmt.bindingRowAllocated /\ kept = {}
    /\ call.pc = "queued" => stmt.pos = call.from
    /\ call.pc = "scrolled" =>
          /\ call.op = "fetch"
          /\ stmt.open => stmt.pos = Before(stmt, call.ask, call.from)
    /\ call.pc = "done" /\ call.rc # "error" =>
          /\ stmt.open
          /\ call.op = "fetch" =>
                Arrived(stmt, Before(stmt, call.ask, call.from), call.rc)
          /\ call.op = "fetchAll" => Collected(stmt, call.from)

\* The client has Buffers of the present binding row only.
KeptOK ==
    \A b \in kept :
        /\ b \in Held /\ b.by = "fetch"
        /\ stmt.bindingRowAllocated /\ b.mem = stmt.gen
        /\ IsBinary(b.col) /\ b.row = stmt.buffer[stmt.gen]

\* A fetch with an orientation on a scrollable cursor hands over the row behind
\* the one it names, because SQLFetch follows SQLFetchScroll, and on another
\* cursor, or without an orientation, the next one; at the end it says so.
PositionedFetch ==
    reply.op \in {"fetch", "fetchSync"} /\ reply.kind = "value" =>
        LET at == Before(stmt, reply.ask, reply.from)
        IN  IF at < NRows THEN reply.rc = RowRc(at + 1) /\ RowOf(reply.rows[1], at + 1)
            ELSE reply.rc = "no_data"

\* An answer without rows, which says nothing of any.
NoRows(r) ==
    /\ r.rows = <<>>
    /\ r.kind = "value" => r.op \notin {"fetch", "fetchSync", "fetchAll"}

ReplyOK ==
    /\ reply \in Reply
    /\ call.pc # "idle" => NoRows(reply)
    /\ RowsWhole /\ PositionedFetch /\ SameEitherWay

IInv == Mem(stmt) /\ (stmt.open => stmt.gen # 0) /\ CallOK /\ KeptOK /\ ReplyOK

-----------------------------------------------------------------------------
(* The layout *)

LEMMA LayoutType ==
    /\ NRows \in Nat /\ MaxBinds \in Nat
    /\ Len(Layout) \in Nat /\ Cols = 1..Len(Layout)
    /\ \A c \in Cols : Layout[c].sqlType \in SqlTypes /\ Layout[c].colPrecise \in Nat
<1>. DEFINE R == [sqlType : SqlTypes, colPrecise : Nat]
<1>1. Layout \in Seq(R) /\ NRows \in Nat /\ MaxBinds \in Nat
  BY FetchAssumption
<1>2. \A c \in DOMAIN Layout : Layout[c] \in R
  <2>. HIDE DEF R
  <2> QED
    BY <1>1
<1>3. Len(Layout) \in Nat /\ DOMAIN Layout = 1..Len(Layout)
  <2>. HIDE DEF R
  <2> QED
    BY <1>1
<1> QED
  BY <1>1, <1>2, <1>3 DEF Cols

LEMMA NullOrBad == ASSUME NEW f, f \in Bad PROVE f \notin Null
  BY FetchAssumption

-----------------------------------------------------------------------------
(* The binding row *)

LEMMA FreeBindingRowMem ==
    ASSUME NEW s, Core(s), s.bindingRowAllocated
    PROVE  /\ Mem(FreeBindingRow(s))
           /\ ~FreeBindingRow(s).bindingRowAllocated
           /\ FreeBindingRow(s).gen = s.gen
           /\ FreeBindingRow(s).open = s.open
<1>. DEFINE h == s.heap \ ({s.gen} \X Freed)
            t == FreeBindingRow(s)
<1>1. t = [s EXCEPT !.bindingRowAllocated = FALSE, !.heap = h]
  BY DEF FreeBindingRow
<1>2. h \in SUBSET Cells /\ h \subseteq s.heap
  BY DEF Core, Stmt
<1>3. t \in Stmt
  <2>. HIDE DEF h
  <2> QED
    BY <1>1, <1>2 DEF Core, Stmt
<1>4. /\ t.heap = h /\ t.gen = s.gen /\ t.bindingRowAllocated = FALSE /\ t.open = s.open
      /\ t.buffer = s.buffer /\ t.indicator = s.indicator
      /\ t.resultSetInC = s.resultSetInC
  <2>. HIDE DEF h
  <2> QED
    BY <1>1 DEF Core, Stmt
<1>5. ASSUME NEW g \in 1..MaxBinds, NEW c \in Cols, <<g, c>> \in h
      PROVE  g <= s.gen /\ ~IsClob(c) /\ \E d \in Cols : d < c /\ IsClob(d)
  <2>1. g <= s.gen /\ ~IsClob(c) /\ (g = s.gen \/ \E d \in Cols : d < c /\ IsClob(d))
    BY <1>2, <1>5 DEF Core
  <2>2. g = s.gen => c \notin Freed
    BY <1>5
  <2>3. CASE g = s.gen
    <3>1. PICK d \in Cols : d <= c /\ IsClob(d)
      BY <2>2, <2>3 DEF Freed
    <3>2. d < c
      BY <2>1, <3>1, LayoutType
    <3> QED
      BY <2>1, <3>1, <3>2
  <2> QED
    BY <2>1, <2>3
<1>. HIDE DEF t, h
<1>6. Core(t)
  BY <1>3, <1>4, <1>5 DEF Core
<1> QED
  BY <1>4, <1>6 DEF Mem, t

LEMMA BindColDataMem ==
    ASSUME NEW s, Mem(s), s.gen < MaxBinds, NEW k \in {0} \cup Cols
    PROVE  /\ Mem(BindColData(s, k))
           /\ BindColData(s, k).bindingRowAllocated <=> k = 0
           /\ BindColData(s, k).gen # 0
<1>. DEFINE s1 == IF s.bindingRowAllocated THEN FreeBindingRow(s) ELSE s
            g1 == s1.gen + 1
            h2 == s1.heap \cup ({g1} \X Bound(k))
            s2 == [s1 EXCEPT !.gen = g1, !.bindingRowAllocated = TRUE, !.heap = h2]
            t  == IF k = 0 THEN s2 ELSE FreeBindingRow(s2)
<1>1. Mem(s1) /\ ~s1.bindingRowAllocated /\ s1.gen = s.gen /\ s1.open = s.open
  <2>1. CASE s.bindingRowAllocated
    <3>1. Core(s) /\ s1 = FreeBindingRow(s)
      BY <2>1 DEF Mem
    <3> QED
      BY <2>1, <3>1, FreeBindingRowMem
  <2>2. CASE ~s.bindingRowAllocated
    BY <2>2
  <2> QED
    BY <2>1, <2>2
<1>2. BindColData(s, k) = t
  <2>1. BindColData(s, k) =
            LET u == [s1 EXCEPT !.gen = @ + 1, !.bindingRowAllocated = TRUE,
                                !.heap = @ \cup ({s1.gen + 1} \X Bound(k))]
            IN  IF k = 0 THEN u ELSE FreeBindingRow(u)
    BY DEF BindColData
  <2>. HIDE DEF s1
  <2> QED
    BY <1>1, <2>1 DEF Mem, Core, Stmt
<1>. HIDE DEF s1
<1>3. g1 \in 1..MaxBinds /\ s1.gen \in Nat /\ s1.gen < g1
  <2>1. s1.gen \in 0..MaxBinds
    BY <1>1 DEF Mem, Core, Stmt
  <2> QED
    BY <1>1, <2>1, LayoutType
<1>4. h2 \in SUBSET Cells
  BY <1>1, <1>3 DEF Mem, Core, Stmt, Cells, Bound
<1>5. /\ s2 \in Stmt
      /\ s2.gen = g1 /\ s2.bindingRowAllocated = TRUE /\ s2.heap = h2
      /\ s2.buffer = s1.buffer /\ s2.indicator = s1.indicator
      /\ s2.resultSetInC = s1.resultSetInC
  <2>0. g1 \in 0..MaxBinds
    BY <1>3
  <2>. HIDE DEF h2, g1
  <2> QED
    BY <1>1, <1>4, <2>0 DEF Mem, Core, Stmt
<1>6. ASSUME NEW g \in 1..MaxBinds, NEW c \in Cols, <<g, c>> \in h2
      PROVE  /\ g <= g1 /\ ~IsClob(c)
             /\ g = g1 \/ \E d \in Cols : d < c /\ IsClob(d)
  <2>1. CASE <<g, c>> \in s1.heap
    BY <1>1, <1>3, <2>1 DEF Mem, Core
  <2>2. CASE <<g, c>> \in {g1} \X Bound(k)
    BY <1>3, <2>2 DEF Bound
  <2> QED
    BY <1>6, <2>1, <2>2
<1>7. k = 0 => \A c \in Bound(0) : <<g1, c>> \in h2
  OBVIOUS
<1>8. \A g \in 1..MaxBinds : g > g1 => s1.buffer[g] = 0
  BY <1>1, <1>3 DEF Mem, Core
<1>9. s1.buffer[g1] = 0
  BY <1>1, <1>3 DEF Mem, Core
<1>. HIDE DEF h2, g1, s2
<1>10. Core(s2)
  <2>1. g1 # 0
    BY <1>3
  <2>2. \A i \in DOMAIN s2.resultSetInC : \E p \in 1..NRows : s2.resultSetInC[i] = Copy(p)
    BY <1>1, <1>5 DEF Mem, Core
  <2> QED
    BY <1>5, <1>6, <1>8, <1>9, <2>1, <2>2 DEF Core
<1>11. CASE k = 0
  <2>1. t = s2
    BY <1>11
  <2>2. Mem(s2)
    BY <1>5, <1>7, <1>10, <1>11 DEF Mem
  <2>. HIDE DEF t
  <2> QED
    BY <1>2, <1>3, <1>5, <1>11, <2>1, <2>2
<1>12. CASE k # 0
  <2>1. t = FreeBindingRow(s2)
    BY <1>12
  <2>2. Mem(t) /\ t.bindingRowAllocated = FALSE /\ t.gen = g1
    <3>1. s2.bindingRowAllocated
      BY <1>5
    <3>2. t \in Stmt
      BY <1>10, <2>1, <3>1, FreeBindingRowMem DEF Mem, Core
    <3> QED
      BY <1>5, <1>10, <2>1, <3>1, <3>2, FreeBindingRowMem DEF Stmt
  <2>. HIDE DEF t
  <2>3. g1 # 0
    BY <1>3
  <2> QED
    BY <1>2, <1>12, <2>2, <2>3
<1> QED
  BY <1>11, <1>12

-----------------------------------------------------------------------------
(* The cursor *)

\* OnRow writes the row and its lengths into the present binding row.
LEMMA OnRowMem ==
    ASSUME NEW s, Mem(s), s.gen # 0, NEW p \in 0..NRows
    PROVE  /\ Mem(OnRow(s, p)) /\ Same(OnRow(s, p), s)
           /\ OnRow(s, p).pos = p
           /\ OnRow(s, p).buffer[s.gen] = p
           /\ OnRow(s, p).indicator = p
           /\ OnRow(s, p).resultSetInC = s.resultSetInC
<1>. DEFINE b == [s.buffer EXCEPT ![s.gen] = p]
            t == OnRow(s, p)
<1>1. t = [s EXCEPT !.pos = p, !.buffer = b, !.indicator = p]
  BY DEF OnRow
<1>2. s.gen \in 1..MaxBinds /\ p \in 0..(NRows + 1)
  BY LayoutType DEF Mem, Core, Stmt
<1>3. b \in [1..MaxBinds -> 0..NRows] /\ b[s.gen] = p
  BY <1>2 DEF Mem, Core, Stmt
<1>4. \A g \in 1..MaxBinds : g > s.gen => b[g] = 0
  BY <1>2, <1>3 DEF Mem, Core, Stmt
<1>. HIDE DEF b
<1>5. /\ t \in Stmt /\ t.pos = p /\ t.buffer = b /\ t.indicator = p /\ Same(t, s)
      /\ t.resultSetInC = s.resultSetInC /\ t.heap = s.heap
  BY <1>1, <1>2, <1>3 DEF Mem, Core, Stmt, Same
<1>. HIDE DEF t
<1>6. Core(t)
  BY <1>2, <1>3, <1>4, <1>5 DEF Mem, Core, Same
<1>7. Mem(t)
  BY <1>5, <1>6 DEF Mem, Same
<1> QED
  BY <1>3, <1>5, <1>7 DEF t

\* Moving the cursor off the rows touches no memory.
LEMMA OffRowMem ==
    ASSUME NEW s, Mem(s), NEW p \in 0..(NRows + 1)
    PROVE  /\ Mem([s EXCEPT !.pos = p]) /\ Same([s EXCEPT !.pos = p], s)
           /\ [s EXCEPT !.pos = p].pos = p
           /\ [s EXCEPT !.pos = p].resultSetInC = s.resultSetInC
<1>. DEFINE t == [s EXCEPT !.pos = p]
<1>1. /\ t \in Stmt /\ t.pos = p /\ t.buffer = s.buffer /\ t.indicator = s.indicator
      /\ Same(t, s) /\ t.resultSetInC = s.resultSetInC /\ t.heap = s.heap
  BY DEF Mem, Core, Stmt, Same
<1>. HIDE DEF t
<1>2. Core(t)
  BY <1>1 DEF Mem, Core, Same
<1>3. Mem(t)
  BY <1>1, <1>2 DEF Mem, Same
<1> QED
  BY <1>1, <1>3 DEF t

\* SQLFetch hands over the row after the cursor, or says that there is none.
LEMMA SQLFetchArrives ==
    ASSUME NEW s, Mem(s), s.open => s.gen # 0, NEW fails \in BOOLEAN
    PROVE  /\ Mem(SQLFetch(s, fails)) /\ Same(SQLFetch(s, fails), s)
           /\ FetchRc(s, fails) \in Rcs
           /\ FetchRc(s, fails) # "error" =>
                 /\ s.open
                 /\ Arrived(SQLFetch(s, fails), s.pos, FetchRc(s, fails))
<1>. DEFINE t == SQLFetch(s, fails)
<1>0. s.pos \in 0..(NRows + 1) /\ NRows \in Nat
  BY LayoutType DEF Mem, Core, Stmt
<1>1. CASE FetchRc(s, fails) = "error"
  BY <1>1 DEF SQLFetch, Rcs, Same
<1>2. CASE FetchRc(s, fails) = "no_data"
  <2>1. t = [s EXCEPT !.pos = NRows + 1] /\ s.open /\ s.pos >= NRows
    BY <1>2 DEF SQLFetch, FetchRc, RowRc
  <2>2. NRows + 1 \in 0..(NRows + 1) /\ ~(s.pos < NRows)
    BY <1>0, <2>1
  <2>. HIDE DEF t
  <2>3. Mem(t) /\ Same(t, s)
    BY <2>1, <2>2, OffRowMem
  <2> QED
    BY <1>2, <2>1, <2>2, <2>3 DEF Arrived, Rcs, t
<1>3. CASE FetchRc(s, fails) \in {"success", "info"}
  <2>1. s.open /\ s.pos < NRows
    BY <1>0, <1>3 DEF FetchRc
  <2>2. t = OnRow(s, s.pos + 1) /\ FetchRc(s, fails) = RowRc(s.pos + 1)
    BY <1>3 DEF SQLFetch, FetchRc
  <2>3. s.gen # 0 /\ s.pos + 1 \in 0..NRows
    BY <1>0, <2>1
  <2>. HIDE DEF t
  <2>4. /\ Mem(t) /\ Same(t, s)
        /\ t.buffer[s.gen] = s.pos + 1 /\ t.indicator = s.pos + 1
    BY <2>2, <2>3, OnRowMem
  <2>5. Arrived(t, s.pos, FetchRc(s, fails))
    BY <2>1, <2>2, <2>4 DEF Arrived, Same
  <2> QED
    BY <1>3, <2>1, <2>4, <2>5 DEF Rcs, t
<1>4. FetchRc(s, fails) \in {"error", "no_data", "success", "info"}
  BY DEF FetchRc, RowRc
<1> QED
  BY <1>1, <1>2, <1>3, <1>4

LEMMA TargetType ==
    ASSUME NEW ask \in Position, NEW from \in 0..(NRows + 1)
    PROVE  Target(ask, from) \in 0..(NRows + 1)
<1>1. \A p \in Int : Clipped(p) \in 0..(NRows + 1)
  <2>1. NRows \in Nat
    BY LayoutType
  <2> QED
    BY <2>1 DEF Clipped
<1>2. /\ ask.offset \in Int /\ 1 \in Int /\ NRows \in Int /\ from + 1 \in Int
      /\ from - 1 \in Int /\ from + ask.offset \in Int
  BY LayoutType DEF Position
<1>. DEFINE p == CASE ask.orient = "ABSOLUTE" -> ask.offset
                   [] ask.orient = "FIRST"    -> 1
                   [] ask.orient = "LAST"     -> NRows
                   [] ask.orient = "NEXT"     -> from + 1
                   [] ask.orient = "PRIOR"    -> from - 1
                   [] OTHER                   -> from + ask.offset
<1>3. p \in Int
  BY <1>2
<1>4. Target(ask, from) = Clipped(p)
  BY DEF Target
<1>. HIDE DEF p
<1> QED
  BY <1>1, <1>3, <1>4

LEMMA SQLFetchScrollMoves ==
    ASSUME NEW s, Mem(s), s.gen # 0, NEW ask \in Position
    PROVE  /\ Mem(SQLFetchScroll(s, ask)) /\ Same(SQLFetchScroll(s, ask), s)
           /\ SQLFetchScroll(s, ask).pos = Target(ask, s.pos)
<1>. DEFINE p == Target(ask, s.pos)
            t == SQLFetchScroll(s, ask)
<1>1. p \in 0..(NRows + 1)
  BY TargetType DEF Mem, Core, Stmt
<1>2. t = IF p \in 1..NRows THEN OnRow(s, p) ELSE [s EXCEPT !.pos = p]
  BY DEF SQLFetchScroll
<1>. HIDE DEF p, t
<1>3. CASE p \in 1..NRows
  <2>1. p \in 0..NRows
    BY <1>3, LayoutType
  <2>2. t = OnRow(s, p)
    BY <1>2, <1>3
  <2>3. Mem(t) /\ Same(t, s) /\ t.pos = p
    BY <2>1, <2>2, OnRowMem
  <2> QED
    BY <2>3 DEF p, t
<1>4. CASE p \notin 1..NRows
  <2>1. t = [s EXCEPT !.pos = p]
    BY <1>2, <1>4
  <2>2. Mem(t) /\ Same(t, s) /\ t.pos = p
    BY <1>1, <2>1, OffRowMem
  <2> QED
    BY <2>2 DEF p, t
<1> QED
  BY <1>3, <1>4

-----------------------------------------------------------------------------
(* fetchData *)

LEMMA CopyType == ASSUME NEW p \in 1..NRows PROVE Copy(p) \in [Cols -> Field]
<1>1. p \in 0..NRows /\ 0 \in 0..NRows
  BY LayoutType
<1>2. ASSUME NEW c \in Cols PROVE CopyOf(c, p) \in Field
  <2>1. CopyOf(c, p) \in {F("empty", 0), F("data", p), F("null", 0), F("data", 0), F("dash", p)}
    BY DEF CopyOf
  <2> QED
    BY <1>1, <2>1 DEF F, Field
<1> QED
  BY <1>2 DEF Copy

\* Each row is copied when it is in the bindings.
LEMMA PushRowsCopies ==
    ASSUME NEW s, Mem(s), NEW k \in Nat, s.pos + k <= NRows \/ k = 0
    PROVE  /\ Mem(PushRows(s, k)) /\ Same(PushRows(s, k), s)
           /\ PushRows(s, k).pos = s.pos
           /\ Len(PushRows(s, k).resultSetInC) = Len(s.resultSetInC) + k
           /\ \A i \in 1..k :
                 PushRows(s, k).resultSetInC[Len(s.resultSetInC) + i] = Copy(s.pos + i)
<1>. DEFINE A == [Cols -> Field]
            row(i) == Copy(s.pos + i)
            new == [i \in 1..k |-> row(i)]
            r == s.resultSetInC \o new
            t == PushRows(s, k)
<1>0. /\ s.pos \in 0..(NRows + 1) /\ NRows \in Nat /\ s.resultSetInC \in Seq(A)
      /\ \A i \in DOMAIN s.resultSetInC : \E p \in 1..NRows : s.resultSetInC[i] = Copy(p)
  BY LayoutType DEF Mem, Core, Stmt
<1>1. \A i \in 1..k : row(i) \in A /\ row(i) = Copy(s.pos + i) /\ s.pos + i \in 1..NRows
  BY <1>0, CopyType
<1>2. t = [s EXCEPT !.resultSetInC = r]
  BY DEF PushRows
<1>. HIDE DEF row, A
<1>3. new \in Seq(A) /\ Len(new) = k /\ \A i \in 1..k : new[i] = row(i)
  BY <1>1
<1>. HIDE DEF new
<1>4. /\ r \in Seq(A) /\ Len(r) = Len(s.resultSetInC) + k
      /\ Len(s.resultSetInC) \in Nat /\ DOMAIN r = 1..(Len(s.resultSetInC) + k)
      /\ DOMAIN s.resultSetInC = 1..Len(s.resultSetInC)
      /\ \A i \in 1..Len(s.resultSetInC) : r[i] = s.resultSetInC[i]
      /\ \A i \in 1..k : r[Len(s.resultSetInC) + i] = row(i)
  <2>1. new \in Seq(A) /\ s.resultSetInC \in Seq(A)
    BY <1>0, <1>3
  <2>2. r \in Seq(A) /\ Len(r) = Len(s.resultSetInC) + Len(new)
    BY <2>1
  <2>3. Len(s.resultSetInC) \in Nat /\ DOMAIN s.resultSetInC = 1..Len(s.resultSetInC)
    BY <2>1
  <2>4. \A i \in 1..Len(s.resultSetInC) : r[i] = s.resultSetInC[i]
    BY <2>1, <2>3
  <2>5. \A i \in 1..Len(new) : r[Len(s.resultSetInC) + i] = new[i]
    BY <2>1, <2>3
  <2>. HIDE DEF r
  <2>6. DOMAIN r = 1..Len(r)
    BY <2>2
  <2> QED
    BY <1>3, <2>2, <2>3, <2>4, <2>5, <2>6
<1>5. \A i \in DOMAIN r : \E p \in 1..NRows : r[i] = Copy(p)
  <2>1. TAKE i \in DOMAIN r
  <2>2. CASE i <= Len(s.resultSetInC)
    BY <1>0, <1>4, <2>1, <2>2
  <2>3. CASE i > Len(s.resultSetInC)
    <3>1. PICK j \in 1..k : i = Len(s.resultSetInC) + j
      <4>1. i \in Int /\ Len(s.resultSetInC) \in Nat /\ i <= Len(s.resultSetInC) + k
        BY <1>4, <2>1
      <4>2. i - Len(s.resultSetInC) \in 1..k
        BY <2>3, <4>1
      <4>3. i = Len(s.resultSetInC) + (i - Len(s.resultSetInC))
        BY <4>1
      <4> QED
        BY <4>2, <4>3
    <3>2. r[i] = Copy(s.pos + j) /\ s.pos + j \in 1..NRows
      BY <1>1, <1>4, <3>1
    <3> QED
      BY <3>2
  <2> QED
    BY <1>4, <2>1, <2>2, <2>3
<1>. HIDE DEF r
<1>6. /\ t \in Stmt /\ Same(t, s) /\ t.pos = s.pos /\ t.resultSetInC = r
      /\ t.buffer = s.buffer /\ t.indicator = s.indicator /\ t.heap = s.heap
  BY <1>2, <1>4 DEF Mem, Core, Stmt, Same, A
<1>. HIDE DEF t
<1>7. Core(t)
  BY <1>5, <1>6 DEF Mem, Core, Same
<1>8. Mem(t)
  BY <1>6, <1>7 DEF Mem, Same
<1>9. Len(t.resultSetInC) = Len(s.resultSetInC) + k
  BY <1>4, <1>6
<1>10. \A i \in 1..k : t.resultSetInC[Len(s.resultSetInC) + i] = Copy(s.pos + i)
  BY <1>1, <1>4, <1>6
<1> QED
  BY <1>6, <1>8, <1>9, <1>10 DEF t

\* fetchData() collects the rows from the cursor to the end.
LEMMA FetchDataCollects ==
    ASSUME NEW s, Mem(s), s.open => s.gen # 0, NEW end \in FetchEnds(s)
    PROVE  /\ Mem(FetchData(s, end.got, end.rc)) /\ Same(FetchData(s, end.got, end.rc), s)
           /\ end.rc \in Rcs
           /\ end.rc # "error" =>
                 s.open /\ Collected(FetchData(s, end.got, end.rc), s.pos)
<1>. DEFINE k  == end.got
            s1 == PushRows(s, k)
            s2 == IF k = 0 THEN s1 ELSE OnRow(s1, s.pos + k)
            t  == FetchData(s, k, end.rc)
<1>0. s.pos \in 0..(NRows + 1) /\ NRows \in Nat
  BY LayoutType DEF Mem, Core, Stmt
<1>1. /\ k \in Nat /\ (s.pos + k <= NRows \/ k = 0) /\ (k # 0 => s.open)
      /\ end.rc \in {"no_data", "error"}
      /\ end.rc = "no_data" => s.open /\ k = New(s.pos)
  <2>1. CASE ~s.open
    BY <2>1 DEF FetchEnds
  <2>2. CASE s.open
    <3>1. end = [got |-> Left(s), rc |-> "no_data"] \/ end \in [got : 0..Left(s), rc : {"error"}]
      BY <2>2 DEF FetchEnds
    <3>2. Left(s) \in Nat /\ (s.pos + Left(s) <= NRows \/ Left(s) = 0) /\ Left(s) = New(s.pos)
      BY <1>0 DEF Left, New
    <3>3. CASE end = [got |-> Left(s), rc |-> "no_data"]
      BY <2>2, <3>2, <3>3
    <3>4. CASE end \in [got : 0..Left(s), rc : {"error"}]
      <4>1. k \in 0..Left(s) /\ end.rc = "error"
        BY <3>4
      <4> QED
        BY <1>0, <2>2, <3>2, <4>1
    <3> QED
      BY <3>1, <3>3, <3>4
  <2> QED
    BY <2>1, <2>2
<1>2. t = IF end.rc = "no_data" THEN [s2 EXCEPT !.pos = NRows + 1] ELSE s2
  BY DEF FetchData
<1>. HIDE DEF k, t
<1>3. /\ Mem(s1) /\ Same(s1, s)
      /\ Len(s1.resultSetInC) = Len(s.resultSetInC) + k
      /\ \A i \in 1..k : s1.resultSetInC[Len(s.resultSetInC) + i] = Copy(s.pos + i)
  BY <1>1, PushRowsCopies
<1>. HIDE DEF s1
<1>4. Mem(s2) /\ Same(s2, s) /\ s2.resultSetInC = s1.resultSetInC
  <2>1. CASE k = 0
    BY <1>3, <2>1
  <2>2. CASE k # 0
    <3>1. s.pos + k \in 0..NRows /\ s1.gen # 0 /\ s2 = OnRow(s1, s.pos + k)
      BY <1>0, <1>1, <1>3, <2>2 DEF Same
    <3>. HIDE DEF s2
    <3>2. Mem(s2) /\ Same(s2, s1) /\ s2.resultSetInC = s1.resultSetInC
      BY <1>3, <3>1, OnRowMem
    <3> QED
      BY <1>3, <3>2 DEF Same
  <2> QED
    BY <2>1, <2>2
<1>. HIDE DEF s2
<1>5. Mem(t) /\ Same(t, s) /\ t.resultSetInC = s1.resultSetInC
  <2>1. CASE end.rc = "no_data"
    <3>1. NRows + 1 \in 0..(NRows + 1) /\ t = [s2 EXCEPT !.pos = NRows + 1]
      BY <1>0, <1>2, <2>1
    <3>2. Mem(t) /\ Same(t, s2) /\ t.resultSetInC = s2.resultSetInC
      BY <1>4, <3>1, OffRowMem
    <3> QED
      BY <1>4, <3>2 DEF Same
  <2>2. CASE end.rc # "no_data"
    BY <1>2, <1>4, <2>2
  <2> QED
    BY <2>1, <2>2
<1>6. end.rc # "error" => Collected(t, s.pos)
  <2>. SUFFICES ASSUME end.rc # "error" PROVE Collected(t, s.pos)
    OBVIOUS
  <2>1. k = New(s.pos)
    BY <1>1
  <2>2. Len(s.resultSetInC) \in Nat
    BY DEF Mem, Core, Stmt
  <2>3. Len(t.resultSetInC) - New(s.pos) = Len(s.resultSetInC)
    BY <1>1, <1>3, <1>5, <2>1, <2>2
  <2> QED
    BY <1>1, <1>3, <1>5, <2>1, <2>2, <2>3 DEF Collected
<1> QED
  BY <1>1, <1>5, <1>6 DEF Rcs, t, k

-----------------------------------------------------------------------------
(* Values *)

\* What fetch() makes of the bindings: aliases of the present binding row only,
\* and what fetchAll would make of the same field.
Agrees(u, v, c) ==
    v.row # 0 /\ ~DoesDiffer(c, v.row) => v.type = BuildValue(u, c, CopyOf(c, v.row)).type

LEMMA FetchedValues ==
    ASSUME NEW s, Mem(s), s.gen # 0, NEW u, ~u.asNumber
    PROVE  /\ FetchedRow(s) \in [Cols -> Value]
           /\ \A c \in Cols : LET v == FetchedRow(s)[c] IN
                 /\ v.mem # 0 => v.mem = s.gen /\ IsBinary(c) /\ v.row = s.buffer[s.gen]
                 /\ Agrees(u, v, c)
<1>1. /\ s.gen \in 1..MaxBinds /\ s.buffer[s.gen] \in 0..NRows
      /\ s.indicator \in 0..NRows /\ 0 \in 0..NRows /\ 0 \in 0..MaxBinds
  BY LayoutType DEF Mem, Core, Stmt
<1>2. s.buffer[s.gen] # 0 => s.indicator = s.buffer[s.gen]
  BY DEF Mem, Core
<1>3. ASSUME NEW c \in Cols
      PROVE  LET v == FetchValue(s, c) IN
                 /\ v \in Value
                 /\ v.mem # 0 => v.mem = s.gen /\ IsBinary(c) /\ v.row = s.buffer[s.gen]
                 /\ Agrees(u, v, c)
  <2>. DEFINE b == s.buffer[s.gen]
              g == s.gen
              v == FetchValue(s, c)
  <2>1. Layout[c].sqlType \in SqlTypes
    BY LayoutType
  <2>2. CASE NullNow(s, c)
    <3>1. v = V("null", 0)
      BY <2>2 DEF FetchValue, NullValue
    <3> QED
      BY <1>1, <3>1 DEF V, Value, JsTypes, Agrees
  <2>3. CASE ~NullNow(s, c) /\ BadNow(s, c)
    <3>. DEFINE p == s.indicator
    <3>1. v = V("dash", p)
      BY <2>3 DEF FetchValue
    <3>2. <<p, c>> \in Bad /\ <<p, c>> \notin Null
      BY <2>3 DEF NullNow, BadNow
    <3>3. ~DoesDiffer(c, p) => BuildValue(u, c, CopyOf(c, p)).type = "dash"
      <4>. SUFFICES ASSUME ~DoesDiffer(c, p)
                    PROVE  BuildValue(u, c, CopyOf(c, p)).type = "dash"
        OBVIOUS
      <4>1. ~IsClob(c) /\ ~IsBool(c)
        BY <3>2 DEF DoesDiffer
      <4>2. CopyOf(c, p) = F("dash", p)
        BY <3>2, <4>1 DEF CopyOf
      <4>3. BuildValue(u, c, F("dash", p)) = V("dash", p)
        BY DEF BuildValue, F, AsksNumber
      <4> QED
        BY <4>2, <4>3 DEF V
    <3>. HIDE DEF p, v
    <3>4. v.type = "dash" /\ v.row = p /\ v.mem = 0
      BY <3>1 DEF V
    <3>5. v \in Value
      BY <1>1, <3>1 DEF V, Value, JsTypes, p
    <3>6. Agrees(u, v, c)
      BY <3>3, <3>4 DEF Agrees
    <3> QED
      BY <3>4, <3>5, <3>6 DEF v
  <2>4. CASE ~NullNow(s, c) /\ ~BadNow(s, c)
    <3>. DEFINE type == IF IsBinary(c) THEN "buffer"
                        ELSE IF IsBool(c) THEN "boolean" ELSE "string"
    <3>1. v = [type |-> type, row |-> b, mem |-> IF IsBinary(c) THEN g ELSE 0]
      BY <2>4 DEF FetchValue, V
    <3>2. b # 0 /\ ~DoesDiffer(c, b) => BuildValue(u, c, CopyOf(c, b)).type = type
      <4>. SUFFICES ASSUME b # 0, ~DoesDiffer(c, b)
                    PROVE  BuildValue(u, c, CopyOf(c, b)).type = type
        OBVIOUS
      <4>1. <<b, c>> \notin Null /\ <<b, c>> \notin Bad
        BY <1>2, <2>4 DEF NullNow, BadNow
      <4>2. CopyOf(c, b) = F("data", b)
        BY <4>1 DEF CopyOf, DoesDiffer
      <4>. HIDE DEF b
      <4>3. BuildValue(u, c, F("data", b)) = V(type, b)
        BY DEF BuildValue, F, AsksNumber, IsBool, IsBinary, BinaryTypes
      <4>. HIDE DEF type
      <4> QED
        BY <4>2, <4>3 DEF V
    <3>3. type \in JsTypes
      BY DEF JsTypes
    <3>4. g \in 0..MaxBinds
      BY <1>1, LayoutType
    <3>. HIDE DEF type, b, v
    <3>5. v \in Value
      BY <1>1, <3>1, <3>3, <3>4 DEF Value, b
    <3>. HIDE DEF g
    <3>6. v.type = type /\ v.row = b /\ v.mem = IF IsBinary(c) THEN g ELSE 0
      BY <3>1
    <3>7. Agrees(u, v, c)
      BY <3>2, <3>6 DEF Agrees
    <3> QED
      BY <3>5, <3>6, <3>7 DEF v, b, g
  <2> QED
    BY <2>2, <2>3, <2>4
<1>4. \A c \in Cols : FetchedRow(s)[c] = FetchValue(s, c)
  BY DEF FetchedRow
<1>5. FetchedRow(s) \in [Cols -> Value]
  BY <1>3 DEF FetchedRow
<1> QED
  BY <1>3, <1>4, <1>5

\* A row in the bindings is handed over whole, unless it throws.
LEMMA FetchedRowWhole ==
    ASSUME NEW s, NEW p \in 1..NRows, s.buffer[s.gen] = p, s.indicator = p, ~RowThrows(s)
    PROVE  RowOf(FetchedRow(s), p)
<1>1. ASSUME NEW c \in Cols PROVE ValueOf(FetchValue(s, c), c, p)
  <2>1. CASE <<p, c>> \in Null
    <3>1. FetchValue(s, c).type = "null"
      BY <2>1 DEF FetchValue, NullNow, NullValue, V
    <3> QED
      BY <2>1, <3>1, NullOrBad DEF ValueOf
  <2>2. CASE <<p, c>> \notin Null /\ <<p, c>> \in Bad
    BY <2>2, NullOrBad DEF FetchValue, NullNow, BadNow, V, ValueOf
  <2>3. CASE <<p, c>> \notin Null /\ <<p, c>> \notin Bad
    <3>1. FetchValue(s, c).row = p /\ FetchValue(s, c).type \in {"buffer", "boolean", "string"}
      BY <2>3 DEF FetchValue, NullNow, BadNow, V
    <3> QED
      BY <2>3, <3>1 DEF ValueOf
  <2> QED
    BY <2>1, <2>2, <2>3
<1> QED
  BY <1>1 DEF FetchedRow, RowOf

\* What buildJsObject() makes of a copy: a value with memory of its own, and of
\* the row it was copied from.
LEMMA BuiltType ==
    ASSUME NEW s, NEW c \in Cols, NEW f \in Field
    PROVE  BuildValue(s, c, f) \in Value /\ BuildValue(s, c, f).mem = 0
<1>1. f.row \in 0..NRows /\ 0 \in 0..NRows /\ 0 \in 0..MaxBinds
  BY LayoutType DEF Field
<1>2. PICK type \in JsTypes, row \in {0, f.row} : BuildValue(s, c, f) = V(type, row)
  <2>1. CASE f.kind = "null"
    BY <2>1 DEF BuildValue, NullValue, JsTypes
  <2>2. CASE f.kind = "empty"
    BY <2>2 DEF BuildValue, JsTypes
  <2>3. CASE f.kind = "dash"
    BY <2>3 DEF BuildValue, JsTypes
  <2>4. CASE f.kind \notin {"null", "empty", "dash"}
    <3>. DEFINE type == CASE IsBinary(c)      -> "buffer"
                          [] IsBool(c)        -> "boolean"
                          [] AsksNumber(s, c) -> "number"
                          [] OTHER            -> "string"
    <3>1. BuildValue(s, c, f) = V(type, f.row)
      BY <2>4 DEF BuildValue
    <3>2. type \in JsTypes
      BY DEF JsTypes
    <3>. HIDE DEF type
    <3> QED
      BY <3>1, <3>2
  <2> QED
    BY <2>1, <2>2, <2>3, <2>4
<1>3. row \in 0..NRows
  BY <1>1
<1> QED
  BY <1>1, <1>2, <1>3 DEF V, Value

LEMMA BuiltValue ==
    ASSUME NEW s, NEW c \in Cols, NEW p \in 1..NRows
    PROVE  ValueOf(BuildValue(s, c, CopyOf(c, p)), c, p)
<1>. DEFINE v == BuildValue(s, c, CopyOf(c, p))
            Made == {"buffer", "boolean", "number", "string"}
<1>1. ASSUME NEW q
      PROVE  /\ BuildValue(s, c, F("data", q)).row = q
             /\ BuildValue(s, c, F("data", q)).type \in Made
             /\ IsBool(c) => BuildValue(s, c, F("data", q)).type = "boolean"
  <2>. DEFINE type == CASE IsBinary(c)      -> "buffer"
                        [] IsBool(c)        -> "boolean"
                        [] AsksNumber(s, c) -> "number"
                        [] OTHER            -> "string"
  <2>1. BuildValue(s, c, F("data", q)) = V(type, q)
    BY DEF BuildValue, F
  <2>2. type \in Made
    OBVIOUS
  <2>3. IsBool(c) => type = "boolean"
    BY DEF IsBool, IsBinary, BinaryTypes, AsksNumber, NumberTypes, ExactTypes
  <2>. HIDE DEF type, Made
  <2> QED
    BY <2>1, <2>2, <2>3 DEF V
<1>2. CASE <<p, c>> \in Null
  <2>1. CASE IsClob(c)
    <3>1. v = V("empty", 0)
      BY <1>2, <2>1 DEF CopyOf, BuildValue, F
    <3> QED
      BY <1>2, <2>1, <3>1, NullOrBad DEF V, ValueOf
  <2>2. CASE ~IsClob(c)
    <3>1. v = V("null", 0)
      BY <1>2, <2>2 DEF CopyOf, BuildValue, F, NullValue
    <3> QED
      BY <1>2, <3>1, NullOrBad DEF V, ValueOf
  <2> QED
    BY <2>1, <2>2
<1>3. CASE <<p, c>> \notin Null /\ <<p, c>> \in Bad
  <2>1. CASE IsClob(c)
    <3>1. v = V("empty", 0)
      BY <1>3, <2>1 DEF CopyOf, BuildValue, F
    <3> QED
      BY <1>3, <2>1, <3>1 DEF V, ValueOf, MadeUp
  <2>2. CASE ~IsClob(c) /\ IsBool(c)
    <3>1. v.type = "boolean"
      BY <1>1, <1>3, <2>2 DEF CopyOf
    <3> QED
      BY <1>3, <2>2, <3>1 DEF ValueOf, MadeUp
  <2>3. CASE ~IsClob(c) /\ ~IsBool(c)
    <3>1. CopyOf(c, p) = F("dash", p)
      BY <1>3, <2>3 DEF CopyOf
    <3>2. v.type \in {"nan", "dash"}
      BY <3>1 DEF BuildValue, F, V
    <3> QED
      BY <1>3, <3>2 DEF ValueOf
  <2> QED
    BY <2>1, <2>2, <2>3
<1>4. CASE <<p, c>> \notin Null /\ <<p, c>> \notin Bad
  <2>1. CopyOf(c, p) = F("data", p)
    BY <1>4 DEF CopyOf
  <2>2. v.row = p /\ v.type \in Made
    BY <1>1, <2>1
  <2> QED
    BY <1>4, <2>2 DEF ValueOf
<1> QED
  BY <1>2, <1>3, <1>4

LEMMA BuiltRowsValues ==
    ASSUME NEW s, Mem(s)
    PROVE  /\ BuiltRows(s) \in Seq([Cols -> Value])
           /\ DOMAIN BuiltRows(s) = 1..Len(s.resultSetInC)
           /\ Len(BuiltRows(s)) = Len(s.resultSetInC)
           /\ Len(s.resultSetInC) \in Nat
           /\ \A i \in 1..Len(s.resultSetInC), c \in Cols : BuiltRows(s)[i][c].mem = 0
           /\ \A i \in 1..Len(s.resultSetInC), p \in 1..NRows :
                 s.resultSetInC[i] = Copy(p) => RowOf(BuiltRows(s)[i], p)
<1>. DEFINE n == Len(s.resultSetInC)
            row(i) == [c \in Cols |-> BuildValue(s, c, s.resultSetInC[i][c])]
<1>0. s.resultSetInC \in Seq([Cols -> Field])
  BY DEF Mem, Core, Stmt
<1>1. n \in Nat /\ DOMAIN s.resultSetInC = 1..n
  BY <1>0
<1>2. \A i \in 1..n, c \in Cols : s.resultSetInC[i][c] \in Field
  BY <1>0, <1>1
<1>3. \A i \in 1..n : row(i) \in [Cols -> Value]
  BY <1>2, BuiltType
<1>4. \A i \in 1..n, c \in Cols : row(i)[c].mem = 0
  BY <1>2, BuiltType
<1>5. ASSUME NEW i \in 1..n, NEW p \in 1..NRows, s.resultSetInC[i] = Copy(p)
      PROVE  RowOf(row(i), p)
  <2>1. \A c \in Cols : row(i)[c] = BuildValue(s, c, CopyOf(c, p))
    BY <1>5 DEF Copy
  <2>3. \A c \in Cols : ValueOf(BuildValue(s, c, CopyOf(c, p)), c, p)
    BY BuiltValue
  <2>. HIDE DEF row
  <2> QED
    BY <2>1, <2>3 DEF RowOf
<1>6. BuiltRows(s) = [i \in 1..n |-> row(i)]
  BY <1>1 DEF BuiltRows
<1>. HIDE DEF row, n
<1>7. BuiltRows(s) \in Seq([Cols -> Value])
  BY <1>1, <1>3, <1>6
<1>8. DOMAIN BuiltRows(s) = 1..n /\ \A i \in 1..n : BuiltRows(s)[i] = row(i)
  BY <1>6
<1>9. Len(BuiltRows(s)) = n
  BY <1>1, <1>7, <1>8
<1> QED
  BY <1>1, <1>4, <1>5, <1>7, <1>8, <1>9 DEF n

-----------------------------------------------------------------------------
(* Answers *)

LEMMA BasicTypes ==
    /\ Plain \in Position /\ NoCall \in Call /\ NoCall.pc = "idle"
    /\ 0 \in 0..(NRows + 1) /\ {"success", "info", "no_data", "error"} = Rcs
    /\ \A ask \in Positions \cup {Plain} : ask \in Position
    /\ <<>> \in Seq([Cols -> Value])
<1>1. 0 \in 0..(NRows + 1)
  BY LayoutType
<1>2. Plain \in Position
  BY DEF Plain, Position, Orientations
<1>3. NoCall \in Call /\ NoCall.pc = "idle"
  BY <1>1, <1>2 DEF NoCall, Call, Rcs
<1> QED
  BY <1>1, <1>2, <1>3, FetchAssumption DEF Rcs

\* An answer without rows.
LEMMA EmptyAnswer ==
    ASSUME reply' \in Reply, NoRows(reply)'
    PROVE  ReplyOK'
<1>1. RowsWhole' /\ PositionedFetch'
  BY DEF NoRows, RowsWhole, PositionedFetch
<1>2. reply.rows' = <<>> /\ DOMAIN <<>> = {}
  BY DEF NoRows
<1>3. SameEitherWay'
  BY <1>2 DEF SameEitherWay
<1> QED
  BY <1>1, <1>3 DEF ReplyOK

Ops == {"fetch", "fetchSync", "fetchAll", "executeSync", "closeCursor", "close",
        "asNumber", "setStmtAttr"}

LEMMA DoneAnswer ==
    ASSUME NEW op \in {"executeSync", "closeCursor", "close", "asNumber", "setStmtAttr"}
    PROVE  Done(op) \in Reply /\ NoRows(Done(op))
  BY BasicTypes DEF Done, Answer, Reply, NoRows, Rcs

LEMMA FailedAnswer ==
    ASSUME NEW op \in Ops, NEW kind \in {"error", "uncaught"}
    PROVE  /\ Failed(op) \in Reply /\ NoRows(Failed(op))
           /\ [Failed(op) EXCEPT !.kind = kind] \in Reply
           /\ NoRows([Failed(op) EXCEPT !.kind = kind])
           /\ Aborted(op) \in Reply /\ NoRows(Aborted(op))
  BY BasicTypes DEF Failed, Aborted, Answer, Reply, NoRows, Rcs, Ops

\* fetch hands over the row it arrived at.
LEMMA FetchAnswer ==
    ASSUME Mem(stmt'), stmt'.gen # 0, stmt'.bindingRowAllocated, ~RowThrows(stmt'),
           NEW op \in {"fetch", "fetchSync"}, NEW ask \in Position,
           NEW from \in 0..(NRows + 1), NEW rc \in Rcs,
           Arrived(stmt', Before(stmt', ask, from), rc), call'.pc = "idle",
           KeptOK, Hand("fetch", Answer(op, "value", rc, <<FetchedRow(stmt')>>, ask, from))
    PROVE  ReplyOK' /\ KeptOK'
<1>. DEFINE row == FetchedRow(stmt')
            u   == [stmt' EXCEPT !.asNumber = FALSE]
            at  == Before(stmt', ask, from)
<1>1. /\ stmt' \in Stmt /\ stmt'.gen \in 1..MaxBinds /\ stmt'.buffer[stmt'.gen] \in 0..NRows
      /\ ~u.asNumber
  BY LayoutType DEF Mem, Core, Stmt
<1>2. at \in 0..(NRows + 1)
  BY TargetType DEF Before
<1>. HIDE DEF u
<1>3. /\ row \in [Cols -> Value]
      /\ \A c \in Cols :
            /\ row[c].mem # 0 =>
                  row[c].mem = stmt'.gen /\ IsBinary(c) /\ row[c].row = stmt'.buffer[stmt'.gen]
            /\ Agrees(u, row[c], c)
  BY <1>1, FetchedValues
<1>4. at < NRows => rc = RowRc(at + 1) /\ RowOf(row, at + 1)
  <2>. SUFFICES ASSUME at < NRows PROVE rc = RowRc(at + 1) /\ RowOf(row, at + 1)
    OBVIOUS
  <2>1. at + 1 \in 1..NRows
    BY <1>2, LayoutType
  <2>2. /\ rc = RowRc(at + 1) /\ stmt'.buffer[stmt'.gen] = at + 1
        /\ stmt'.indicator = at + 1
    BY DEF Arrived
  <2>. HIDE DEF at
  <2> QED
    BY <2>1, <2>2, FetchedRowWhole
<1>5. ~(at < NRows) => rc = "no_data"
  BY DEF Arrived
<1>6. reply' = [op |-> op, kind |-> "value", rc |-> rc, rows |-> <<row>>,
                ask |-> ask, from |-> from]
  BY DEF Hand, Answer
<1>7. reply' \in Reply
  <2>1. <<row>> \in Seq([Cols -> Value])
    BY <1>3
  <2>. HIDE DEF row
  <2> QED
    BY <1>6, <2>1 DEF Reply
<1>8. /\ reply'.op = op /\ reply'.rc = rc /\ reply'.rows = <<row>> /\ reply'.ask = ask
      /\ reply'.from = from /\ reply'.rows[1] = row /\ DOMAIN reply'.rows = {1}
  BY <1>6
<1>9. RowsWhole'
  BY <1>8 DEF RowsWhole
<1>10. PositionedFetch'
  <2>1. at = Before(stmt', reply'.ask, reply'.from)
    BY <1>8
  <2>. HIDE DEF at, row
  <2> QED
    BY <1>4, <1>5, <1>8, <2>1 DEF PositionedFetch
<1>. HIDE DEF row, at
<1>12. SameEitherWay'
  BY <1>3, <1>8 DEF SameEitherWay, Agrees, u
<1>13. KeptOK'
  <2>1. kept' = BuffersIn("fetch", <<row>>)
    BY DEF KeptOK, Hand, Answer, row
  <2>. SUFFICES ASSUME NEW b \in kept'
                PROVE  /\ b \in Held /\ b.by = "fetch" /\ b.mem = stmt'.gen
                       /\ IsBinary(b.col) /\ b.row = stmt'.buffer[stmt'.gen]
    BY DEF KeptOK
  <2>2. PICK f \in (DOMAIN <<row>>) \X Cols :
           /\ <<row>>[f[1]][f[2]].mem # 0
           /\ b = [by |-> "fetch", col |-> f[2], row |-> <<row>>[f[1]][f[2]].row,
                   mem |-> <<row>>[f[1]][f[2]].mem]
    BY <2>1 DEF BuffersIn
  <2>. DEFINE c == f[2]
  <2>3. f[1] = 1 /\ c \in Cols
    BY <2>2
  <2>4. row[c].mem # 0 /\ b = [by |-> "fetch", col |-> c, row |-> row[c].row, mem |-> row[c].mem]
    BY <2>2, <2>3
  <2>. HIDE DEF c
  <2>5. row[c].mem = stmt'.gen /\ IsBinary(c) /\ row[c].row = stmt'.buffer[stmt'.gen]
    BY <1>3, <2>3, <2>4
  <2> QED
    BY <1>1, <2>3, <2>4, <2>5 DEF Held
<1> QED
  BY <1>7, <1>8, <1>9, <1>10, <1>12, <1>13 DEF ReplyOK

\* fetchAll hands over the rows it collected.
LEMMA FetchAllAnswer ==
    ASSUME NEW s, Mem(s), NEW from \in 0..(NRows + 1), Collected(s, from),
           stmt' = BuildJsObject(s), call'.pc = "idle", KeptOK,
           Hand("fetchAll", Answer("fetchAll", "value", "success", BuiltRows(s), Plain, from))
    PROVE  ReplyOK' /\ kept' = {}
<1>. DEFINE rows == BuiltRows(s)
            n == Len(rows)
            m == New(from)
<1>1. /\ rows \in Seq([Cols -> Value]) /\ DOMAIN rows = 1..n /\ n \in Nat
      /\ n = Len(s.resultSetInC)
      /\ \A i \in 1..n, c \in Cols : rows[i][c].mem = 0
      /\ \A i \in 1..n, p \in 1..NRows : s.resultSetInC[i] = Copy(p) => RowOf(rows[i], p)
  BY BuiltRowsValues
<1>2. reply' = [op |-> "fetchAll", kind |-> "value", rc |-> "success", rows |-> rows,
                ask |-> Plain, from |-> from]
  BY DEF Hand, Answer
<1>3. m \in Nat /\ n >= m /\ \A i \in 1..m : s.resultSetInC[n - m + i] = Copy(from + i)
  <2>1. NRows \in Nat /\ from \in Nat
    BY LayoutType
  <2>2. m \in Nat
    BY <2>1 DEF New
  <2>3. n = Len(s.resultSetInC)
    BY <1>1
  <2> HIDE DEF n, m
  <2>4. n >= m /\ \A i \in 1..m : s.resultSetInC[n - m + i] = Copy(from + i)
    BY <2>3 DEF Collected, m
  <2> QED
    BY <2>2, <2>4
<1>4. \A i \in 1..m : from + i \in 1..NRows /\ n - m + i \in 1..n
  <2>1. NRows \in Nat /\ from \in Nat /\ (m = 0 \/ m = NRows - from)
    BY LayoutType DEF New
  <2>. HIDE DEF m, n
  <2> QED
    BY <1>1, <1>3, <2>1
<1>5. DOMAIN s.resultSetInC = 1..n
  BY <1>1 DEF Mem, Core, Stmt
<1>6. \A i \in 1..(n - m) : i \in 1..n
  BY <1>1, <1>3
<1>7. kept' = {}
  <2>1. BuffersIn("fetchAll", rows) = {}
    BY <1>1 DEF BuffersIn
  <2> QED
    BY <2>1 DEF Hand, Answer, KeptOK
<1>. HIDE DEF rows
<1>9. reply' \in Reply
  BY <1>1, <1>2, BasicTypes DEF Reply, Rcs
<1>10. /\ reply'.op = "fetchAll" /\ reply'.rows = rows /\ reply'.from = from
  BY <1>2
<1>11. RowsWhole'
  <2>1. \A i \in 1..m : RowOf(rows[n - m + i], from + i)
    BY <1>1, <1>3, <1>4
  <2>2. \A i \in 1..(n - m) : \E p \in 1..NRows : RowOf(rows[i], p)
    BY <1>1, <1>5, <1>6 DEF Mem, Core
  <2>3. m = IF reply'.from >= NRows THEN 0 ELSE NRows - reply'.from
    BY <1>10 DEF New
  <2>. HIDE DEF m
  <2> QED
    BY <1>3, <1>10, <2>1, <2>2, <2>3 DEF RowsWhole
<1>13. PositionedFetch' /\ SameEitherWay'
  BY <1>10 DEF PositionedFetch, SameEitherWay
<1> QED
  BY <1>7, <1>9, <1>11, <1>13 DEF ReplyOK

-----------------------------------------------------------------------------
(* Steps *)

\* What a method finds when no call is in progress, and after it.
LEMMA AfterMethod ==
    ASSUME call'.pc = "idle", call' \in Call
    PROVE  CallOK'
  BY DEF CallOK

LEMMA ForgetEmpties == ASSUME KeptOK, Forget PROVE kept' = {} /\ KeptOK'
  BY DEF KeptOK, Forget

LEMMA StmtFacts ==
    ASSUME IInv
    PROVE  /\ stmt \in Stmt /\ stmt.pos \in 0..(NRows + 1) /\ stmt.gen \in 0..MaxBinds
           /\ Mem(stmt) /\ (stmt.open => stmt.gen # 0)
           /\ (stmt.bindingRowAllocated => stmt.gen # 0)
           /\ CallOK /\ call \in Call /\ KeptOK /\ reply \in Reply
  BY DEF IInv, Mem, Core, Stmt, CallOK, ReplyOK

LEMMA ExecuteSyncStep == ASSUME IInv, ExecuteSync PROVE IInv'
<1>0. call' = call /\ call.pc = "idle" /\ stmt.gen < MaxBinds /\ Forget
  BY DEF ExecuteSync, Waits
<1>1. CallOK' /\ kept' = {} /\ KeptOK'
  BY <1>0, StmtFacts, AfterMethod, ForgetEmpties
<1>2. CASE stmt.open
  <2>1. stmt' = stmt /\ reply' = Failed("executeSync")
    BY <1>2 DEF ExecuteSync
  <2>2. ReplyOK'
    BY <2>1, FailedAnswer, EmptyAnswer DEF Ops
  <2> QED
    BY <1>1, <2>1, <2>2, StmtFacts DEF IInv
<1>3. CASE ~stmt.open
  <2>. DEFINE s == [stmt EXCEPT !.open = TRUE, !.pos = 0]
  <2>1. PICK k \in {0} \cup Cols :
           /\ stmt' = BindColData(s, k)
           /\ reply' = IF k = 0 THEN Done("executeSync") ELSE Failed("executeSync")
    BY <1>3 DEF ExecuteSync
  <2>2. Mem(s) /\ s.gen = stmt.gen
    <3>1. /\ s \in Stmt /\ s.gen = stmt.gen /\ s.heap = stmt.heap
          /\ s.buffer = stmt.buffer /\ s.indicator = stmt.indicator
          /\ s.bindingRowAllocated = stmt.bindingRowAllocated
          /\ s.resultSetInC = stmt.resultSetInC
      BY StmtFacts, BasicTypes DEF Stmt
    <3>. HIDE DEF s
    <3>2. Core(s)
      BY <3>1, StmtFacts DEF Mem, Core
    <3> QED
      BY <3>1, <3>2, StmtFacts DEF Mem
  <2>. HIDE DEF s
  <2>3. Mem(stmt') /\ stmt'.gen # 0
    BY <1>0, <2>1, <2>2, BindColDataMem
  <2>4. ReplyOK'
    BY <2>1, DoneAnswer, FailedAnswer, EmptyAnswer DEF Ops
  <2> QED
    BY <1>1, <2>3, <2>4 DEF IInv
<1> QED
  BY <1>2, <1>3

LEMMA FetchSyncStep ==
    ASSUME IInv, NEW ask \in Positions \cup {Plain}, FetchSync(ask)
    PROVE  IInv'
<1>0. /\ call' = call /\ call.pc = "idle" /\ stmt.bindingRowAllocated
      /\ stmt.gen # 0 /\ ask \in Position
  BY StmtFacts, BasicTypes DEF FetchSync, Usable, Waits
<1>. DEFINE bad(f) == Scrolls(stmt, ask) /\ ScrollFails(stmt, f)
            s(f)   == IF Scrolls(stmt, ask) /\ ~bad(f) THEN SQLFetchScroll(stmt, ask)
                      ELSE stmt
<1>1. PICK f \in BOOLEAN, g \in BOOLEAN :
         /\ stmt' = SQLFetch(s(f), g)
         /\ IF bad(f) \/ FetchRc(s(f), g) = "error" \/ RowThrows(SQLFetch(s(f), g))
            THEN Forget /\ reply' = Failed("fetchSync")
            ELSE Hand("fetch", Answer("fetchSync", "value", FetchRc(s(f), g),
                                      <<FetchedRow(SQLFetch(s(f), g))>>, ask, stmt.pos))
  BY ZenonT(60) DEF FetchSync, Fails
<1>. DEFINE s1 == s(f)
            rc == FetchRc(s1, g)
<1>2. /\ Mem(s1) /\ Same(s1, stmt)
      /\ ~bad(f) => s1.pos = Before(stmt, ask, stmt.pos)
  <2>1. CASE Scrolls(stmt, ask) /\ ~bad(f)
    BY <1>0, <2>1, StmtFacts, SQLFetchScrollMoves DEF Before
  <2>2. CASE ~(Scrolls(stmt, ask) /\ ~bad(f))
    BY <2>2, StmtFacts DEF Same, Before
  <2> QED
    BY <2>1, <2>2
<1>. HIDE DEF s
<1>3. /\ Mem(stmt') /\ Same(stmt', s1) /\ rc \in Rcs
      /\ rc # "error" => s1.open /\ Arrived(stmt', s1.pos, rc)
  BY <1>1, <1>2, StmtFacts, SQLFetchArrives DEF Same
<1>4. Same(stmt', stmt) /\ Before(stmt', ask, stmt.pos) = Before(stmt, ask, stmt.pos)
  BY <1>2, <1>3 DEF Same, Before, Scrolls
<1>5. CallOK' /\ (stmt'.open => stmt'.gen # 0) /\ call'.pc = "idle"
  BY <1>0, <1>4, StmtFacts, AfterMethod DEF Same
<1>6. CASE bad(f) \/ rc = "error" \/ RowThrows(stmt')
  <2>1. Forget /\ reply' = Failed("fetchSync")
    BY <1>1, <1>6
  <2>2. KeptOK' /\ ReplyOK'
    BY <2>1, StmtFacts, ForgetEmpties, FailedAnswer, EmptyAnswer DEF Ops
  <2> QED
    BY <1>3, <1>5, <2>2 DEF IInv
<1>7. CASE ~(bad(f) \/ rc = "error" \/ RowThrows(stmt'))
  <2>1. Hand("fetch", Answer("fetchSync", "value", rc, <<FetchedRow(stmt')>>, ask, stmt.pos))
    BY <1>1, <1>7
  <2>2. Arrived(stmt', Before(stmt', ask, stmt.pos), rc)
    BY <1>2, <1>3, <1>4, <1>7
  <2>3. stmt'.gen # 0 /\ stmt'.bindingRowAllocated /\ ~RowThrows(stmt')
    BY <1>0, <1>4, <1>7 DEF Same
  <2>. HIDE DEF rc
  <2>4. ReplyOK' /\ KeptOK'
    BY <1>0, <1>3, <1>5, <2>1, <2>2, <2>3, StmtFacts, FetchAnswer
  <2> QED
    BY <1>3, <1>5, <2>4 DEF IInv
<1> QED
  BY <1>6, <1>7

LEMMA QueueStep ==
    ASSUME IInv, NEW op \in {"fetch", "fetchAll"}, NEW ask \in Positions \cup {Plain},
           Queue(op, ask)
    PROVE  IInv'
<1>1. /\ stmt' = stmt /\ stmt.bindingRowAllocated /\ Forget /\ ask \in Position
      /\ call' = [NoCall EXCEPT !.op = op, !.pc = "queued", !.ask = ask, !.from = stmt.pos]
      /\ reply' = Answer(op, "accepted", "success", <<>>, ask, stmt.pos)
  BY BasicTypes DEF Queue, Usable, Waits
<1>2. kept' = {} /\ KeptOK'
  BY <1>1, StmtFacts, ForgetEmpties
<1>3. CallOK'
  <2>1. call' = [op |-> op, pc |-> "queued", ask |-> ask, from |-> stmt.pos, rc |-> "success"]
    BY <1>1 DEF NoCall
  <2>2. call' \in Call
    <3>1. stmt.pos \in 0..(NRows + 1) /\ ask \in Position /\ "success" \in Rcs
      BY <1>1, StmtFacts DEF Rcs
    <3>2. op \in {"none", "fetch", "fetchAll"}
      OBVIOUS
    <3>3. "queued" \in {"idle", "queued", "scrolled", "done"}
      OBVIOUS
    <3> QED
      BY <2>1, <3>1, <3>2, <3>3 DEF Call
  <2>3. call'.pc = "queued" /\ call'.from = stmt.pos
    BY <2>1
  <2>4. stmt'.pos = call'.from /\ stmt'.bindingRowAllocated
    BY <1>1, <2>3
  <2> QED
    BY <1>2, <2>2, <2>3, <2>4 DEF CallOK
<1>4. reply' \in Reply /\ NoRows(reply)'
  BY <1>1, StmtFacts, BasicTypes DEF Answer, Reply, NoRows, Rcs
<1> QED
  BY <1>1, <1>2, <1>3, <1>4, StmtFacts, EmptyAnswer DEF IInv

\* A step of the worker: the answer was not changed and has no rows.
LEMMA WorkerAnswer ==
    ASSUME IInv, NEW pc \in {"scrolled", "done"}, NEW rc \in Rcs, NEW s, Mem(s), Same(s, stmt),
           call.pc \in {"queued", "scrolled"}, Worker(pc, rc, s)
    PROVE  /\ ReplyOK' /\ KeptOK' /\ Mem(stmt') /\ (stmt'.open => stmt'.gen # 0)
           /\ call' \in Call /\ call'.pc = pc /\ call'.rc = rc /\ call'.op = call.op
           /\ call'.ask = call.ask /\ call'.from = call.from
           /\ stmt' = s /\ stmt'.bindingRowAllocated /\ kept' = {}
           /\ \A at : Before(s, call.ask, at) = Before(stmt, call.ask, at)
<1>1. /\ call' = [call EXCEPT !.pc = pc, !.rc = rc] /\ stmt' = s
      /\ reply' = reply /\ kept' = kept /\ kept = {} /\ stmt.bindingRowAllocated
      /\ NoRows(reply)
  BY StmtFacts DEF Worker, CallOK, IInv, ReplyOK
<1>2. /\ call' \in Call /\ call'.pc = pc /\ call'.rc = rc /\ call'.op = call.op
      /\ call'.ask = call.ask /\ call'.from = call.from
  BY <1>1, StmtFacts DEF Call
<1>3. ReplyOK'
  BY <1>1, StmtFacts, EmptyAnswer DEF NoRows
<1>4. KeptOK' /\ stmt'.bindingRowAllocated /\ (stmt'.open => stmt'.gen # 0)
  BY <1>1, StmtFacts DEF KeptOK, Same
<1> QED
  BY <1>1, <1>2, <1>3, <1>4 DEF Before, Scrolls, Same

LEMMA FetchWorkerScrollsStep == ASSUME IInv, FetchWorkerScrolls PROVE IInv'
<1>0. /\ call.op = "fetch" /\ call.pc = "queued" /\ stmt.pos = call.from
      /\ stmt.gen # 0 /\ call.ask \in Position
  BY StmtFacts DEF FetchWorkerScrolls, CallOK, Call
<1>1. CASE ~Scrolls(stmt, call.ask)
  <2>1. Worker("scrolled", "success", stmt) /\ Mem(stmt) /\ Same(stmt, stmt)
    BY <1>1, StmtFacts DEF FetchWorkerScrolls, Same
  <2> QED
    BY <1>0, <1>1, <2>1, WorkerAnswer DEF IInv, CallOK, Before, Rcs
<1>2. CASE Scrolls(stmt, call.ask)
  <2>1. PICK f \in BOOLEAN :
           IF ScrollFails(stmt, f) THEN Worker("done", "error", stmt)
           ELSE Worker("scrolled", "success", SQLFetchScroll(stmt, call.ask))
    BY <1>2 DEF FetchWorkerScrolls, Fails
  <2>2. CASE ScrollFails(stmt, f)
    <3>1. Worker("done", "error", stmt) /\ Mem(stmt) /\ Same(stmt, stmt)
      BY <2>1, <2>2, StmtFacts DEF Same
    <3> QED
      BY <1>0, <3>1, WorkerAnswer DEF IInv, CallOK, Rcs
  <2>3. CASE ~ScrollFails(stmt, f)
    <3>. DEFINE s == SQLFetchScroll(stmt, call.ask)
    <3>1. Worker("scrolled", "success", s)
      BY <2>1, <2>3
    <3>2. Mem(s) /\ Same(s, stmt) /\ s.pos = Before(stmt, call.ask, call.from)
      BY <1>0, <1>2, StmtFacts, SQLFetchScrollMoves DEF Before
    <3>. HIDE DEF s
    <3> QED
      BY <1>0, <3>1, <3>2, WorkerAnswer DEF IInv, CallOK, Rcs
  <2> QED
    BY <2>2, <2>3
<1> QED
  BY <1>1, <1>2

LEMMA FetchWorkerFetchesStep == ASSUME IInv, FetchWorkerFetches PROVE IInv'
<1>1. PICK f \in BOOLEAN : Worker("done", FetchRc(stmt, f), SQLFetch(stmt, f))
  BY DEF FetchWorkerFetches, Fails
<1>2. /\ call.op = "fetch" /\ call.pc = "scrolled"
      /\ stmt.open => stmt.pos = Before(stmt, call.ask, call.from)
  BY StmtFacts DEF FetchWorkerFetches, CallOK
<1>. DEFINE s == SQLFetch(stmt, f)
            rc == FetchRc(stmt, f)
<1>3. /\ Mem(s) /\ Same(s, stmt) /\ rc \in Rcs
      /\ rc # "error" => stmt.open /\ Arrived(s, stmt.pos, rc)
  BY StmtFacts, SQLFetchArrives
<1>. HIDE DEF s, rc
<1>4. Worker("done", rc, s)
  BY <1>1 DEF s, rc
<1>5. /\ ReplyOK' /\ KeptOK' /\ Mem(stmt') /\ (stmt'.open => stmt'.gen # 0)
      /\ call' \in Call /\ call'.pc = "done" /\ call'.rc = rc /\ call'.op = "fetch"
      /\ call'.ask = call.ask /\ call'.from = call.from
      /\ stmt' = s /\ stmt'.bindingRowAllocated /\ kept' = {}
      /\ Before(s, call.ask, call.from) = Before(stmt, call.ask, call.from)
  BY <1>2, <1>3, <1>4, WorkerAnswer
<1>6. rc # "error" => s.open /\ Arrived(s, Before(s, call.ask, call.from), rc)
  BY <1>2, <1>3, <1>5 DEF Same
<1>7. CallOK'
  BY <1>5, <1>6 DEF CallOK
<1> QED
  BY <1>5, <1>7 DEF IInv

LEMMA FetchAllWorkerStep == ASSUME IInv, FetchAllWorker PROVE IInv'
<1>1. PICK end \in FetchEnds(stmt) : Worker("done", end.rc, FetchData(stmt, end.got, end.rc))
  BY DEF FetchAllWorker
<1>2. call.op = "fetchAll" /\ call.pc = "queued" /\ stmt.pos = call.from
  BY StmtFacts DEF FetchAllWorker, CallOK
<1>. DEFINE s == FetchData(stmt, end.got, end.rc)
<1>3. /\ Mem(s) /\ Same(s, stmt) /\ end.rc \in Rcs
      /\ end.rc # "error" => stmt.open /\ Collected(s, stmt.pos)
  BY StmtFacts, FetchDataCollects
<1>. HIDE DEF s
<1>4. Worker("done", end.rc, s)
  BY <1>1 DEF s
<1>5. /\ ReplyOK' /\ KeptOK' /\ Mem(stmt') /\ (stmt'.open => stmt'.gen # 0)
      /\ call' \in Call /\ call'.pc = "done" /\ call'.rc = end.rc /\ call'.op = "fetchAll"
      /\ call'.from = call.from
      /\ stmt' = s /\ stmt'.bindingRowAllocated /\ kept' = {}
  BY <1>2, <1>3, <1>4, WorkerAnswer
<1>6. CallOK'
  BY <1>2, <1>3, <1>5 DEF CallOK, Same
<1> QED
  BY <1>5, <1>6 DEF IInv

LEMMA FetchDoneStep == ASSUME IInv, FetchDone PROVE IInv'
<1>0. /\ call.op = "fetch" /\ call.pc = "done" /\ call' = NoCall /\ stmt' = stmt
      /\ stmt.bindingRowAllocated /\ stmt.gen # 0 /\ kept = {}
      /\ call.ask \in Position /\ call.from \in 0..(NRows + 1) /\ call.rc \in Rcs
  BY StmtFacts DEF FetchDone, CallOK, Call
<1>1. CallOK' /\ call'.pc = "idle"
  BY <1>0, BasicTypes, AfterMethod
<1>2. CASE call.rc # "error" /\ ~RowThrows(stmt)
  <2>1. Hand("fetch", Answer("fetch", "value", call.rc, <<FetchedRow(stmt')>>,
                             call.ask, call.from))
    BY <1>0, <1>2 DEF FetchDone
  <2>2. Arrived(stmt', Before(stmt', call.ask, call.from), call.rc)
    BY <1>0, <1>2, StmtFacts DEF CallOK
  <2>3. /\ Mem(stmt') /\ stmt'.gen # 0 /\ stmt'.bindingRowAllocated /\ ~RowThrows(stmt')
        /\ KeptOK
    BY <1>0, <1>2, StmtFacts
  <2>4. ReplyOK' /\ KeptOK'
    BY <1>0, <1>1, <2>1, <2>2, <2>3, FetchAnswer
  <2> QED
    BY <1>0, <1>1, <2>3, <2>4 DEF IInv
<1>3. CASE ~(call.rc # "error" /\ ~RowThrows(stmt))
  <2>. DEFINE kind == IF call.rc = "error" THEN "error" ELSE "uncaught"
  <2>1. reply' = [Failed("fetch") EXCEPT !.kind = kind] /\ kept' = kept
    BY <1>3 DEF FetchDone
  <2>2. kind \in {"error", "uncaught"}
    OBVIOUS
  <2>. HIDE DEF kind
  <2>3. ReplyOK' /\ KeptOK'
    BY <1>0, <2>1, <2>2, FailedAnswer, EmptyAnswer DEF Ops, KeptOK
  <2> QED
    BY <1>0, <1>1, <2>3, StmtFacts DEF IInv
<1> QED
  BY <1>2, <1>3

\* buildJsObject() gives the collected rows up.
LEMMA BuildJsObjectMem ==
    ASSUME NEW s, Mem(s)
    PROVE  Mem(BuildJsObject(s)) /\ Same(BuildJsObject(s), s)
<1>. DEFINE t == BuildJsObject(s)
<1>1. /\ t \in Stmt /\ Same(t, s) /\ t.heap = s.heap /\ t.buffer = s.buffer
      /\ t.indicator = s.indicator /\ t.resultSetInC = <<>>
  <2>1. t = [s EXCEPT !.resultSetInC = <<>>] /\ <<>> \in Seq([Cols -> Field])
    BY DEF BuildJsObject
  <2>. HIDE DEF t
  <2>2. s \in Stmt
    BY DEF Mem, Core
  <2>. DEFINE Rows == Seq([Cols -> Field])
  <2>3. <<>> \in Rows /\ s \in [stmtAllocated : BOOLEAN, asNumber : BOOLEAN,
         bindingRowAllocated : BOOLEAN, gen : 0..MaxBinds,
         buffer : [1..MaxBinds -> 0..NRows], heap : SUBSET Cells,
         indicator : 0..NRows, resultSetInC : Rows,
         scrollable : BOOLEAN, open : BOOLEAN, pos : 0..(NRows + 1)]
    BY <2>1, <2>2 DEF Stmt
  <2>. HIDE DEF Rows
  <2>4. t.resultSetInC = <<>> /\ Same(t, s) /\ t.heap = s.heap /\ t.buffer = s.buffer
        /\ t.indicator = s.indicator
    BY <2>1, <2>3 DEF Same
  <2>5. t \in Stmt
    <3>1. t \in [stmtAllocated : BOOLEAN, asNumber : BOOLEAN,
         bindingRowAllocated : BOOLEAN, gen : 0..MaxBinds,
         buffer : [1..MaxBinds -> 0..NRows], heap : SUBSET Cells,
         indicator : 0..NRows, resultSetInC : Rows,
         scrollable : BOOLEAN, open : BOOLEAN, pos : 0..(NRows + 1)]
      BY <2>1, <2>3
    <3> QED
      BY <3>1 DEF Stmt, Rows
  <2> QED
    BY <2>4, <2>5
<1>. HIDE DEF t
<1>2. Core(t)
  BY <1>1 DEF Mem, Core, Same
<1>3. Mem(t)
  BY <1>1, <1>2 DEF Mem, Same
<1> QED
  BY <1>1, <1>3 DEF t

LEMMA FetchAllDoneStep == ASSUME IInv, FetchAllDone PROVE IInv'
<1>0. /\ call.op = "fetchAll" /\ call.pc = "done" /\ call' = NoCall /\ kept = {}
      /\ call.from \in 0..(NRows + 1)
  BY StmtFacts DEF FetchAllDone, CallOK, Call
<1>1. CallOK' /\ call'.pc = "idle"
  BY <1>0, BasicTypes, AfterMethod
<1>2. CASE call.rc = "error" \/ Aborts(stmt)
  <2>1. /\ reply' \in {Failed("fetchAll"), Aborted("fetchAll")}
        /\ stmt' = stmt /\ kept' = kept
    BY <1>2 DEF FetchAllDone
  <2>2. ReplyOK' /\ KeptOK'
    BY <1>0, <2>1, FailedAnswer, EmptyAnswer DEF Ops, KeptOK
  <2> QED
    BY <1>1, <2>1, <2>2, StmtFacts DEF IInv
<1>3. CASE ~(call.rc = "error" \/ Aborts(stmt))
  <2>1. /\ stmt' = BuildJsObject(stmt)
        /\ Hand("fetchAll", Answer("fetchAll", "value", "success", BuiltRows(stmt), Plain,
                                   call.from))
    BY <1>3 DEF FetchAllDone
  <2>2. Collected(stmt, call.from)
    BY <1>0, <1>3, StmtFacts DEF CallOK
  <2>3. ReplyOK' /\ kept' = {}
    BY <1>0, <1>1, <2>1, <2>2, StmtFacts, FetchAllAnswer
  <2>4. Mem(stmt') /\ Same(stmt', stmt)
    BY <2>1, StmtFacts, BuildJsObjectMem
  <2> QED
    BY <1>1, <2>3, <2>4, StmtFacts DEF IInv, KeptOK, Same
<1> QED
  BY <1>2, <1>3

LEMMA FetchAllSyncStep ==
    ASSUME IInv, NEW cb \in BOOLEAN, FetchAllSync(cb)
    PROVE  IInv'
<1>1. PICK end \in FetchEnds(stmt) :
         LET s1 == FetchData(stmt, end.got, end.rc)
             error == end.rc = "error"
         IN  IF error /\ cb
             THEN stmt' = s1 /\ Forget /\ reply' = Failed("fetchAll")
             ELSE IF Aborts(s1)
             THEN stmt' = s1 /\ Forget /\ reply' = Aborted("fetchAll")
             ELSE /\ stmt' = BuildJsObject(s1)
                  /\ IF error THEN Forget /\ reply' = Failed("fetchAll")
                     ELSE Hand("fetchAll", Answer("fetchAll", "value", "success",
                                                  BuiltRows(s1), Plain, stmt.pos))
  BY DEF FetchAllSync
<1>. DEFINE s == FetchData(stmt, end.got, end.rc)
            handed == end.rc # "error" /\ ~Aborts(s)
<1>2. /\ Mem(s) /\ Same(s, stmt)
      /\ end.rc # "error" => Collected(s, stmt.pos)
  BY StmtFacts, FetchDataCollects
<1>3. /\ stmt' \in {s, BuildJsObject(s)}
      /\ ~handed => Forget /\ reply' \in {Failed("fetchAll"), Aborted("fetchAll")}
      /\ handed =>
            /\ stmt' = BuildJsObject(s)
            /\ Hand("fetchAll", Answer("fetchAll", "value", "success", BuiltRows(s),
                                       Plain, stmt.pos))
  BY <1>1
<1>. HIDE DEF s
<1>4. Mem(stmt') /\ (stmt'.open => stmt'.gen # 0)
  BY <1>2, <1>3, StmtFacts, BuildJsObjectMem DEF Same
<1>5. CallOK' /\ call'.pc = "idle"
  BY StmtFacts, AfterMethod DEF FetchAllSync, Usable, Waits
<1>6. CASE ~handed
  <2>1. Forget /\ reply' \in {Failed("fetchAll"), Aborted("fetchAll")}
    BY <1>3, <1>6
  <2>2. KeptOK' /\ ReplyOK'
    BY <2>1, StmtFacts, ForgetEmpties, FailedAnswer, EmptyAnswer DEF Ops
  <2> QED
    BY <1>4, <1>5, <2>2 DEF IInv
<1>7. CASE handed
  <2>1. ReplyOK' /\ kept' = {}
    BY <1>2, <1>3, <1>5, <1>7, StmtFacts, FetchAllAnswer
  <2> QED
    BY <1>4, <1>5, <2>1 DEF IInv, KeptOK
<1> QED
  BY <1>6, <1>7

LEMMA CloseCursorStep == ASSUME IInv, CloseCursor PROVE IInv'
<1>. DEFINE s == [stmt EXCEPT !.open = FALSE]
<1>1. /\ stmt' = s /\ reply' = Done("closeCursor") /\ call' = call /\ kept' = kept
      /\ call.pc = "idle"
  BY DEF CloseCursor, Waits
<1>2. /\ s \in Stmt /\ s.heap = stmt.heap /\ s.buffer = stmt.buffer /\ s.gen = stmt.gen
      /\ s.indicator = stmt.indicator /\ s.resultSetInC = stmt.resultSetInC
      /\ s.bindingRowAllocated = stmt.bindingRowAllocated /\ ~s.open
  BY StmtFacts DEF Stmt
<1>. HIDE DEF s
<1>3. Core(s)
  BY <1>2, StmtFacts DEF Mem, Core
<1>4. Mem(s)
  BY <1>2, <1>3, StmtFacts DEF Mem
<1>5. KeptOK'
  BY <1>1, <1>2, StmtFacts DEF KeptOK
<1>6. CallOK' /\ ReplyOK'
  BY <1>1, StmtFacts, AfterMethod, DoneAnswer, EmptyAnswer
<1> QED
  BY <1>1, <1>2, <1>4, <1>5, <1>6 DEF IInv

LEMMA CloseStep == ASSUME IInv, Close PROVE IInv'
<1>. DEFINE s1 == IF stmt.bindingRowAllocated THEN FreeBindingRow(stmt) ELSE stmt
            s  == [s1 EXCEPT !.stmtAllocated = FALSE, !.open = FALSE]
<1>1. /\ stmt' = s /\ reply' = Done("close") /\ call' = call /\ call.pc = "idle" /\ Forget
  BY DEF Close, Waits
<1>2. Mem(s1)
  <2>1. CASE stmt.bindingRowAllocated
    BY <2>1, StmtFacts, FreeBindingRowMem DEF Mem
  <2>2. CASE ~stmt.bindingRowAllocated
    BY <2>2, StmtFacts
  <2> QED
    BY <2>1, <2>2
<1>. HIDE DEF s1
<1>3. /\ s \in Stmt /\ s.heap = s1.heap /\ s.buffer = s1.buffer /\ s.gen = s1.gen
      /\ s.indicator = s1.indicator /\ s.resultSetInC = s1.resultSetInC
      /\ s.bindingRowAllocated = s1.bindingRowAllocated /\ ~s.open
  BY <1>2 DEF Mem, Core, Stmt
<1>. HIDE DEF s
<1>4. Core(s)
  BY <1>2, <1>3 DEF Mem, Core
<1>5. Mem(s)
  BY <1>2, <1>3, <1>4 DEF Mem
<1>6. CallOK' /\ ReplyOK' /\ KeptOK'
  BY <1>1, StmtFacts, AfterMethod, DoneAnswer, EmptyAnswer, ForgetEmpties
<1> QED
  BY <1>1, <1>3, <1>5, <1>6 DEF IInv

\* A method that changes a flag only, at any time.
LEMMA FlagStep ==
    ASSUME IInv, NEW s, s \in Stmt, stmt' = s, call' = call, kept' = kept,
           s.heap = stmt.heap, s.buffer = stmt.buffer, s.gen = stmt.gen,
           s.indicator = stmt.indicator, s.resultSetInC = stmt.resultSetInC,
           s.bindingRowAllocated = stmt.bindingRowAllocated,
           s.open = stmt.open, s.pos = stmt.pos,
           stmt.open => s.scrollable = stmt.scrollable
    PROVE  Mem(stmt') /\ (stmt'.open => stmt'.gen # 0) /\ CallOK' /\ KeptOK'
<1>1. Core(s)
  BY StmtFacts DEF Mem, Core
<1>2. Mem(s)
  BY <1>1, StmtFacts DEF Mem
<1>3. KeptOK'
  BY StmtFacts DEF KeptOK
<1>4. stmt.open => Before(s, call.ask, call.from) = Before(stmt, call.ask, call.from)
  BY DEF Before, Scrolls
<1>5. CallOK'
  <2>1. Collected(s, call.from) <=> Collected(stmt, call.from)
    BY DEF Collected
  <2>2. \A p, rc : Arrived(s, p, rc) <=> Arrived(stmt, p, rc)
    BY DEF Arrived
  <2> QED
    BY <1>4, <2>1, <2>2, StmtFacts DEF CallOK
<1> QED
  BY <1>2, <1>3, <1>5, StmtFacts

LEMMA AsNumberStep == ASSUME IInv, NEW flag \in BOOLEAN, AsNumber(flag) PROVE IInv'
<1>. DEFINE s == [stmt EXCEPT !.asNumber = flag]
<1>1. stmt' = s /\ call' = call /\ kept' = kept /\ reply' = Done("asNumber")
  BY DEF AsNumber
<1>2. /\ s \in Stmt /\ s.heap = stmt.heap /\ s.buffer = stmt.buffer /\ s.gen = stmt.gen
      /\ s.indicator = stmt.indicator /\ s.resultSetInC = stmt.resultSetInC
      /\ s.bindingRowAllocated = stmt.bindingRowAllocated
      /\ s.open = stmt.open /\ s.pos = stmt.pos /\ s.scrollable = stmt.scrollable
  BY StmtFacts DEF Stmt
<1>. HIDE DEF s
<1>3. Mem(stmt') /\ (stmt'.open => stmt'.gen # 0) /\ CallOK' /\ KeptOK'
  BY <1>1, <1>2, FlagStep
<1>4. ReplyOK'
  BY <1>1, DoneAnswer, EmptyAnswer
<1> QED
  BY <1>3, <1>4 DEF IInv

LEMMA SetStmtAttrStep ==
    ASSUME IInv, NEW scrollable \in BOOLEAN, SetStmtAttr(scrollable)
    PROVE  IInv'
<1>1. call' = call /\ kept' = kept
  BY DEF SetStmtAttr
<1>2. CASE stmt.stmtAllocated /\ ~stmt.open
  <2>. DEFINE s == [stmt EXCEPT !.scrollable = scrollable]
  <2>1. stmt' = s /\ reply' = Done("setStmtAttr")
    BY <1>2 DEF SetStmtAttr
  <2>2. /\ s \in Stmt /\ s.heap = stmt.heap /\ s.buffer = stmt.buffer /\ s.gen = stmt.gen
        /\ s.indicator = stmt.indicator /\ s.resultSetInC = stmt.resultSetInC
        /\ s.bindingRowAllocated = stmt.bindingRowAllocated
        /\ s.open = stmt.open /\ s.pos = stmt.pos
    BY StmtFacts DEF Stmt
  <2>. HIDE DEF s
  <2>3. Mem(stmt') /\ (stmt'.open => stmt'.gen # 0) /\ CallOK' /\ KeptOK'
    BY <1>1, <1>2, <2>1, <2>2, FlagStep
  <2>4. ReplyOK'
    BY <2>1, DoneAnswer, EmptyAnswer
  <2> QED
    BY <2>3, <2>4 DEF IInv
<1>3. CASE ~(stmt.stmtAllocated /\ ~stmt.open)
  <2>1. stmt' = stmt /\ reply' = Failed("setStmtAttr")
    BY <1>3 DEF SetStmtAttr
  <2>2. ReplyOK'
    BY <2>1, FailedAnswer, EmptyAnswer DEF Ops
  <2> QED
    BY <1>1, <2>1, <2>2, StmtFacts DEF IInv, CallOK, KeptOK
<1> QED
  BY <1>2, <1>3

-----------------------------------------------------------------------------
(* The invariant is inductive *)

LEMMA InitIInv == ASSUME Init PROVE IInv
<1>1. /\ stmt = [stmtAllocated |-> TRUE, asNumber |-> FALSE,
                 bindingRowAllocated |-> FALSE, gen |-> 0,
                 buffer |-> [g \in 1..MaxBinds |-> 0], heap |-> {},
                 indicator |-> 0, resultSetInC |-> <<>>,
                 scrollable |-> FALSE, open |-> FALSE, pos |-> 0]
      /\ call = NoCall /\ kept = {}
      /\ reply = [op |-> "none", kind |-> "none", rc |-> "success", rows |-> <<>>,
                  ask |-> Plain, from |-> 0]
  BY DEF Init, Answer
<1>2. stmt \in Stmt
  BY <1>1, LayoutType DEF Stmt
<1>3. Core(stmt)
  BY <1>1, <1>2 DEF Core
<1>4. Mem(stmt) /\ ~stmt.open
  BY <1>1, <1>3 DEF Mem
<1>5. CallOK /\ KeptOK
  BY <1>1, BasicTypes DEF CallOK, KeptOK
<1>6. reply \in Reply
  BY <1>1, BasicTypes DEF Reply, Rcs
<1>7. RowsWhole /\ PositionedFetch /\ SameEitherWay
  BY <1>1 DEF RowsWhole, PositionedFetch, SameEitherWay
<1> QED
  BY <1>1, <1>4, <1>5, <1>6, <1>7, BasicTypes DEF IInv, ReplyOK

LEMMA NextIInv == ASSUME IInv, [Next]_vars PROVE IInv'
<1>1. CASE MainStep
  <2>1. CASE ExecuteSync
    BY <2>1, ExecuteSyncStep
  <2>2. CASE FetchAll
    BY <2>2, QueueStep DEF FetchAll
  <2>3. CASE CloseCursor
    BY <2>3, CloseCursorStep
  <2>4. CASE Close
    BY <2>4, CloseStep
  <2>5. ASSUME NEW ask \in Positions \cup {Plain}, FetchSync(ask) \/ Fetch(ask) PROVE IInv'
    BY <2>5, FetchSyncStep, QueueStep DEF Fetch
  <2>6. ASSUME NEW flag \in BOOLEAN, FetchAllSync(flag) \/ AsNumber(flag) \/ SetStmtAttr(flag)
        PROVE  IInv'
    BY <2>6, FetchAllSyncStep, AsNumberStep, SetStmtAttrStep
  <2> QED
    BY <1>1, <2>1, <2>2, <2>3, <2>4, <2>5, <2>6 DEF MainStep
<1>2. CASE WorkerStep
  BY <1>2, FetchWorkerScrollsStep, FetchWorkerFetchesStep, FetchAllWorkerStep DEF WorkerStep
<1>3. CASE CallbackStep
  BY <1>3, FetchDoneStep, FetchAllDoneStep DEF CallbackStep
<1>4. CASE UNCHANGED vars
  <2>1. stmt' = stmt /\ call' = call /\ reply' = reply /\ kept' = kept
    BY <1>4 DEF vars
  <2>2. CallOK' /\ KeptOK'
    BY <2>1, StmtFacts DEF CallOK, KeptOK
  <2>3. ReplyOK'
    BY <2>1 DEF IInv, ReplyOK, NoRows, RowsWhole, PositionedFetch, Before, Scrolls,
                       SameEitherWay
  <2> QED
    BY <2>1, <2>2, <2>3, StmtFacts DEF IInv
<1> QED
  BY <1>1, <1>2, <1>3, <1>4 DEF Next

LEMMA Invariance == Spec => []IInv
<1>1. Init => IInv
  BY InitIInv
<1>2. IInv /\ [Next]_vars => IInv'
  BY NextIInv
<1> QED
  BY <1>1, <1>2, PTL DEF Spec

-----------------------------------------------------------------------------
(* Theorems *)

\* The members of the object, its worker and what it hands out are of their
\* types, and a binding row that is said to be allocated has its buffers, through
\* executions that fail half way and closes (dbstmt.h:118-145; dbstmt.cc:2260-2384).
THEOREM TypeCorrect == Spec => []TypeOK
<1>1. ASSUME IInv PROVE TypeOK
  <2>1. stmt.bindingRowAllocated => {stmt.gen} \X Bound(0) \subseteq stmt.heap
    BY <1>1, StmtFacts DEF Mem
  <2> QED
    BY <1>1, <2>1, StmtFacts DEF TypeOK, KeptOK
<1> QED
  BY <1>1, Invariance, PTL

\* Whatever is NULL and whichever fetches fail, fetchAll copies rows whole and
\* in order up to the end, each from one SQLFetch (dbstmt.cc:2386-2550).
THEOREM FetchAllWhole == Spec => []RowsWhole
<1>1. IInv => RowsWhole
  BY DEF IInv, ReplyOK
<1> QED
  BY <1>1, Invariance, PTL

\* A fetch that does not scroll goes on with the next row, and says when there is
\* none, with attributes and flags changed while it runs and whatever the fetches
\* before it did (dbstmt.cc:1294-1330, 1452-1500).
THEOREM FetchAdvances == Spec => []AdvancesToNext
<1>1. ASSUME IInv PROVE AdvancesToNext
  <2>. SUFFICES ASSUME reply.op \in {"fetch", "fetchSync"}, reply.kind = "value",
                       reply.ask = Plain \/ ~stmt.scrollable
                PROVE  IF reply.from < NRows
                       THEN reply.rc # "no_data" /\ RowOf(reply.rows[1], reply.from + 1)
                       ELSE reply.rc = "no_data"
    BY DEF AdvancesToNext
  <2>1. Before(stmt, reply.ask, reply.from) = reply.from
    BY DEF Before, Scrolls
  <2>2. RowRc(reply.from + 1) # "no_data"
    BY DEF RowRc
  <2> QED
    BY <1>1, <2>1, <2>2 DEF IInv, ReplyOK, PositionedFetch
<1> QED
  BY <1>1, Invariance, PTL

\* fetch and fetchAll make the same of a field whose length is inconsistent, NULL
\* or sound, but for CLOBs, numbers, and inconsistent BOOLEANs and Buffers
\* (dbstmt.cc:2400-2550, 2899-2939).
THEOREM WaysAgree == Spec => []SameEitherWay
<1>1. IInv => SameEitherWay
  BY DEF IInv, ReplyOK
<1> QED
  BY <1>1, Invariance, PTL

\* The memory of a Buffer in the client's hands is neither freed nor
\* overwritten (dbstmt.cc:2488-2495, 2917-2919).
THEOREM BuffersLast == Spec => []BuffersHold
<1>1. ASSUME IInv PROVE BuffersHold
  <2>. SUFFICES ASSUME NEW b \in kept
                PROVE  <<b.mem, b.col>> \in stmt.heap /\ stmt.buffer[b.mem] = b.row
    BY DEF BuffersHold
  <2>1. /\ stmt.bindingRowAllocated /\ b.mem = stmt.gen /\ b.col \in Cols
        /\ IsBinary(b.col) /\ b.row = stmt.buffer[stmt.gen]
    BY <1>1, StmtFacts DEF KeptOK, Held
  <2>2. b.col \in Bound(0)
    BY <2>1 DEF Bound, IsBinary, IsClob, BinaryTypes
  <2> QED
    BY <1>1, <2>1, <2>2, StmtFacts DEF Mem
<1> QED
  BY <1>1, Invariance, PTL

\* Binding rows leak only behind a CLOB column (dbstmt.cc:2560-2566).
THEOREM NoLeakBeforeClob == Spec => []LeaksOnlyAfterClob
<1>1. ASSUME IInv PROVE LeaksOnlyAfterClob
  <2>. SUFFICES ASSUME NEW cell \in stmt.heap
                PROVE  \/ stmt.bindingRowAllocated /\ cell[1] = stmt.gen
                       \/ \E d \in Cols : d < cell[2] /\ IsClob(d)
    BY DEF LeaksOnlyAfterClob
  <2>1. cell \in (1..MaxBinds) \X Cols /\ cell = <<cell[1], cell[2]>>
    BY <1>1, StmtFacts DEF Stmt, Cells
  <2> QED
    BY <1>1, <2>1, StmtFacts DEF Mem, Core
<1> QED
  BY <1>1, Invariance, PTL
=============================================================================
