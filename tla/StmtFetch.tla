------------------------------ MODULE StmtFetch ------------------------------
(***************************************************************************)
(* What fetch and fetchAll hand to JavaScript, and from where in the       *)
(* result set: positioned fetches, the values of single columns and the    *)
(* memory they live in (src/src/db2ia/dbstmt.cc).                          *)
(*                                                                         *)
(* SQLFetch writes a row into the buffers of bindingRowInC.  fetch() makes *)
(* JavaScript values straight from them; fetchData() copies them into      *)
(* resultSetInC, from which buildJsObject() makes the values.  DbStmt      *)
(* models when those arrays exist; here one result-set layout is looked    *)
(* at column by column.  The client waits for one fetch before it asks for *)
(* the next; asNumber and setStmtAttr it calls at any time.                *)
(***************************************************************************)
EXTENDS Integers, Sequences, FiniteSets

CONSTANTS
    Layout,     \* the columns of the result set
    NRows,      \* its rows
    Null,       \* the fields that are NULL: pairs of a row and a column
    Bad,        \* those whose length SQLFetch reports as inconsistent: negative,
                \* but neither SQL_NULL_DATA nor SQL_NTS
    Positions,  \* the orientations and offsets the client asks for
    Faults,     \* the CLI functions that may fail
    MaxBinds,   \* bound: binding rows allocated in the life of the statement
    MaxLeft     \* bound: rows left by failed fetchAlls when another one is made

\* Integers and approximate numbers; exact ones by their precision; what is
\* read as a string (CHAR, BIGINT, DECFLOAT, dates and the like).
NumberTypes == {"SMALLINT", "INTEGER", "REAL", "FLOAT", "DOUBLE"}
ExactTypes  == {"DECIMAL", "NUMERIC"}
BinaryTypes == {"BINARY", "VARBINARY", "BLOB"}
StringTypes == {"CHAR", "BIGINT", "DECFLOAT"}
SqlTypes == NumberTypes \cup ExactTypes \cup BinaryTypes \cup StringTypes
            \cup {"BOOLEAN", "CLOB"}
Orientations == {"ABSOLUTE", "FIRST", "LAST", "NEXT", "PRIOR", "RELATIVE"}
Position == [orient : Orientations \cup {"none"}, offset : Int]
Plain == [orient |-> "none", offset |-> 0]

ASSUME FetchAssumption ==
    /\ Layout \in Seq([sqlType : SqlTypes, colPrecise : Nat])
    /\ NRows \in Nat
    /\ Null \subseteq (1..NRows) \X DOMAIN Layout
    /\ Bad \subseteq ((1..NRows) \X DOMAIN Layout) \ Null
    /\ Positions \subseteq {p \in Position : p.orient # "none"}
    /\ Faults \subseteq {"bind", "scroll", "fetch"}
    /\ MaxBinds \in Nat /\ MaxLeft \in Nat

VARIABLES
    stmt,       \* the members of the object, its memory and its CLI cursor
    call,       \* the AsyncWorker of the fetch or fetchAll in progress
    reply,      \* what the last method handed to the client
    kept        \* history: the Buffers on the statement's memory the client may read

vars == <<stmt, call, reply, kept>>

-----------------------------------------------------------------------------
(* Types *)

Cols == DOMAIN Layout
IsClob(c)   == Layout[c].sqlType = "CLOB"
IsBinary(c) == Layout[c].sqlType \in BinaryTypes
IsBool(c)   == Layout[c].sqlType = "BOOLEAN"

\* A buffer of bindingRowInC, by the binding row it was allocated for.
Cells == (1..MaxBinds) \X Cols

\* The copy of a column in a row of resultSetInC: NULL, the "-" that stands for
\* an inconsistent length, "", or data, and the row it was made from.  Data
\* whose length was inconsistent is no row's.
Field == [kind : {"null", "dash", "empty", "data"}, row : 0..NRows]
F(kind, p) == [kind |-> kind, row |-> p]

\* gen counts the binding rows, the last one is in use while
\* bindingRowAllocated; buffer[g] is the row last written into the g-th, 0 when
\* none was, heap the cells not freed.  indicator is the row whose lengths the
\* column descriptions hold.
Stmt == [stmtAllocated : BOOLEAN, asNumber : BOOLEAN,
         bindingRowAllocated : BOOLEAN, gen : 0..MaxBinds,
         buffer : [1..MaxBinds -> 0..NRows], heap : SUBSET Cells,
         indicator : 0..NRows, resultSetInC : Seq([Cols -> Field]),
         scrollable : BOOLEAN, open : BOOLEAN, pos : 0..(NRows + 1)]

\* A JavaScript value: its type, the row it is from ("null" and "" have none),
\* and the binding row whose buffer it aliases, 0 for memory of its own.  "dash"
\* is the string "-" of an inconsistent field, "nan" the number made from it.
JsTypes == {"null", "empty", "string", "dash", "number", "nan", "boolean", "buffer"}
Value == [type : JsTypes, row : 0..NRows, mem : 0..MaxBinds]
V(type, p) == [type |-> type, row |-> p, mem |-> 0]
NullValue  == V("null", 0)

Rcs == {"success", "info", "no_data", "error"}
NoCall == [op |-> "none", pc |-> "idle", ask |-> Plain, from |-> 0, rc |-> "success"]
Call == [op : {"none", "fetch", "fetchAll"},
         pc : {"idle", "queued", "scrolled", "done"},
         ask : Position, from : 0..(NRows + 1), rc : Rcs]

\* ask and from: what a fetch asked for, and the cursor when it did.
\* "uncaught" is an exception outside of any JavaScript frame: no callback.
\* "aborted": the process has ended.
Reply == [op : {"none", "fetch", "fetchSync", "fetchAll", "executeSync",
                "closeCursor", "close", "asNumber", "setStmtAttr"},
          kind : {"none", "accepted", "value", "error", "uncaught", "aborted"},
          rc : Rcs, rows : Seq([Cols -> Value]),
          ask : Position, from : 0..(NRows + 1)]

Held == [by : {"fetch", "fetchAll"}, col : Cols, row : 0..NRows, mem : 1..MaxBinds]

-----------------------------------------------------------------------------
(* The binding row *)

\* The columns bindColData() allocated a buffer for, when SQLBindCol failed at
\* column k, or at none (k = 0).
Bound(k) == {c \in Cols : ~IsClob(c) /\ (k = 0 \/ c <= k)}

\* The variables are of their types, and a binding row in use has a buffer for
\* every column but CLOBs: bindingRowAllocated agrees with the memory it stands
\* for (dbstmt.h:118-145; dbstmt.cc:2260-2384, 2560-2566).
TypeOK ==
    /\ stmt \in Stmt
    /\ call \in Call
    /\ reply \in Reply
    /\ kept \subseteq Held
    /\ stmt.bindingRowAllocated => {stmt.gen} \X Bound(0) \subseteq stmt.heap

\* The loop of freeBindingRow() ends at the first column without a buffer.
Freed == {c \in Cols : \A d \in Cols : d <= c => ~IsClob(d)}

\* Mutation of FreeBindingRow: the flag is not reset.
FreeBindingRowKeepsFlag(s) ==
    [s EXCEPT !.heap = @ \ ({s.gen} \X Freed)]

FreeBindingRow(s) ==
    [s EXCEPT !.bindingRowAllocated = FALSE,
              !.heap = @ \ ({s.gen} \X Freed)]

\* Mutation of BindColData: the old binding row is overwritten.
BindColDataKeepsOld(s, k) ==
    LET s2 == [s EXCEPT !.gen = @ + 1, !.bindingRowAllocated = TRUE,
                        !.heap = @ \cup ({s.gen + 1} \X Bound(k))]
    IN  IF k = 0 THEN s2 ELSE FreeBindingRow(s2)

\* A new binding row, with the old one freed.
BindColData(s, k) ==
    LET s1 == IF s.bindingRowAllocated THEN FreeBindingRow(s) ELSE s
        s2 == [s1 EXCEPT !.gen = @ + 1, !.bindingRowAllocated = TRUE,
                         !.heap = @ \cup ({s1.gen + 1} \X Bound(k))]
    IN  IF k = 0 THEN s2 ELSE FreeBindingRow(s2)

-----------------------------------------------------------------------------
(* The cursor *)

\* Onto row p: its fields go into the buffers, their lengths into dbColumn.
OnRow(s, p) == [s EXCEPT !.pos = p, !.buffer[s.gen] = p, !.indicator = p]

\* A row with an inconsistent field comes with SQL_SUCCESS_WITH_INFO.
RowRc(p) == IF \E c \in Cols : <<p, c>> \in Bad THEN "info" ELSE "success"

FetchRc(s, fails) ==
    IF ~s.open \/ fails THEN "error"
    ELSE IF s.pos >= NRows THEN "no_data" ELSE RowRc(s.pos + 1)

SQLFetch(s, fails) ==
    CASE FetchRc(s, fails) = "error"   -> s
      [] FetchRc(s, fails) = "no_data" -> [s EXCEPT !.pos = NRows + 1]
      [] OTHER                         -> OnRow(s, s.pos + 1)

Clipped(p) == IF p < 0 THEN 0 ELSE IF p > NRows THEN NRows + 1 ELSE p

\* Where SQLFetchScroll moves the cursor: to a row, before the first or after
\* the last.
Target(ask, from) ==
    Clipped(CASE ask.orient = "ABSOLUTE" -> ask.offset
              [] ask.orient = "FIRST"    -> 1
              [] ask.orient = "LAST"     -> NRows
              [] ask.orient = "NEXT"     -> from + 1
              [] ask.orient = "PRIOR"    -> from - 1
              [] OTHER                   -> from + ask.offset)

SQLFetchScroll(s, ask) ==
    LET p == Target(ask, s.pos)
    IN  IF p \in 1..NRows THEN OnRow(s, p) ELSE [s EXCEPT !.pos = p]

\* A fetch looks at its orientation only when the cursor is scrollable, and
\* at no code of SQLFetchScroll but SQL_ERROR.
Scrolls(s, ask) == ask # Plain /\ s.scrollable
ScrollFails(s, fails) == ~s.open \/ fails

-----------------------------------------------------------------------------
(* Values *)

\* The length in dbColumn says NULL; a column without a row has length 0.
NullNow(s, c) == <<s.indicator, c>> \in Null
BadNow(s, c)  == <<s.indicator, c>> \in Bad

\* Mutation of FetchValue: no case for BOOLEAN.
FetchValueNoBoolean(s, c) ==
    LET p == s.buffer[s.gen]
    IN  IF NullNow(s, c) THEN NullValue
        ELSE IF BadNow(s, c) THEN V("dash", s.indicator)
        ELSE IF IsBinary(c) THEN [type |-> "buffer", row |-> p, mem |-> s.gen]
        ELSE V("string", p)

\* fetch(): the length decides first, for a column of any type; asNumber is not
\* looked at, a Buffer aliases the column's own.
FetchValue(s, c) ==
    LET p == s.buffer[s.gen]
    IN  IF NullNow(s, c) THEN NullValue
        ELSE IF BadNow(s, c) THEN V("dash", s.indicator)
        ELSE IF IsBinary(c) THEN [type |-> "buffer", row |-> p, mem |-> s.gen]
        ELSE V(IF IsBool(c) THEN "boolean" ELSE "string", p)
FetchedRow(s) == [c \in Cols |-> FetchValue(s, c)]

\* A CLOB is bound as a locator and has no buffer: fetch() makes a string from
\* a null pointer, which throws.
RowThrows(s) == \E c \in Cols : IsClob(c) /\ ~NullNow(s, c) /\ ~BadNow(s, c)

\* fetchData() reads a CLOB through its locator, and copies a BOOLEAN that is
\* not NULL, before it looks for an inconsistent length.
CopyOf(c, p) ==
    LET null == <<p, c>> \in Null
        bad  == <<p, c>> \in Bad
    IN  IF IsClob(c) THEN IF null \/ bad THEN F("empty", 0) ELSE F("data", p)
        ELSE IF null THEN F("null", 0)
        ELSE IF bad  THEN IF IsBool(c) THEN F("data", 0) ELSE F("dash", p)
        ELSE F("data", p)
Copy(p) == [c \in Cols |-> CopyOf(c, p)]

\* Mutation of PushRows: the copies are pointers to the bindings, which hold
\* the last row when they are read.
PushRowsAliased(s, k) ==
    [s EXCEPT !.resultSetInC = @ \o [i \in 1..k |-> Copy(s.pos + k)]]

\* fetchData() copies rows pos+1 .. pos+k.
PushRows(s, k) ==
    [s EXCEPT !.resultSetInC = @ \o [i \in 1..k |-> Copy(s.pos + i)]]

\* The loop of fetchData(): k rows, then the code that ends it.
FetchData(s, k, rc) ==
    LET s1 == PushRows(s, k)
        s2 == IF k = 0 THEN s1 ELSE OnRow(s1, s.pos + k)
    IN  IF rc = "no_data" THEN [s2 EXCEPT !.pos = NRows + 1] ELSE s2

Left(s) == IF s.pos >= NRows THEN 0 ELSE NRows - s.pos
FetchEnds(s) ==
    IF ~s.open THEN {[got |-> 0, rc |-> "error"]}
    ELSE {[got |-> Left(s), rc |-> "no_data"]} \cup
         (IF "fetch" \in Faults THEN [got : 0..Left(s), rc : {"error"}] ELSE {})

\* asNumber and the type of column c ask for a JavaScript number.
AsksNumber(s, c) ==
    /\ s.asNumber
    /\ \/ Layout[c].sqlType \in NumberTypes
       \/ Layout[c].sqlType \in ExactTypes /\ Layout[c].colPrecise <= 15

\* buildJsObject() on the copy f of a field of column c.
BuildValue(s, c, f) ==
    CASE f.kind = "null"  -> NullValue
      [] f.kind = "empty" -> V("empty", 0)
      [] f.kind = "dash"  -> V(IF AsksNumber(s, c) THEN "nan" ELSE "dash", f.row)
      [] OTHER            -> V(CASE IsBinary(c)      -> "buffer"
                                 [] IsBool(c)        -> "boolean"
                                 [] AsksNumber(s, c) -> "number"
                                 [] OTHER            -> "string", f.row)

\* A copied "-" has the length SQL_NTS, which is negative, and the array of
\* that length made for a Buffer ends the process: the addon is built without
\* exceptions.
Aborts(s) ==
    \E i \in DOMAIN s.resultSetInC, c \in Cols :
        IsBinary(c) /\ s.resultSetInC[i][c].kind = "dash"

BuiltRows(s) == [i \in DOMAIN s.resultSetInC |->
                    [c \in Cols |-> BuildValue(s, c, s.resultSetInC[i][c])]]
BuildJsObject(s) == [s EXCEPT !.resultSetInC = <<>>]

-----------------------------------------------------------------------------
(* Replies *)

Answer(op, kind, rc, rows, ask, from) ==
    [op |-> op, kind |-> kind, rc |-> rc, rows |-> rows, ask |-> ask, from |-> from]
Done(op)   == Answer(op, "value", "success", <<>>, Plain, 0)
Failed(op) == Answer(op, "error", "error", <<>>, Plain, 0)
Aborted(op) == Answer(op, "aborted", "error", <<>>, Plain, 0)

\* A Buffer of fetch is good until the next call that fetches, executes or
\* closes the statement; one of fetchAll is good for ever.
Forget == kept' = {b \in kept : b.by = "fetchAll"}

BuffersIn(by, rows) ==
    {[by |-> by, col |-> f[2], row |-> rows[f[1]][f[2]].row, mem |-> rows[f[1]][f[2]].mem] :
        f \in {g \in (DOMAIN rows) \X Cols : rows[g[1]][g[2]].mem # 0}}

\* The client is handed rows.
Hand(by, answer) ==
    /\ reply' = answer
    /\ kept' = {b \in kept : b.by = "fetchAll"} \cup BuffersIn(by, answer.rows)

-----------------------------------------------------------------------------
(* Methods *)

\* The client makes one call that moves the cursor at a time, and fetches from
\* a result set only if the execution that opened it did not throw.
Running == reply.kind # "aborted"
Waits   == Running /\ call.pc = "idle" /\ stmt.stmtAllocated
Usable  == Waits /\ stmt.bindingRowAllocated
RoomLeft == Len(stmt.resultSetInC) <= MaxLeft

Fails(fault) == IF fault \in Faults THEN BOOLEAN ELSE {FALSE}

\* executeSync of the prepared query; it throws when a cursor is open.
ExecuteSync ==
    /\ Waits /\ stmt.gen < MaxBinds
    /\ Forget /\ UNCHANGED call
    /\ IF stmt.open THEN UNCHANGED stmt /\ reply' = Failed("executeSync")
       ELSE \E k \in {0} \cup (IF "bind" \in Faults THEN Cols ELSE {}) :
            /\ stmt' = BindColData([stmt EXCEPT !.open = TRUE, !.pos = 0], k)
            /\ reply' = IF k = 0 THEN Done("executeSync") ELSE Failed("executeSync")

\* After a failing SQLFetchScroll an exception is pending, and the row is
\* fetched all the same.  The code goes to the callback only.
FetchSync(ask) ==
    /\ Usable /\ UNCHANGED call
    /\ \E scrollFails \in Fails("scroll"), fetchFails \in Fails("fetch") :
       LET bad == Scrolls(stmt, ask) /\ ScrollFails(stmt, scrollFails)
           s1  == IF Scrolls(stmt, ask) /\ ~bad THEN SQLFetchScroll(stmt, ask) ELSE stmt
           rc  == FetchRc(s1, fetchFails)
           s2  == SQLFetch(s1, fetchFails)
       IN  /\ stmt' = s2
           /\ IF bad \/ rc = "error" \/ RowThrows(s2)
              THEN Forget /\ reply' = Failed("fetchSync")
              ELSE Hand("fetch", Answer("fetchSync", "value", rc, <<FetchedRow(s2)>>,
                                        ask, stmt.pos))

Queue(op, ask) ==
    /\ Usable /\ Forget
    /\ call' = [NoCall EXCEPT !.op = op, !.pc = "queued", !.ask = ask, !.from = stmt.pos]
    /\ reply' = Answer(op, "accepted", "success", <<>>, ask, stmt.pos)
    /\ UNCHANGED stmt

Fetch(ask) == Queue("fetch", ask)
FetchAll   == RoomLeft /\ Queue("fetchAll", Plain)

Worker(pc, rc, s) ==
    /\ call' = [call EXCEPT !.pc = pc, !.rc = rc]
    /\ stmt' = s
    /\ UNCHANGED <<reply, kept>>

\* Mutation of FetchWorkerScrolls: SQLFetch is for calls without an
\* orientation, whatever the cursor.
FetchWorkerScrollsOnly ==
    /\ call.op = "fetch" /\ call.pc = "queued"
    /\ IF call.ask = Plain THEN Worker("scrolled", "success", stmt)
       ELSE IF ~stmt.scrollable THEN Worker("done", "success", stmt)
       ELSE \E fails \in Fails("scroll") :
            IF ScrollFails(stmt, fails) THEN Worker("done", "error", stmt)
            ELSE Worker("done", "success", SQLFetchScroll(stmt, call.ask))

FetchWorkerScrolls ==
    /\ call.op = "fetch" /\ call.pc = "queued"
    /\ IF ~Scrolls(stmt, call.ask) THEN Worker("scrolled", "success", stmt)
       ELSE \E fails \in Fails("scroll") :
            IF ScrollFails(stmt, fails) THEN Worker("done", "error", stmt)
            ELSE Worker("scrolled", "success", SQLFetchScroll(stmt, call.ask))

FetchWorkerFetches ==
    /\ call.op = "fetch" /\ call.pc = "scrolled"
    /\ \E fails \in Fails("fetch") :
       Worker("done", FetchRc(stmt, fails), SQLFetch(stmt, fails))

FetchAllWorker ==
    /\ call.op = "fetchAll" /\ call.pc = "queued"
    /\ \E end \in FetchEnds(stmt) :
       Worker("done", end.rc, FetchData(stmt, end.got, end.rc))

\* OnOK and OnError of fetch: a row that throws gets no callback.
FetchDone ==
    /\ call.op = "fetch" /\ call.pc = "done" /\ call' = NoCall
    /\ UNCHANGED stmt
    /\ IF call.rc # "error" /\ ~RowThrows(stmt)
       THEN Hand("fetch", Answer("fetch", "value", call.rc, <<FetchedRow(stmt)>>,
                                 call.ask, call.from))
       ELSE /\ reply' = [Failed("fetch") EXCEPT
                            !.kind = IF call.rc = "error" THEN "error" ELSE "uncaught"]
            /\ UNCHANGED kept

FetchAllDone ==
    /\ call.op = "fetchAll" /\ call.pc = "done" /\ call' = NoCall
    /\ IF call.rc = "error" \/ Aborts(stmt)
       THEN /\ reply' = IF call.rc = "error" THEN Failed("fetchAll") ELSE Aborted("fetchAll")
            /\ UNCHANGED <<stmt, kept>>
       ELSE /\ stmt' = BuildJsObject(stmt)
            /\ Hand("fetchAll", Answer("fetchAll", "value", "success", BuiltRows(stmt),
                                       Plain, call.from))

\* With a callback, a failure leaves the rows for the next call; without one
\* they are built into an array nobody gets.
FetchAllSync(cb) ==
    /\ Usable /\ RoomLeft /\ UNCHANGED call
    /\ \E end \in FetchEnds(stmt) :
       LET s1 == FetchData(stmt, end.got, end.rc)
           error == end.rc = "error"
       IN  IF error /\ cb
           THEN stmt' = s1 /\ Forget /\ reply' = Failed("fetchAll")
           ELSE IF Aborts(s1)
           THEN stmt' = s1 /\ Forget /\ reply' = Aborted("fetchAll")
           ELSE /\ stmt' = BuildJsObject(s1)
                /\ IF error THEN Forget /\ reply' = Failed("fetchAll")
                   ELSE Hand("fetchAll", Answer("fetchAll", "value", "success",
                                                BuiltRows(s1), Plain, stmt.pos))

\* Mutation of CloseCursor: the binding row goes as well.
CloseCursorFrees ==
    /\ Waits /\ UNCHANGED <<call, kept>>
    /\ stmt' = [(IF stmt.bindingRowAllocated THEN FreeBindingRow(stmt) ELSE stmt)
                    EXCEPT !.open = FALSE]
    /\ reply' = Done("closeCursor")

CloseCursor ==
    /\ Waits /\ stmt' = [stmt EXCEPT !.open = FALSE]
    /\ reply' = Done("closeCursor")
    /\ UNCHANGED <<call, kept>>

Close ==
    /\ Waits /\ Forget
    /\ LET s1 == IF stmt.bindingRowAllocated THEN FreeBindingRow(stmt) ELSE stmt
       IN  stmt' = [s1 EXCEPT !.stmtAllocated = FALSE, !.open = FALSE]
    /\ reply' = Done("close") /\ UNCHANGED call

AsNumber(flag) ==
    /\ Running
    /\ stmt' = [stmt EXCEPT !.asNumber = flag]
    /\ reply' = Done("asNumber")
    /\ UNCHANGED <<call, kept>>

\* SQL_ATTR_CURSOR_SCROLLABLE, or a dynamic SQL_ATTR_CURSOR_TYPE; the CLI
\* refuses it while the cursor is open.
SetStmtAttr(scrollable) ==
    /\ Running
    /\ IF stmt.stmtAllocated /\ ~stmt.open
       THEN /\ stmt' = [stmt EXCEPT !.scrollable = scrollable]
            /\ reply' = Done("setStmtAttr")
       ELSE UNCHANGED stmt /\ reply' = Failed("setStmtAttr")
    /\ UNCHANGED <<call, kept>>

-----------------------------------------------------------------------------

\* A query just prepared.
Init ==
    /\ stmt = [stmtAllocated |-> TRUE, asNumber |-> FALSE,
               bindingRowAllocated |-> FALSE, gen |-> 0,
               buffer |-> [g \in 1..MaxBinds |-> 0], heap |-> {},
               indicator |-> 0, resultSetInC |-> <<>>,
               scrollable |-> FALSE, open |-> FALSE, pos |-> 0]
    /\ call = NoCall
    /\ reply = Answer("none", "none", "success", <<>>, Plain, 0)
    /\ kept = {}

MainStep ==
    \/ ExecuteSync \/ FetchAll \/ CloseCursor \/ Close
    \/ \E ask \in Positions \cup {Plain} : FetchSync(ask) \/ Fetch(ask)
    \/ \E flag \in BOOLEAN : FetchAllSync(flag) \/ AsNumber(flag) \/ SetStmtAttr(flag)

WorkerStep == FetchWorkerScrolls \/ FetchWorkerFetches \/ FetchAllWorker
CallbackStep == FetchDone \/ FetchAllDone

Next == MainStep \/ WorkerStep \/ CallbackStep

Spec == Init /\ [][Next]_vars

-----------------------------------------------------------------------------
(* Properties *)

\* What a value of row p and column c may be, however it was fetched: of that
\* row, and made up only where the row has no value.
MadeUp(c) ==
    (IF IsClob(c) THEN {"empty"} ELSE {}) \cup (IF IsBool(c) THEN {"boolean"} ELSE {})
ValueOf(v, c, p) ==
    CASE <<p, c>> \in Null -> v.type = "null" \/ (IsClob(c) /\ v.type = "empty")
      [] <<p, c>> \in Bad  -> v.type \in {"dash", "nan"} \cup MadeUp(c)
      [] OTHER             -> v.row = p /\ v.type \notin {"null", "empty", "dash", "nan"}
RowOf(row, p) == \A c \in Cols : ValueOf(row[c], c, p)

\* fetchAll hands over the rows from the cursor to the end, each with the
\* values of that one row, behind whole rows that a failed fetchAll had left:
\* the lengths are in dbColumn and the data in the bindings, both of which
\* every SQLFetch overwrites while resultSetInC grows (dbstmt.cc:2386-2550).
RowsWhole ==
    reply.op = "fetchAll" /\ reply.kind = "value" =>
        LET n == Len(reply.rows)
            new == IF reply.from >= NRows THEN 0 ELSE NRows - reply.from
        IN  /\ n >= new
            /\ \A i \in 1..new : RowOf(reply.rows[n - new + i], reply.from + i)
            /\ \A i \in 1..(n - new) : \E p \in 1..NRows : RowOf(reply.rows[i], p)

\* A fetch without an orientation, or on a cursor that does not scroll, hands
\* over the row behind the last one the cursor was on, whole, or says that
\* there is none, whatever fetches, errors and scrolls came before and whichever
\* attributes are set while it runs (dbstmt.cc:1294-1330, 1452-1500).
AdvancesToNext ==
    /\ reply.op \in {"fetch", "fetchSync"} /\ reply.kind = "value"
    /\ reply.ask = Plain \/ ~stmt.scrollable
    => IF reply.from < NRows
       THEN reply.rc # "no_data" /\ RowOf(reply.rows[1], reply.from + 1)
       ELSE reply.rc = "no_data"

\* "Or positions the cursor based on the requested orientation and then
\* retrieves any bound columns" (docs/README.md:1125): a fetch with an
\* orientation on a scrollable cursor hands over the row the orientation names.
\* The code calls SQLFetch behind SQLFetchScroll (dbstmt.cc:1304-1321).
FetchesNamedRow ==
    /\ reply.op \in {"fetch", "fetchSync"} /\ reply.kind = "value"
    /\ reply.ask # Plain /\ stmt.scrollable
    => LET p == Target(reply.ask, reply.from)
       IN  p \in 1..NRows => RowOf(reply.rows[1], p)

\* fetch, from the bindings, hands over what fetchAll would for that field, from
\* its copy; a BOOLEAN once was a string in fetch alone (dbstmt.cc:2921-2926).
\* They do differ where asNumber asks for a number, for a CLOB, and where a
\* BOOLEAN or a Buffer has an inconsistent length, which fetch looks at before
\* the type of the column and fetchAll after it (dbstmt.cc:2400-2455, 2908-2911).
DoesDiffer(c, p) == IsClob(c) \/ (<<p, c>> \in Bad /\ (IsBool(c) \/ IsBinary(c)))
SameEitherWay ==
    reply.op \in {"fetch", "fetchSync"} =>
        \A i \in DOMAIN reply.rows, c \in Cols :
            LET v == reply.rows[i][c]
            IN  v.row # 0 /\ ~DoesDiffer(c, v.row) =>
                    v.type = BuildValue([stmt EXCEPT !.asNumber = FALSE], c,
                                        CopyOf(c, v.row)).type

\* A Buffer keeps its content as long as the client may read it: that of
\* fetchAll for ever, and that of fetch, which is a column's own buffer, until
\* the next fetch, execution or close, also after closeCursor and a change of
\* attributes (dbstmt.cc:2488-2495, 2917-2919).
BuffersHold ==
    \A b \in kept :
        <<b.mem, b.col>> \in stmt.heap /\ stmt.buffer[b.mem] = b.row

\* No buffer of a binding row that was given up is lost, through executions
\* that fail half way as well, except behind a CLOB column, whose missing
\* buffer ends the loop of freeBindingRow() (dbstmt.cc:2560-2566).
LeaksOnlyAfterClob ==
    \A cell \in stmt.heap :
        \/ stmt.bindingRowAllocated /\ cell[1] = stmt.gen
        \/ \E d \in Cols : d < cell[2] /\ IsClob(d)
=============================================================================
