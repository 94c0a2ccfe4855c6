----------------------------- MODULE StmtParams -----------------------------
(***************************************************************************)
(* The parameters of one statement object: bindParam, bindParameters,      *)
(* reset and what execute does with them (src/src/db2ia/dbstmt.cc).        *)
(*                                                                         *)
(* bindParams() allocates an array param, one entry and one buffer per     *)
(* parameter, and gives the CLI their addresses.  SQLExecute reads and     *)
(* writes the buffers, wherever they are by then; fetchSp() turns them     *)
(* into the outputs handed to JavaScript and frees them.  The result sets  *)
(* of a statement share nothing with this and are in DbStmt.               *)
(*                                                                         *)
(* bindParams() and fetchSp() always run on the main thread; SQLExecute    *)
(* runs on a pool thread for execute.                                      *)
(***************************************************************************)
EXTENDS Integers, Sequences, FiniteSets

CONSTANTS
    Queries,    \* the SQL statements of the client
    NoQuery,    \* "nothing prepared"
    Markers,    \* Markers[q]: the parameter markers of q
    MaxMarkers, \* the most markers a statement has
    Half,       \* an Int32 is a number from -Half to Half - 1
    OutInts,    \* the integers a procedure may set its outputs to
    Lists,      \* the parameter lists the client binds
    Calls,      \* identities of outstanding asynchronous calls
    Faults,     \* the CLI functions that may fail on a live handle
    MaxBinds,   \* bound: runs of bindParams()
    MaxExecs    \* bound: calls of SQLExecute

Directions == {"in", "out", "inout"}
CLIFaults  == {"describe", "bind", "exec", "no_data"}

\* Integers, strings (or numbers with a fraction, which are sent alike) and
\* Buffers.
Types  == {"int", "text", "data"}
Marker == [io : Directions, type : Types]

\* An entry of the client's list.  An array names direction and type of its
\* value; a bare value, as in the lists of bindParameters, says neither.
\* "bad" is an array whose direction or indicator is no number or no direction;
\* "half" one that is read up to its direction, because its value is undefined
\* or its indicator stands for nothing.  As a bare value, either is undefined.
Param == [kind : Types \cup {"null", "bad", "half"}, v : Int,
          io : Directions \cup {"unsaid"}]
Bare(p) == p.io = "unsaid"
StopsHalfway(p) == p.kind = "half" /\ ~Bare(p)

ASSUME ParamAssumption ==
    /\ NoQuery \notin Queries
    /\ MaxMarkers \in Nat
    /\ Markers \in [Queries -> Seq(Marker)]
    /\ \A q \in Queries : Len(Markers[q]) <= MaxMarkers
    /\ Lists \subseteq Seq(Param)
    /\ \A ps \in Lists : \A i \in DOMAIN ps : ps[i].kind = "int" \/ ps[i].v = 0
    /\ Half \in Nat \ {0} /\ OutInts \subseteq Int
    /\ Faults \subseteq CLIFaults
    /\ MaxBinds \in Nat /\ MaxExecs \in Nat

VARIABLES
    stmt,       \* the members of the object, its memory and its CLI handle
    calls,      \* calls[c]: the AsyncWorker of call c
    reply,      \* what the last call of execute handed to the client
    client,     \* history: what the client has bound, and how it behaves
    last,       \* history: the last execution
    given       \* history: the executions whose outputs each reply held

hist == <<client, last, given>>
vars == <<stmt, calls, reply, hist>>

-----------------------------------------------------------------------------
(* Types *)

\* What a buffer holds: an input of the n-th bindParams(), an output of the
\* n-th SQLExecute, both with their number v if they are integers,
\* SQL_NULL_DATA in the indicator, zeros, or whatever was there.
Value   == [kind : {"in", "out", "null", "blank", "garbage"}, n : Nat, v : Int]
In(n, v)  == [kind |-> "in", n |-> n, v |-> v]
Out(n, v) == [kind |-> "out", n |-> n, v |-> v]
Other(kind) == [kind |-> kind, n |-> 0, v |-> 0]
Null    == Other("null")
Blank   == Other("blank")
Garbage == Other("garbage")

\* An entry of param, "none" where bindParams() did not come and, as its type,
\* for a NULL.
Slot  == [io : Directions \cup {"none"}, type : Types \cup {"none"}, val : Value]
Empty == [io |-> "none", type |-> "none", val |-> Garbage]

\* Where a marker is bound: to the entry of the b-th param, 0 for nowhere.
Binding == [b : Nat, io : Directions \cup {"none"}]
Unbound == [b |-> 0, io |-> "none"]

\* param = NULL is at = 0, otherwise it is the array of the at-th bindParams();
\* paramCount is its length.
Stmt == [stmtAllocated : BOOLEAN, at : Nat, param : Seq(Slot),
         binds : Nat, freed : SUBSET Nat, misuse : SUBSET {"freed", "double"},
         live : BOOLEAN, prepared : Queries \cup {NoQuery},
         bound : [1..MaxMarkers -> Binding], execs : Nat]

Rcs == {"success", "no_data", "error", "invalid"}
Idle == [op |-> "none", pc |-> "idle", ps |-> <<>>, q |-> NoQuery,
         rc |-> "success", sets |-> Null, err |-> FALSE]
Call == [op : {"none", "bindParam", "bindParameters", "execute"},
         pc : {"idle", "queued", "cli", "done"},
         ps : Lists \cup {<<>>}, q : Queries \cup {NoQuery},
         rc : Rcs, sets : Value, err : BOOLEAN]

\* "pending" until the callback of execute; "value" comes with a null error.
Reply == [kind : {"none", "pending", "value", "error"}, outs : Seq(Value)]

\* What the client knows of its parameters from the answers it got: nothing
\* bound since the last execution, the whole of the list ps bound by the b-th
\* bindParams() for the statement now prepared, or something else.  careful:
\* so far it has kept to one call at a time, has executed only with its
\* parameters bound and has not executed on a closed object.  What a careless
\* client knows is of no interest, nor are its executions.
Client == [state : {"none", "fresh", "stale"}, b : Nat,
           ps : Lists \cup {<<>>}, careful : BOOLEAN]

\* An execution: its statement, the list the client had bound for it and the
\* bindParams() of that list, the values the CLI read, and what the procedure
\* sets its outputs to.
Execution == [q : Queries \cup {NoQuery}, b : Nat,
              ps : Lists \cup {<<>>}, read : Seq(Value), sets : Value]

TypeOK ==
    /\ stmt \in Stmt
    /\ calls \in [Calls -> Call]
    /\ reply \in Reply
    /\ client \in Client
    /\ last \in Execution
    /\ given \in Seq(SUBSET Nat)

-----------------------------------------------------------------------------
(* Binding *)

MarkersOf(q) == IF q = NoQuery THEN <<>> ELSE Markers[q]

\* Mutation of FreeSp: param keeps its value.
FreeSpKeepsPointer(s) ==
    IF s.at = 0 THEN s
    ELSE [s EXCEPT !.freed = @ \cup {s.at},
                   !.misuse = IF s.at \in s.freed THEN @ \cup {"double"} ELSE @]

FreeSp(s) ==
    IF s.at = 0 THEN s
    ELSE [s EXCEPT !.at = 0, !.param = <<>>, !.freed = @ \cup {s.at},
                   !.misuse = IF s.at \in s.freed THEN @ \cup {"double"} ELSE @]

\* The ways bindParams() may end: so many entries of param filled in, so many
\* parameters bound.  It stops where SQLDescribeParam has no such marker or
\* fails, at a bad parameter, halfway through one, or at a failing
\* SQLBindParameter.
BindEnds(s, ps) ==
    LET ok(i) == /\ s.live /\ i \in DOMAIN MarkersOf(s.prepared)
                 /\ ps[i].kind # "bad" \/ Bare(ps[i])
    IN  {end \in [bound : 0..Len(ps), filled : 0..Len(ps)] :
            /\ \A i \in 1..end.filled : ok(i)
            /\ \A i \in 1..end.bound : ~StopsHalfway(ps[i])
            /\ \/ /\ end.bound = end.filled
                  /\ \/ end.filled = Len(ps)
                     \/ ~ok(end.filled + 1)
                     \/ "describe" \in Faults
               \/ /\ end.bound = end.filled - 1
                  /\ "bind" \in Faults \/ StopsHalfway(ps[end.filled])}

\* Mutation of Int32Value: the sign is lost.
Uint32Value(v) == v % (2 * Half)

\* Every integer goes through it, also for a BIGINT marker, in both directions.
Int32Value(v) == ((v + Half) % (2 * Half)) - Half

\* A bare value is bound for input and output.
Io(p) == IF Bare(p) THEN "inout" ELSE p.io

\* An array has the type of its value, a bare value that of its marker.
TypeOf(p, m) ==
    IF p.kind = "null" \/ StopsHalfway(p) THEN "none"
    ELSE IF Bare(p) THEN m.type ELSE p.kind

\* The content of a new buffer.  A bare value of another type than its marker
\* is not looked at: the buffer of a string is calloc'ed, the others malloc'ed.
Sent(p, m, b) ==
    IF p.kind = "null" THEN Null
    ELSE IF StopsHalfway(p) THEN Garbage
    ELSE IF TypeOf(p, m) # p.kind THEN (IF m.type = "text" THEN Blank ELSE Garbage)
    ELSE IF p.kind = "int" THEN In(b, Int32Value(p.v))
    ELSE IF p.kind = "text" /\ p.io = "out" THEN Blank
    ELSE In(b, 0)

\* Mutation of Filled: object.Get(0), the value, is taken for the direction.
FilledFromValue(ms, ps, b, n) ==
    [i \in 1..Len(ps) |->
        IF i > n THEN Empty
        ELSE [io |-> ps[i].kind, type |-> TypeOf(ps[i], ms[i]), val |-> Sent(ps[i], ms[i], b)]]

Filled(ms, ps, b, n) ==
    [i \in 1..Len(ps) |->
        IF i > n THEN Empty
        ELSE [io |-> Io(ps[i]), type |-> TypeOf(ps[i], ms[i]), val |-> Sent(ps[i], ms[i], b)]]

\* The markers from the one that failed on keep the binding they had.
BindParams(s, ps, end) ==
    LET s1 == FreeSp(s)
        b  == s.binds + 1
    IN  [s1 EXCEPT
            !.binds = b, !.at = b,
            !.param = Filled(MarkersOf(s.prepared), ps, b, end.filled),
            !.bound = [i \in 1..MaxMarkers |->
                IF i <= end.bound THEN [b |-> b, io |-> Io(ps[i])] ELSE @[i]]]

-----------------------------------------------------------------------------
(* Executing *)

\* The CLI touches what is bound to the markers of q.
Touch(s, q) ==
    [s EXCEPT !.misuse =
        IF \E i \in DOMAIN MarkersOf(q) : s.bound[i].b \in s.freed
        THEN @ \cup {"freed"} ELSE @]

ReadValues(s, q) ==
    [i \in 1..Len(MarkersOf(q)) |->
        IF s.at # 0 /\ s.bound[i].b = s.at THEN s.param[i].val ELSE Garbage]

\* The ways SQLExecute may end.  An unbound marker is an error, a procedure
\* may set its outputs to NULL, and SQL_NO_DATA_FOUND is for an UPDATE or
\* DELETE that finds no row.
Ended(rc, sets) == [rc |-> rc, sets |-> sets]
NoOuts(ms) == \A i \in DOMAIN ms : ms[i].io = "in"
ExecEnds(s) ==
    LET ms   == MarkersOf(s.prepared)
        sets == {Null} \cup (IF NoOuts(ms) THEN {} ELSE {Out(s.execs + 1, v) : v \in OutInts})
    IN  IF ~s.live THEN {Ended("invalid", Null)}
        ELSE IF s.prepared = NoQuery \/ \E i \in DOMAIN ms : s.bound[i].b = 0
        THEN {Ended("error", Null)}
        ELSE {Ended("success", val) : val \in sets}
             \cup (IF "exec" \in Faults THEN {Ended("error", Null)} ELSE {})
             \cup (IF "no_data" \in Faults /\ NoOuts(ms) THEN {Ended("no_data", Null)} ELSE {})

Ran(rc) == rc \in {"success", "no_data"}

\* SQLExecute up to the moment it has read its inputs ...
ExecuteRead(s, rc) ==
    IF Ran(rc) THEN [Touch(s, s.prepared) EXCEPT !.execs = @ + 1]
    ELSE [s EXCEPT !.execs = @ + 1]

\* ... and when it writes its outputs, those of q.  A NULL has a buffer that
\* went out of scope, and only its indicator is kept.
ExecuteWrite(s, q, sets) ==
    LET ms == MarkersOf(q)
        written(i) == /\ i \in DOMAIN ms /\ ms[i].io # "in"
                      /\ s.bound[i].b = s.at /\ s.bound[i].io # "in"
        after(slot) == IF sets # Null /\ slot.type = "none" THEN Garbage ELSE sets
    IN  [Touch(s, q) EXCEPT
            !.param = [i \in 1..Len(s.param) |->
                IF written(i) THEN [s.param[i] EXCEPT !.val = after(s.param[i])] ELSE s.param[i]]]

\* param && paramCount > 0.
ParamsBound(s) == s.at # 0 /\ s.param # <<>>

HandedOver(slot) ==
    IF slot.type = "int" THEN [slot.val EXCEPT !.v = Int32Value(@)] ELSE slot.val

\* The value handed over for entry i is the j-th when i is the j-th of those
\* handed over.
Place(S, i) == Cardinality({k \in S : k <= i})
Values(s, S) == [j \in 1..Cardinality(S) |->
                    HandedOver(s.param[CHOOSE i \in S : Place(S, i) = j])]
Returned(s) == {i \in DOMAIN s.param : s.param[i].io # "in"}

\* Mutation of Outputs: NULLs are left out.
OutputsSkipNull(s) == Values(s, {i \in Returned(s) : s.param[i].val # Null})

\* What fetchSp() hands over.
Outputs(s) == Values(s, Returned(s))

\* Mutation of FetchSp: it frees nothing.
FetchSpKeeps(s) == s

\* Then it frees param.
FetchSp(s) == IF ParamsBound(s) THEN FreeSp(s) ELSE s

-----------------------------------------------------------------------------
(* Replies and the client *)

Answer(kind, outs) == [kind |-> kind, outs |-> outs]

ExecutionsIn(outs) == {outs[i].n : i \in {j \in DOMAIN outs : outs[j].kind = "out"}}

\* Executions are reported as errors, or with the outputs param holds.
ReportError(s) ==
    /\ stmt' = s /\ reply' = Answer("error", <<>>) /\ UNCHANGED given

ReportOutputs(s) ==
    LET outs == IF ParamsBound(s) THEN Outputs(s) ELSE <<>>
    IN  /\ stmt' = FetchSp(s)
        /\ reply' = Answer("value", outs)
        /\ given' = IF ExecutionsIn(outs) = {} THEN given
                    ELSE Append(given, ExecutionsIn(outs))

Outstanding == {c \in Calls : calls[c].pc # "idle"}
Alone == Outstanding = {}

Waiting(op) == {c \in Outstanding : calls[c].op = op /\ calls[c].pc = "queued"}
BindOps == {"bindParam", "bindParameters"}
BindsLeft == stmt.binds + Cardinality({c \in Outstanding : calls[c].op \in BindOps})
                < MaxBinds
ExecsLeft == stmt.execs + Cardinality(Waiting("execute")) < MaxExecs

\* A careful client executes with exactly the parameters it just bound.
ReadyToExecute ==
    /\ Alone /\ stmt.stmtAllocated
    /\ \/ client.state = "fresh"
       \/ client.state = "none" /\ MarkersOf(stmt.prepared) = <<>>

Knows(state, b, ps) == [state |-> state, b |-> b, ps |-> ps, careful |-> TRUE]
Careless == [Knows("stale", 0, <<>>) EXCEPT !.careful = FALSE]

Behaves(good) == IF client.careful /\ good THEN client ELSE Careless

\* What the client knows after bindParams() left s, having bound n of ps ...
AfterBind(cl, s, ps, n) ==
    IF ~cl.careful THEN Careless
    ELSE IF s.live /\ n = Len(ps) /\ n = Len(MarkersOf(s.prepared))
    THEN Knows("fresh", s.binds, ps) ELSE Knows("stale", 0, <<>>)

\* ... after an execution without an error ...
AfterExecute(cl) == IF cl.careful THEN Knows("none", 0, <<>>) ELSE Careless

\* ... and after prepare, reset and close.
Outdated(cl) == IF cl.state = "fresh" THEN Knows("stale", 0, <<>>) ELSE cl

\* History of an execution that the CLI starts now.
Started(s, cl, end) ==
    IF cl.careful /\ Ran(end.rc)
    THEN [q |-> s.prepared, b |-> cl.b, ps |-> cl.ps,
          read |-> ReadValues(s, s.prepared), sets |-> end.sets]
    ELSE last

-----------------------------------------------------------------------------
(* Synchronous methods.  A CHECK that fails throws and changes nothing: calls *)
(* on a closed object are left out where there is one.                        *)

\* The client uses bindParam for lists of arrays and bindParameters for lists of
\* bare values; the code makes no difference, bindParams() looks at each entry.
Arrays(ps) == \A i \in DOMAIN ps : ~Bare(ps[i])

BindSync(ps) ==
    /\ BindsLeft /\ stmt.stmtAllocated
    /\ \E end \in BindEnds(stmt, ps) :
       LET s1 == BindParams(stmt, ps, end)
       IN  stmt' = s1 /\ client' = AfterBind(Behaves(Alone), s1, ps, end.bound)
    /\ UNCHANGED <<calls, reply, last, given>>

BindParamSync(ps)      == Arrays(ps) /\ BindSync(ps)
BindParametersSync(ps) == ~Arrays(ps) /\ BindSync(ps)

\* Any code but success is an error here, SQL_NO_DATA_FOUND included.
ExecuteSync ==
    /\ ExecsLeft
    /\ \E end \in ExecEnds(stmt) :
       LET cl == Behaves(ReadyToExecute)
           s1 == ExecuteRead(stmt, end.rc)
       IN  /\ last' = Started(stmt, cl, end)
           /\ IF end.rc = "success"
              THEN /\ ReportOutputs(ExecuteWrite(s1, s1.prepared, end.sets))
                   /\ client' = AfterExecute(cl)
              ELSE ReportError(s1) /\ client' = cl
    /\ UNCHANGED calls

\* SQLPrepare may fail; the parameters stay bound either way.
Prepare(q) ==
    /\ stmt.stmtAllocated
    /\ \/ stmt' = [stmt EXCEPT !.prepared = q]
       \/ "exec" \in Faults /\ UNCHANGED stmt
    /\ client' = Outdated(Behaves(Alone))
    /\ UNCHANGED <<calls, reply, last, given>>

\* SQL_RESET_PARAMS: the CLI forgets the parameters, param does not.
Reset ==
    /\ stmt' = IF stmt.stmtAllocated
               THEN [stmt EXCEPT !.bound = [i \in 1..MaxMarkers |-> Unbound]]
               ELSE stmt
    /\ client' = Outdated(Behaves(Alone))
    /\ UNCHANGED <<calls, reply, last, given>>

\* close() leaves param alone; one that fails changes nothing here.
Close ==
    /\ stmt' = [stmt EXCEPT !.stmtAllocated = FALSE, !.live = FALSE,
                            !.prepared = NoQuery,
                            !.bound = [i \in 1..MaxMarkers |-> Unbound]]
    /\ client' = Outdated(Behaves(Alone))
    /\ UNCHANGED <<calls, reply, last, given>>

-----------------------------------------------------------------------------
(* Asynchronous methods and their workers *)

Queue(c, call) ==
    /\ calls[c].pc = "idle"
    /\ calls' = [calls EXCEPT ![c] = call]
    /\ UNCHANGED <<stmt, last, given>>

QueueBind(c, op, ps) ==
    /\ BindsLeft /\ stmt.stmtAllocated
    /\ Queue(c, [Idle EXCEPT !.op = op, !.pc = "queued", !.ps = ps])
    /\ client' = Behaves(Alone) /\ UNCHANGED reply

BindParam(c, ps)      == Arrays(ps) /\ QueueBind(c, "bindParam", ps)
BindParameters(c, ps) == ~Arrays(ps) /\ QueueBind(c, "bindParameters", ps)

Execute(c) ==
    /\ ExecsLeft
    /\ Queue(c, [Idle EXCEPT !.op = "execute", !.pc = "queued"])
    /\ client' = Behaves(ReadyToExecute)
    /\ reply' = Answer("pending", <<>>)

\* Neither worker does anything on its thread.
BindWorkerExec(c, op) ==
    /\ calls[c].op = op /\ calls[c].pc = "queued"
    /\ calls' = [calls EXCEPT ![c].pc = "done"]
    /\ UNCHANGED <<stmt, reply, hist>>

BindParamAsyncWorkerExec(c)      == BindWorkerExec(c, "bindParam")
BindParametersAsyncWorkerExec(c) == BindWorkerExec(c, "bindParameters")

\* bindParams() runs in OnOK, on the list given to the method.
BindOnOK(c, op) ==
    /\ calls[c].op = op /\ calls[c].pc = "done"
    /\ calls' = [calls EXCEPT ![c] = Idle]
    /\ LET ps == calls[c].ps IN \E end \in BindEnds(stmt, ps) :
       LET s1 == BindParams(stmt, ps, end)
       IN  stmt' = s1 /\ client' = AfterBind(client, s1, ps, end.bound)
    /\ UNCHANGED <<reply, last, given>>

BindParamOnOK(c)      == BindOnOK(c, "bindParam")
BindParametersOnOK(c) == BindOnOK(c, "bindParameters")

ExecuteStarts(c) ==
    /\ calls[c].op = "execute" /\ calls[c].pc = "queued"
    /\ \E end \in ExecEnds(stmt) :
       /\ stmt' = ExecuteRead(stmt, end.rc)
       /\ last' = Started(stmt, client, end)
       /\ calls' = [calls EXCEPT ![c].pc = "cli", ![c].q = stmt.prepared,
                                 ![c].rc = end.rc, ![c].sets = end.sets]
    /\ UNCHANGED <<reply, client, given>>

\* SQLExecute returns.  Without a handle there are no diagnostics, the message
\* may be empty, and node-addon-api takes that for success.
ExecuteReturns(c) ==
    LET call == calls[c]
    IN  /\ call.op = "execute" /\ call.pc = "cli"
        /\ stmt' = IF call.rc = "success" /\ stmt.live
                   THEN ExecuteWrite(stmt, call.q, call.sets) ELSE stmt
        /\ \E err \in IF Ran(call.rc) THEN {FALSE}
                      ELSE IF stmt.live THEN {TRUE} ELSE BOOLEAN :
           calls' = [calls EXCEPT ![c].pc = "done", ![c].err = err]
        /\ UNCHANGED <<reply, hist>>

\* Mutation of ExecuteOnError: it frees the parameters.
ExecuteOnErrorFrees(c) ==
    /\ calls[c].op = "execute" /\ calls[c].pc = "done" /\ calls[c].err
    /\ calls' = [calls EXCEPT ![c] = Idle]
    /\ ReportError(FreeSp(stmt))
    /\ UNCHANGED <<client, last>>

\* A failed execution leaves the parameters as they are.
ExecuteOnError(c) ==
    /\ calls[c].op = "execute" /\ calls[c].pc = "done" /\ calls[c].err
    /\ calls' = [calls EXCEPT ![c] = Idle]
    /\ ReportError(stmt)
    /\ UNCHANGED <<client, last>>

ExecuteOnOK(c) ==
    /\ calls[c].op = "execute" /\ calls[c].pc = "done" /\ ~calls[c].err
    /\ calls' = [calls EXCEPT ![c] = Idle]
    /\ ReportOutputs(stmt)
    /\ client' = AfterExecute(client)
    /\ UNCHANGED last

-----------------------------------------------------------------------------

\* A statement just constructed on a connected DbConn.
Init ==
    /\ stmt = [stmtAllocated |-> TRUE, at |-> 0, param |-> <<>>, binds |-> 0,
               freed |-> {}, misuse |-> {}, live |-> TRUE,
               prepared |-> NoQuery,
               bound |-> [i \in 1..MaxMarkers |-> Unbound], execs |-> 0]
    /\ calls = [c \in Calls |-> Idle]
    /\ reply = Answer("none", <<>>)
    /\ client = Knows("none", 0, <<>>)
    /\ last = [q |-> NoQuery, b |-> 0, ps |-> <<>>, read |-> <<>>, sets |-> Null]
    /\ given = <<>>

SyncCall ==
    \/ \E ps \in Lists : BindParamSync(ps) \/ BindParametersSync(ps)
    \/ \E q \in Queries : Prepare(q)
    \/ ExecuteSync
    \/ Reset
    \/ Close

AsyncCall(c) ==
    Execute(c) \/ \E ps \in Lists : BindParam(c, ps) \/ BindParameters(c, ps)

WorkerStep(c) ==
    \/ BindParamAsyncWorkerExec(c) \/ BindParametersAsyncWorkerExec(c)
    \/ ExecuteStarts(c) \/ ExecuteReturns(c)

Deliver(c) ==
    \/ BindParamOnOK(c) \/ BindParametersOnOK(c)
    \/ ExecuteOnOK(c) \/ ExecuteOnError(c)

Next == SyncCall \/ \E c \in Calls : AsyncCall(c) \/ WorkerStep(c) \/ Deliver(c)

Spec == Init /\ [][Next]_vars

-----------------------------------------------------------------------------
(* Properties *)

\* Whatever the client does, bindParams() and fetchSp() free each array of
\* parameters once, also after a bindParams() that failed half way
\* (dbstmt.cc:2568-2577).
FreedOnce == "double" \notin stmt.misuse

\* The CLI keeps the addresses of param and its buffers beyond bindParams()
\* and beyond fetchSp().  For a careful client no SQLExecute touches one that
\* was freed: not after a failed bindParams(), which leaves markers bound to
\* the freed array of an earlier one, nor when a failed execution is tried
\* again (dbstmt.cc:2579-2870).
BuffersLive == client.careful => "freed" \notin stmt.misuse

\* "The statement is processed with the current values of any application
\* variables that were bound to parameters markers by bindParam"
\* (docs/README.md:963), not with what freed memory holds.
NoFreedBufferRead == "freed" \notin stmt.misuse

\* For a careful client those values are the ones of the list it bound last,
\* in every execution, also of a statement bound again after an execution, a
\* reset, another prepare or a bindParams() that failed.  An integer is the
\* same if it fits in an Int32, and only a bare value of another type than its
\* marker may be lost (dbstmt.cc:2579-2870).
FitsInt32(v) == v \in -Half..(Half - 1)
UsesBoundValues ==
    client.careful =>
        \A i \in DOMAIN MarkersOf(last.q) :
            /\ i \in DOMAIN last.ps
            /\ LET p == last.ps[i]
                   misfit == Bare(p) /\ p.kind # Markers[last.q][i].type
               IN  p.io # "out" /\ FitsInt32(p.v) =>
                   \/ last.read[i] = IF p.kind = "null" THEN Null ELSE In(last.b, p.v)
                   \/ misfit /\ last.read[i] \in {Blank, Garbage}

\* What execute hands over: one value per parameter not bound for input only,
\* in order, as this execution set it, or as bound where it sets nothing;
\* nothing when no such parameter is bound (docs/README.md:970).
Expected == {i \in DOMAIN last.ps : last.ps[i].io # "in"}
ExpectedOutput(i) ==
    IF MarkersOf(last.q)[i].io # "in" THEN last.sets ELSE last.read[i]

\* A careful client gets the outputs of its own execution, whatever failed,
\* was bound, prepared or reset before, each integer that fits in an Int32 as
\* it is; only an output for which it bound NULL may be lost
\* (dbstmt.cc:1073-1092, 2872-2897).
OutputsOfExecution ==
    client.careful /\ reply.kind = "value" =>
        /\ Len(reply.outs) = Cardinality(Expected)
        /\ \A i \in Expected :
            LET out == reply.outs[Place(Expected, i)]
                exp == ExpectedOutput(i)
            IN  \/ out = exp
                \/ out = [exp EXCEPT !.v = out.v] /\ ~FitsInt32(exp.v)
                \/ out = Garbage /\ last.ps[i].kind = "null" /\ exp = last.sets

\* Whatever the client does and however executions overlap, the outputs of an
\* execution are handed over at most once.
OutputsOnce ==
    \A i, j \in DOMAIN given : i # j => given[i] \cap given[j] = {}
=============================================================================
