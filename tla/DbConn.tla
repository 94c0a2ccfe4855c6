------------------------------- MODULE DbConn -------------------------------
(***************************************************************************)
(* Connection objects and the transactions of their statements:            *)
(* src/src/db2ia/dbconn.cc, the constructor, Commit, Rollback and Close of *)
(* src/src/db2ia/dbstmt.cc, and InitAll of src/src/db2ia/db2ia.cc, which   *)
(* allocates the environment handle all connections come from.             *)
(*                                                                         *)
(* A DbConn object owns a CLI connection handle; a DbStmt copies the raw   *)
(* handle when it is constructed and keeps it (dbstmt.cc:32).  Handles are *)
(* small numbers that the CLI may give out again once they are freed.      *)
(***************************************************************************)
EXTENDS Integers, FiniteSets

CONSTANTS
    Conns,      \* DbConn objects
    Stmts,      \* DbStmt objects
    Handles,    \* CLI connection handles
    NoConn,     \* "no connection object"
    NoHandle,   \* "no handle"
    Works,      \* changes to the database, each made by one statement
    Faults,     \* CLI functions that may fail: "alloc", "connect", "end", ...
    Habits      \* what the client does although it should not

CLIFaults == {"env", "alloc", "connect", "attr", "end", "disconnect", "free",
              "allocstmt", "drop"}

\* "retry": goes on using a connection object whose conn() threw an error;
\* "stale": goes on using a statement after its connection was disconnected
\* or closed.
ClientHabits == {"retry", "stale"}

ASSUME ConnAssumption ==
    /\ NoConn \notin Conns /\ NoHandle \notin Handles
    /\ Faults \subseteq CLIFaults /\ Habits \subseteq ClientHabits

VARIABLES
    conn,       \* conn[o]: the members of DbConn object o
    stm,        \* stm[s]: the members of DbStmt object s
    dbc,        \* dbc[h]: the CLI connection handle h
    work,       \* work[w]: what became of change w, and who made it
    failed,     \* history: objects whose conn() threw
    envh,       \* the environment handle of the module
    ending,     \* the disconn() or close() the main thread is inside of
    reply       \* the outcome of the last method, and the fault behind it

vars == <<conn, stm, dbc, work, failed, envh, ending, reply>>

-----------------------------------------------------------------------------

Conn == [made : BOOLEAN, connAllocated : BOOLEAN, connected : BOOLEAN,
         connh : Handles \cup {NoHandle}]
Stm  == [made : BOOLEAN, stmtAllocated : BOOLEAN, myDbConn : Conns \cup {NoConn},
         connh : Handles \cup {NoHandle}, stale : BOOLEAN]
Dbc  == [live : BOOLEAN, session : BOOLEAN, autocommit : BOOLEAN]
Work == [state : {"new", "pending", "committed", "undone"},
         by : Conns \cup {NoConn}, at : Handles \cup {NoHandle},
         endedBy : Conns \cup {NoConn}]
Reply == [op : {"none", "new", "conn", "disconn", "close", "attr", "getAttr",
                "validStmt", "flag", "stmt", "exec", "commit", "rollback",
                "closeStmt"},
          result : {"value", "error"}, fault : Faults \cup {"none", "worker"}]

\* raced: a worker made a change on the connection meanwhile.
Ending == [on : Conns \cup {NoConn}, op : {"none", "disconn", "close"},
           fault : Faults \cup {"none"}, raced : BOOLEAN]
NoEnding == [on |-> NoConn, op |-> "none", fault |-> "none", raced |-> FALSE]

Types ==
    /\ conn \in [Conns -> Conn]
    /\ stm \in [Stmts -> Stm]
    /\ dbc \in [Handles -> Dbc]
    /\ work \in [Works -> Work]
    /\ failed \subseteq Conns
    /\ envh \in {"none", "live", "freed"}
    /\ ending \in Ending
    /\ reply \in Reply

\* The variables are of their types, and the two flags of a connection object
\* agree: one that is connected has a handle to disconnect and to free, whatever
\* fails on the way and whatever the client does (dbconn.h:40-41;
\* dbconn.cc:33-51, 191-344).
TypeOK == Types /\ \A o \in Conns : conn[o].connected => conn[o].connAllocated

NoDbConn == [made |-> FALSE, connAllocated |-> FALSE, connected |-> FALSE,
             connh |-> NoHandle]
NoDbStmt == [made |-> FALSE, stmtAllocated |-> FALSE, myDbConn |-> NoConn,
             connh |-> NoHandle, stale |-> FALSE]
Freed    == [live |-> FALSE, session |-> FALSE, autocommit |-> TRUE]

Init ==
    /\ conn = [o \in Conns |-> NoDbConn]
    /\ stm = [s \in Stmts |-> NoDbStmt]
    /\ dbc = [h \in Handles |-> Freed]
    /\ work = [w \in Works |-> [state |-> "new", by |-> NoConn, at |-> NoHandle,
                             endedBy |-> NoConn]]
    /\ failed = {} /\ envh = "none" /\ ending = NoEnding
    /\ reply = [op |-> "none", result |-> "value", fault |-> "none"]

-----------------------------------------------------------------------------
(* The CLI *)

Fault(fs) == {"none"} \cup (Faults \cap fs)

Says(op, result, f) == reply' = [op |-> op, result |-> result, fault |-> f]
Value(op)    == Says(op, "value", "none")
Error(op, f) == Says(op, "error", f)

Live(h)    == h \in Handles /\ dbc[h].live
Session(h) == Live(h) /\ dbc[h].session
PendingAt(h) == {w \in Works : work[w].state = "pending" /\ work[w].at = h}

\* work after object o (or a statement of o) ended the unit of work of handle
\* h in state st.
Settled(h, st, o) ==
    [w \in Works |-> IF w \in PendingAt(h)
                     THEN [work[w] EXCEPT !.state = st, !.endedBy = o]
                     ELSE work[w]]

-----------------------------------------------------------------------------
(* Loading the module *)

\* A failed SQLAllocEnv is only printed; the classes are exported all the same,
\* with a handle that was freed again.
InitAll ==
    /\ envh = "none"
    /\ \E f \in Fault({"env"}) : envh' = IF f = "none" THEN "live" ELSE "freed"
    /\ UNCHANGED <<conn, stm, dbc, work, failed, reply, ending>>

-----------------------------------------------------------------------------
(* Connection objects *)

\* The main thread runs one method at a time.
MainFree == ending = NoEnding

\* The client leaves an object alone once its conn() threw.
Usable(o) == MainFree /\ conn[o].made /\ ("retry" \in Habits \/ o \notin failed)

\* Mutation of New: connAllocated is set whatever SQLAllocConnect says.
NewUnchecked(o) ==
    /\ MainFree /\ envh # "none" /\ ~conn[o].made
    /\ \E f \in Fault({"alloc"}) :
       \/ /\ f = "alloc" \/ envh # "live" \/ \A h \in Handles : dbc[h].live
          /\ conn' = [conn EXCEPT ![o].made = TRUE, ![o].connAllocated = TRUE]
          /\ UNCHANGED dbc
       \/ /\ f = "none" /\ envh = "live"
          /\ \E h \in Handles :
             /\ ~dbc[h].live
             /\ conn' = [conn EXCEPT ![o] = [made |-> TRUE, connAllocated |-> TRUE,
                                             connected |-> FALSE, connh |-> h]]
             /\ dbc' = [dbc EXCEPT ![h] = [Freed EXCEPT !.live = TRUE]]
    /\ Value("new")
    /\ UNCHANGED <<stm, work, failed, envh, ending>>

\* A constructor that gets no handle only logs it.
New(o) ==
    /\ MainFree /\ envh # "none" /\ ~conn[o].made
    /\ \E f \in Fault({"alloc"}) :
       \/ /\ f = "alloc" \/ envh # "live" \/ \A h \in Handles : dbc[h].live
          /\ conn' = [conn EXCEPT ![o].made = TRUE]
          /\ UNCHANGED dbc
       \/ /\ f = "none" /\ envh = "live"
          /\ \E h \in Handles :
             /\ ~dbc[h].live
             /\ conn' = [conn EXCEPT ![o] = [made |-> TRUE, connAllocated |-> TRUE,
                                             connected |-> FALSE, connh |-> h]]
             /\ dbc' = [dbc EXCEPT ![h] = [Freed EXCEPT !.live = TRUE]]
    /\ Value("new")
    /\ UNCHANGED <<stm, work, failed, envh, ending>>

\* conn() on a connected object, or on one without a handle, returns without
\* a word.
ConnIgnored(o) ==
    /\ Usable(o) /\ (conn[o].connected \/ ~conn[o].connAllocated)
    /\ Value("conn")
    /\ UNCHANGED <<conn, stm, dbc, work, failed, envh, ending>>

\* Arguments of the wrong number or type: an exception, and no attempt.
ConnRejected(o) ==
    /\ Usable(o) /\ ~conn[o].connected /\ conn[o].connAllocated
    /\ Error("conn", "none")
    /\ UNCHANGED <<conn, stm, dbc, work, failed, envh, ending>>

ConnOk(o) ==
    /\ Usable(o) /\ ~conn[o].connected /\ conn[o].connAllocated
    /\ LET h == conn[o].connh
       IN  /\ Live(h) /\ ~Session(h)
           /\ dbc' = [dbc EXCEPT ![h].session = TRUE]
    /\ conn' = [conn EXCEPT ![o].connected = TRUE]
    /\ Value("conn")
    /\ UNCHANGED <<stm, work, failed, envh, ending>>

\* A failed SQLConnect frees the handle; connAllocated and connh stay.  A
\* handle with a session cannot be freed.
ConnError(o) ==
    /\ Usable(o) /\ ~conn[o].connected /\ conn[o].connAllocated
    /\ LET h == conn[o].connh
       IN  \E f \in Fault({"connect"}) :
           /\ f = "connect" \/ ~Live(h) \/ Session(h)
           /\ dbc' = IF Live(h) /\ ~Session(h) THEN [dbc EXCEPT ![h] = Freed]
                     ELSE dbc
           /\ Error("conn", f)
    /\ failed' = failed \cup {o}
    /\ UNCHANGED <<conn, stm, work, envh, ending>>

\* Mutation of RolledBack: the unit of work is left to the CLI.
NeverRolledBack(o, f) == work

\* The first half of Disconnect: the autocommit attribute is read (0 when it
\* cannot be), and work is rolled back unless it is on.
RolledBack(o, f) ==
    LET h == conn[o].connh
    IN  IF Session(h) /\ (f = "attr" \/ ~dbc[h].autocommit) /\ f # "end"
        THEN Settled(h, "undone", o) ELSE work

\* A worker may still use the connection until SQLDisconnect is called.
EndingBegins(o, op, fs) ==
    /\ \E f \in Fault(fs) :
       /\ work' = RolledBack(o, f)
       /\ ending' = [on |-> o, op |-> op, fault |-> f, raced |-> FALSE]
    /\ UNCHANGED <<conn, stm, dbc, failed, envh, reply>>

\* SQLDisconnect fails while a unit of work is pending.
SessionEnds ==
    LET h == conn[ending.on].connh
    IN  Session(h) /\ ending.fault # "disconnect" /\ PendingAt(h) = {}

Blame == IF ending.raced THEN "worker" ELSE ending.fault

\* The driver drops the statements of a session that ends; the DbStmt objects
\* do not learn of it.
StaleNow(h) ==
    [s \in Stmts |-> IF stm[s].made /\ stm[s].connh = h
                     THEN [stm[s] EXCEPT !.stale = TRUE] ELSE stm[s]]

Disconn(o) ==
    /\ Usable(o)
    /\ IF conn[o].connected
       THEN EndingBegins(o, "disconn", {"attr", "end", "disconnect"})
       ELSE Value("disconn") /\ UNCHANGED <<conn, stm, dbc, work, failed, envh, ending>>

\* Mutation of DisconnEnds: the code of SQLDisconnect is not looked at.
DisconnEndsAnyway ==
    /\ ending.op = "disconn"
    /\ LET o == ending.on
       IN  /\ conn' = [conn EXCEPT ![o].connected = FALSE]
           /\ dbc' = IF SessionEnds THEN [dbc EXCEPT ![conn[o].connh].session = FALSE]
                     ELSE dbc
           /\ stm' = IF SessionEnds THEN StaleNow(conn[o].connh) ELSE stm
    /\ Value("disconn") /\ ending' = NoEnding
    /\ UNCHANGED <<work, failed, envh>>

DisconnEnds ==
    /\ ending.op = "disconn"
    /\ LET o == ending.on
           h == conn[o].connh
       IN  IF SessionEnds
           THEN /\ dbc' = [dbc EXCEPT ![h].session = FALSE]
                /\ conn' = [conn EXCEPT ![o].connected = FALSE]
                /\ stm' = StaleNow(h)
                /\ Value("disconn")
           ELSE Error("disconn", Blame) /\ UNCHANGED <<conn, stm, dbc>>
    /\ ending' = NoEnding
    /\ UNCHANGED <<work, failed, envh>>

\* Mutation of Close: the handle is given up whatever state it is in.
CloseForgets(o) ==
    /\ Usable(o) /\ conn[o].connAllocated
    /\ conn' = [conn EXCEPT ![o].connAllocated = FALSE]
    /\ dbc' = [dbc EXCEPT ![conn[o].connh] = Freed]
    /\ Value("close")
    /\ UNCHANGED <<stm, work, failed, envh, ending>>

\* close() disconnects a connected object first.
Close(o) ==
    /\ Usable(o)
    /\ IF conn[o].connAllocated /\ conn[o].connected
       THEN EndingBegins(o, "close", {"attr", "end", "disconnect", "free"})
       ELSE /\ IF ~conn[o].connAllocated
               THEN Value("close") /\ UNCHANGED <<conn, dbc>>
               ELSE \E f \in Fault({"free"}) :
                    LET h == conn[o].connh
                    IN  IF Live(h) /\ ~Session(h) /\ f # "free"
                        THEN /\ conn' = [conn EXCEPT ![o].connAllocated = FALSE]
                             /\ dbc' = [dbc EXCEPT ![h] = Freed]
                             /\ Value("close")
                        ELSE Error("close", f) /\ UNCHANGED <<conn, dbc>>
            /\ UNCHANGED <<stm, work, failed, envh, ending>>

\* Mutation of CloseEnds: Close() disconnects by itself, and leaves connected as
\* it was.
CloseEndsStaysConnected ==
    /\ ending.op = "close"
    /\ LET o == ending.on
           h == conn[o].connh
       IN  IF ~SessionEnds
           THEN Error("close", Blame) /\ UNCHANGED <<conn, stm, dbc>>
           ELSE /\ stm' = StaleNow(h)
                /\ conn' = [conn EXCEPT ![o].connAllocated = FALSE]
                /\ dbc' = [dbc EXCEPT ![h] = Freed]
                /\ Value("close")
    /\ ending' = NoEnding
    /\ UNCHANGED <<work, failed, envh>>

\* What came of the disconnecting is ignored, and the handle is freed, which
\* the CLI refuses while it has a session.  An exception thrown by Disconnect
\* reaches the client all the same.
CloseEnds ==
    /\ ending.op = "close"
    /\ LET o == ending.on
           h == conn[o].connh
       IN  IF ~SessionEnds
           THEN Error("close", Blame) /\ UNCHANGED <<conn, stm, dbc>>
           ELSE /\ stm' = StaleNow(h)
                /\ IF ending.fault # "free"
                   THEN /\ conn' = [conn EXCEPT ![o].connected = FALSE,
                                               ![o].connAllocated = FALSE]
                        /\ dbc' = [dbc EXCEPT ![h] = Freed]
                        /\ Value("close")
                   ELSE /\ conn' = [conn EXCEPT ![o].connected = FALSE]
                        /\ dbc' = [dbc EXCEPT ![h].session = FALSE]
                        /\ Error("close", "free")
    /\ ending' = NoEnding
    /\ UNCHANGED <<work, failed, envh>>

\* Mutation of SetConnAttr: connAllocated is not checked.
SetConnAttrUnchecked(o, on) ==
    /\ Usable(o) /\ Live(conn[o].connh)
    /\ dbc' = [dbc EXCEPT ![conn[o].connh].autocommit = on]
    /\ work' = IF on THEN Settled(conn[o].connh, "committed", o) ELSE work
    /\ Value("attr")
    /\ UNCHANGED <<conn, stm, failed, envh, ending>>

\* setConnAttr(SQL_ATTR_AUTOCOMMIT, on); switching it on commits.
SetConnAttr(o, on) ==
    /\ Usable(o)
    /\ LET h == conn[o].connh
       IN  IF ~conn[o].connAllocated \/ ~Live(h)
           THEN Error("attr", "none") /\ UNCHANGED <<dbc, work>>
           ELSE /\ dbc' = [dbc EXCEPT ![h].autocommit = on]
                /\ work' = IF on THEN Settled(h, "committed", o) ELSE work
                /\ Value("attr")
    /\ UNCHANGED <<conn, stm, failed, envh, ending>>

\* Methods that ask the CLI or hand it a value, and change nothing here: an
\* error without a handle, or when the CLI refuses.
Asked(o, op) ==
    /\ Usable(o)
    /\ \/ conn[o].connAllocated /\ Live(conn[o].connh) /\ Value(op)
       \/ Error(op, "none")
    /\ UNCHANGED <<conn, stm, dbc, work, failed, envh, ending>>

\* setConnAttr of any other attribute, or when SQLSetConnectAttr fails.
SetOtherAttr(o) == Asked(o, "attr")
GetConnAttr(o)  == Asked(o, "getAttr")
ValidStmt(o)    == Asked(o, "validStmt")

\* isConnected() reads a flag; debug() sets the switch of the log, which no
\* other method but the log reads.
ReadFlag(o) ==
    /\ Usable(o) /\ Value("flag")
    /\ UNCHANGED <<conn, stm, dbc, work, failed, envh, ending>>
IsConnected(o) == ReadFlag(o)
Debug(o)       == ReadFlag(o)

-----------------------------------------------------------------------------
(* Statements, as far as they use the connection handle *)

UsableStmt(s) == stm[s].made /\ ("stale" \in Habits \/ ~stm[s].stale)

NewStmt(s, o) ==
    /\ ~stm[s].made /\ Usable(o)
    /\ \E f \in Fault({"allocstmt"}) :
       IF conn[o].connected /\ Session(conn[o].connh) /\ f = "none"
       THEN /\ stm' = [stm EXCEPT ![s] = [made |-> TRUE, stmtAllocated |-> TRUE,
                                          myDbConn |-> o, connh |-> conn[o].connh,
                                          stale |-> FALSE]]
            /\ Value("stmt")
       ELSE Error("stmt", f) /\ UNCHANGED stm
    /\ UNCHANGED <<conn, dbc, work, failed, envh, ending>>

\* An exec or execute that changes the database, perhaps in a worker while the
\* main thread is inside disconn() or close().  The CLI dropped the statement
\* handle if the session of s has ended.
ExecWork(s, w) ==
    /\ UsableStmt(s) /\ stm[s].stmtAllocated /\ ~stm[s].stale
    /\ Session(stm[s].connh) /\ work[w].state = "new"
    /\ work' = [work EXCEPT ![w] =
                  [state |-> IF dbc[stm[s].connh].autocommit THEN "committed" ELSE "pending",
                   by |-> stm[s].myDbConn, at |-> stm[s].connh,
                   endedBy |-> IF dbc[stm[s].connh].autocommit THEN stm[s].myDbConn
                               ELSE NoConn]]
    /\ Value("exec")
    /\ ending' = IF ~MainFree /\ stm[s].connh = conn[ending.on].connh
                 THEN [ending EXCEPT !.raced = TRUE] ELSE ending
    /\ UNCHANGED <<conn, stm, dbc, failed, envh>>

\* commit() and rollback() check the statement and pass on its copy of the
\* connection handle.
EndTransaction(s, op, st) ==
    /\ MainFree /\ UsableStmt(s)
    /\ \E f \in Fault({"end"}) :
       IF stm[s].stmtAllocated /\ Session(stm[s].connh) /\ f = "none"
       THEN /\ work' = Settled(stm[s].connh, st, stm[s].myDbConn)
            /\ Value(op)
       ELSE Error(op, f) /\ UNCHANGED work
    /\ UNCHANGED <<conn, stm, dbc, failed, envh, ending>>

Commit(s)   == EndTransaction(s, "commit", "committed")
Rollback(s) == EndTransaction(s, "rollback", "undone")

CloseStmt(s) ==
    /\ MainFree /\ UsableStmt(s) /\ stm[s].stmtAllocated
    /\ \E f \in Fault({"drop"}) :
       IF f = "none" /\ ~stm[s].stale
       THEN stm' = [stm EXCEPT ![s].stmtAllocated = FALSE] /\ Value("closeStmt")
       ELSE Error("closeStmt", f) /\ UNCHANGED stm
    /\ UNCHANGED <<conn, dbc, work, failed, envh, ending>>

-----------------------------------------------------------------------------

ConnStep(o) ==
    \/ New(o) \/ ConnIgnored(o) \/ ConnRejected(o) \/ ConnOk(o) \/ ConnError(o)
    \/ Disconn(o) \/ Close(o)
    \/ SetOtherAttr(o) \/ GetConnAttr(o) \/ ValidStmt(o)
    \/ IsConnected(o) \/ Debug(o)
    \/ \E on \in BOOLEAN : SetConnAttr(o, on)

StmtStep(s) ==
    \/ \E o \in Conns : NewStmt(s, o)
    \/ \E w \in Works : ExecWork(s, w)
    \/ Commit(s) \/ Rollback(s) \/ CloseStmt(s)

Next ==
    \/ InitAll \/ DisconnEnds \/ CloseEnds
    \/ \E o \in Conns : ConnStep(o)
    \/ \E s \in Stmts : StmtStep(s)

Spec == Init /\ [][Next]_vars

-----------------------------------------------------------------------------
(* Properties *)

\* The objects whose conn() did not throw.
Sound == Conns \ failed

\* An allocated object has a live handle, is connected exactly while the handle
\* has a session, and shares the handle with no other object.
AllocatedLive == \A o \in Sound : conn[o].connAllocated => Live(conn[o].connh)
ConnectedHasSession ==
    \A o \in Sound :
        conn[o].connected <=> conn[o].connAllocated /\ Session(conn[o].connh)
Exclusive ==
    \A o, p \in Sound :
        /\ conn[o].connAllocated /\ conn[p].connAllocated
        /\ conn[o].connh = conn[p].connh
        => o = p

\* Every live handle has an object that will free it.
NoLeak ==
    \A h \in Handles : dbc[h].live =>
        \E o \in Sound : conn[o].connAllocated /\ conn[o].connh = h

\* connAllocated and connected stand in for the state of the CLI handle, in
\* every object whose conn() did not throw, and no handle or session is lost,
\* whichever CLI calls of conn, disconn and close fail (dbconn.cc:33-51,
\* 191-344).
HandleOwned == AllocatedLive /\ ConnectedHasSession /\ Exclusive /\ NoLeak

\* A DbStmt keeps a copy of the connection handle (dbstmt.cc:32): as long as
\* its connection was not disconnected, the copy is the handle of the object it
\* was made from, and that object is connected.
CopyIsCurrent ==
    \A s \in Stmts : stm[s].made /\ ~stm[s].stale =>
        /\ stm[s].myDbConn \in Sound
        /\ conn[stm[s].myDbConn].connected
        /\ conn[stm[s].myDbConn].connh = stm[s].connh

\* A change waits for commit or rollback only while the connection it was made
\* on is connected, with autocommit off: no path through disconn, close or
\* setConnAttr leaves a unit of work behind, also when a worker makes a change
\* between the rollback and SQLDisconnect (dbconn.cc:73-115, 288-344).
PendingHasSession ==
    \A w \in Works : work[w].state = "pending" =>
        /\ Session(work[w].at) /\ ~dbc[work[w].at].autocommit
        /\ work[w].by \in Sound
        /\ conn[work[w].by].connected
        /\ conn[work[w].by].connh = work[w].at

\* "Commit all changes to the database that have been made on the connection"
\* (docs/README.md:1047): a change is committed or rolled back by its own
\* connection, never through a handle the CLI has given to another one.
EndedByOwner ==
    \A w \in Works : work[w].state \in {"committed", "undone"}
        => work[w].endedBy = work[w].by

\* disconn() and close() fail only because a CLI call did for its own reasons
\* or a worker changed the database under them: the rollback before
\* SQLDisconnect is made whenever the CLI would otherwise refuse
\* (dbconn.cc:297-308, 331-340).
EndingNeedsNoHelp ==
    reply.op \in {"disconn", "close"} /\ reply.result = "error"
        => reply.fault # "none"

\* "Any Connection Handler processing can not be allowed before this"
\* (dbconn.cc:47): connAllocated says that there is a handle to process.
AllocatedIsLive == \A o \in Conns : conn[o].connAllocated => Live(conn[o].connh)
=============================================================================
