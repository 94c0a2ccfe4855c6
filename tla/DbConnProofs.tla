---------------------------- MODULE DbConnProofs ----------------------------
(***************************************************************************)
(* Proofs about DbConn, for any number of objects, statements, handles and *)
(* changes and any CLI faults.  The type invariant needs nothing of the    *)
(* client; the rest is about a client without the habits of ClientHabits.  *)
(***************************************************************************)
EXTENDS DbConn, TLAPS

-----------------------------------------------------------------------------
(* Types *)

LEMMA SettledType ==
    ASSUME Types, NEW h, NEW st \in {"committed", "undone"}, NEW o \in Conns \cup {NoConn}
    PROVE  Settled(h, st, o) \in [Works -> Work]
  BY DEF Types, Settled, PendingAt, Work

LEMMA RolledBackType ==
    ASSUME Types, NEW o \in Conns, NEW f
    PROVE  RolledBack(o, f) \in [Works -> Work]
  <1>1. Settled(conn[o].connh, "undone", o) \in [Works -> Work]
    BY SettledType
  <1>. QED BY <1>1 DEF RolledBack, Types

LEMMA StaleNowType ==
    ASSUME Types, NEW h
    PROVE  StaleNow(h) \in [Stmts -> Stm]
  BY DEF Types, StaleNow, Stm

LEMMA SaysType ==
    ASSUME NEW op \in {"none", "new", "conn", "disconn", "close", "attr", "stmt",
                       "exec", "commit", "rollback", "closeStmt"},
           NEW result \in {"value", "error"}, NEW f \in Faults \cup {"none", "worker"},
           Says(op, result, f)
    PROVE  reply' \in Reply
  BY DEF Says, Reply

\* The methods that change nothing but the reply.
Asks(o) ==
    \/ ConnRejected(o) \/ SetOtherAttr(o) \/ GetConnAttr(o) \/ ValidStmt(o)
    \/ IsConnected(o) \/ Debug(o)

LEMMA AsksChangesNothing ==
    ASSUME NEW o, Asks(o)
    PROVE  UNCHANGED <<conn, stm, dbc, work, failed, envh, ending>>
  BY DEF Asks, ConnRejected, SetOtherAttr, GetConnAttr, ValidStmt, Asked,
     IsConnected, Debug, ReadFlag

LEMMA AsksReply ==
    ASSUME NEW o, Asks(o)
    PROVE  reply' \in Reply /\ reply'.op \notin {"disconn", "close"}
  <1>1. \E op \in {"conn", "attr", "getAttr", "validStmt", "flag"} :
           Value(op) \/ Error(op, "none")
    BY DEF Asks, ConnRejected, SetOtherAttr, GetConnAttr, ValidStmt, Asked,
       IsConnected, Debug, ReadFlag
  <1>. QED  BY <1>1 DEF Value, Error, Says, Reply

LEMMA EndingBeginsType ==
    ASSUME Types, NEW o \in Conns, NEW op \in {"disconn", "close"}, NEW fs,
           EndingBegins(o, op, fs)
    PROVE  Types'
  <1>1. PICK f \in Fault(fs) :
          /\ work' = RolledBack(o, f)
          /\ ending' = [on |-> o, op |-> op, fault |-> f, raced |-> FALSE]
    BY DEF EndingBegins
  <1>2. work' \in [Works -> Work]
    BY <1>1, RolledBackType
  <1>3. ending' \in Ending
    BY <1>1 DEF Ending, Fault
  <1>. QED  BY <1>2, <1>3 DEF EndingBegins, Types

LEMMA TypeStep == Types /\ [Next]_vars => Types'
  <1>. SUFFICES ASSUME Types, [Next]_vars PROVE Types'
    OBVIOUS
  <1>. USE DEF Types
  <1>1. ASSUME NEW o \in Conns, New(o) PROVE Types'
    <2>1. reply' \in Reply  BY <1>1, SaysType DEF New, Value
    <2>2. conn' \in [Conns -> Conn]
      <3>1. \/ conn' = [conn EXCEPT ![o].made = TRUE]
            \/ \E h \in Handles :
                 conn' = [conn EXCEPT ![o] = [made |-> TRUE, connAllocated |-> TRUE,
                                              connected |-> FALSE, connh |-> h]]
        BY <1>1 DEF New
      <3>2. [conn EXCEPT ![o].made = TRUE] \in [Conns -> Conn]
        BY DEF Conn
      <3>3. ASSUME NEW h \in Handles
            PROVE  [conn EXCEPT ![o] = [made |-> TRUE, connAllocated |-> TRUE,
                                        connected |-> FALSE, connh |-> h]]
                     \in [Conns -> Conn]
        BY DEF Conn
      <3>. QED  BY <3>1, <3>2, <3>3
    <2>3. dbc' \in [Handles -> Dbc]  BY ZenonT(60), <1>1 DEF New, Dbc, Freed
    <2>. QED  BY <1>1, <2>1, <2>2, <2>3 DEF New
  <1>2. ASSUME NEW o \in Conns, ConnIgnored(o) PROVE Types'
    <2>1. reply' \in Reply  BY <1>2, SaysType DEF ConnIgnored, Value
    <2>. QED  BY <1>2, <2>1 DEF ConnIgnored
  <1>3. ASSUME NEW o \in Conns, ConnOk(o) PROVE Types'
    <2>1. reply' \in Reply  BY <1>3, SaysType DEF ConnOk, Value
    <2>2. conn' \in [Conns -> Conn]  BY <1>3 DEF ConnOk, Conn
    <2>3. dbc' \in [Handles -> Dbc]  BY <1>3 DEF ConnOk, Dbc
    <2>. QED  BY <1>3, <2>1, <2>2, <2>3 DEF ConnOk
  <1>4. ASSUME NEW o \in Conns, ConnError(o) PROVE Types'
    <2>1. reply' \in Reply  BY <1>4, SaysType DEF ConnError, Error, Fault
    <2>2. dbc' \in [Handles -> Dbc]  BY <1>4 DEF ConnError, Dbc, Freed, Live, Session
    <2>. QED  BY <1>4, <2>1, <2>2 DEF ConnError
  <1>5. ASSUME NEW o \in Conns, Disconn(o) PROVE Types'
    <2>1. CASE conn[o].connected
      BY <1>5, <2>1, EndingBeginsType DEF Disconn
    <2>2. CASE ~conn[o].connected
      <3>1. reply' \in Reply  BY <1>5, <2>2, SaysType DEF Disconn, Value
      <3>. QED  BY <1>5, <2>2, <3>1 DEF Disconn
    <2>. QED  BY <2>1, <2>2
  <1>6. ASSUME NEW o \in Conns, Close(o) PROVE Types'
    <2>1. CASE conn[o].connAllocated /\ conn[o].connected
      BY <1>6, <2>1, EndingBeginsType DEF Close
    <2>2. CASE ~(conn[o].connAllocated /\ conn[o].connected)
      <3>1. reply' \in Reply
        BY <1>6, <2>2, SaysType DEF Close, Value, Error, Fault
      <3>2. conn' = conn \/ conn' = [conn EXCEPT ![o].connAllocated = FALSE]
        BY <1>6, <2>2 DEF Close
      <3>3. [conn EXCEPT ![o].connAllocated = FALSE] \in [Conns -> Conn]
        BY DEF Conn
      <3>4. dbc' = dbc \/ dbc' = [dbc EXCEPT ![conn[o].connh] = Freed]
        BY <1>6, <2>2 DEF Close
      <3>5. [dbc EXCEPT ![conn[o].connh] = Freed] \in [Handles -> Dbc]
        BY DEF Dbc, Freed
      <3>6. UNCHANGED <<stm, work, failed, envh, ending>>
        BY <1>6, <2>2 DEF Close
      <3>. QED  BY <3>1, <3>2, <3>3, <3>4, <3>5, <3>6
    <2>. QED  BY <2>1, <2>2
  <1>e. NoEnding \in Ending /\ Blame \in Faults \cup {"none", "worker"}
    BY DEF NoEnding, Ending, Blame
  <1>15. CASE DisconnEnds
    <2>1. reply' \in Reply
      BY <1>15, <1>e, SaysType DEF DisconnEnds, Value, Error
    <2>2. stm' \in [Stmts -> Stm]
      BY <1>15, StaleNowType DEF DisconnEnds
    <2>3. conn' \in [Conns -> Conn]
      <3>1. conn' = conn \/ conn' = [conn EXCEPT ![ending.on].connected = FALSE]
        BY <1>15 DEF DisconnEnds
      <3>. QED  BY ZenonT(60), <3>1 DEF Conn
    <2>4. dbc' \in [Handles -> Dbc]
      <3>1. dbc' = dbc \/ dbc' = [dbc EXCEPT ![conn[ending.on].connh].session = FALSE]
        BY <1>15 DEF DisconnEnds
      <3>. QED  BY ZenonT(60), <3>1 DEF Dbc
    <2>. QED  BY <1>15, <1>e, <2>1, <2>2, <2>3, <2>4 DEF DisconnEnds
  <1>16. CASE CloseEnds
    <2>1. reply' \in Reply
      <3>1. Value("close") \/ Error("close", Blame)
            \/ (ending.fault = "free" /\ Error("close", "free"))
        BY <1>16 DEF CloseEnds
      <3>2. ending.fault \in Faults \cup {"none"}
        BY DEF Ending
      <3>. QED  BY <3>1, <3>2, <1>e, SaysType DEF Value, Error
    <2>2. stm' \in [Stmts -> Stm]
      BY <1>16, StaleNowType DEF CloseEnds
    <2>3. conn' \in [Conns -> Conn]
      <3>1. \/ conn' = conn
            \/ conn' = [conn EXCEPT ![ending.on].connected = FALSE]
            \/ conn' = [conn EXCEPT ![ending.on].connected = FALSE,
                                    ![ending.on].connAllocated = FALSE]
        BY <1>16 DEF CloseEnds
      <3>2. /\ [conn EXCEPT ![ending.on].connected = FALSE] \in [Conns -> Conn]
            /\ [conn EXCEPT ![ending.on].connected = FALSE,
                            ![ending.on].connAllocated = FALSE] \in [Conns -> Conn]
        BY ZenonT(60) DEF Conn
      <3>. QED  BY <3>1, <3>2
    <2>4. dbc' \in [Handles -> Dbc]
      <3>1. \/ dbc' = dbc
            \/ dbc' = [dbc EXCEPT ![conn[ending.on].connh].session = FALSE]
            \/ dbc' = [dbc EXCEPT ![conn[ending.on].connh] = Freed]
        BY <1>16 DEF CloseEnds
      <3>2. [dbc EXCEPT ![conn[ending.on].connh] = Freed] \in [Handles -> Dbc]
        BY DEF Dbc, Freed
      <3>3. [dbc EXCEPT ![conn[ending.on].connh].session = FALSE] \in [Handles -> Dbc]
        BY DEF Dbc
      <3>. QED  BY <3>1, <3>2, <3>3
    <2>. QED  BY <1>16, <1>e, <2>1, <2>2, <2>3, <2>4 DEF CloseEnds
  <1>7. ASSUME NEW o \in Conns, NEW on \in BOOLEAN, SetConnAttr(o, on)
        PROVE Types'
    <2>1. reply' \in Reply
      BY <1>7, SaysType DEF SetConnAttr, Value, Error
    <2>2. work' \in [Works -> Work]
      <3>1. work' = work \/ work' = Settled(conn[o].connh, "committed", o)
        BY <1>7 DEF SetConnAttr
      <3>. QED  BY <3>1, SettledType
    <2>3. dbc' \in [Handles -> Dbc]  BY <1>7 DEF SetConnAttr, Dbc
    <2>. QED  BY <1>7, <2>1, <2>2, <2>3 DEF SetConnAttr
  <1>8. ASSUME NEW s \in Stmts, NEW o \in Conns, NewStmt(s, o) PROVE Types'
    <2>1. reply' \in Reply
      BY <1>8, SaysType DEF NewStmt, Value, Error, Fault
    <2>2. stm' \in [Stmts -> Stm]
      <3>1. \/ stm' = stm
            \/ stm' = [stm EXCEPT ![s] = [made |-> TRUE, stmtAllocated |-> TRUE,
                                          myDbConn |-> o, connh |-> conn[o].connh,
                                          stale |-> FALSE]]
        BY <1>8 DEF NewStmt
      <3>2. [stm EXCEPT ![s] = [made |-> TRUE, stmtAllocated |-> TRUE,
                                myDbConn |-> o, connh |-> conn[o].connh,
                                stale |-> FALSE]] \in [Stmts -> Stm]
        BY DEF Stm, Conn
      <3>. QED  BY <3>1, <3>2
    <2>. QED  BY <1>8, <2>1, <2>2 DEF NewStmt
  <1>9. ASSUME NEW s \in Stmts, NEW w \in Works, ExecWork(s, w) PROVE Types'
    <2>1. reply' \in Reply  BY <1>9, SaysType DEF ExecWork, Value
    <2>2. work' \in [Works -> Work]  BY <1>9 DEF ExecWork, Work, Stm
    <2>3. ending' \in Ending  BY <1>9 DEF ExecWork, Ending
    <2>. QED  BY <1>9, <2>1, <2>2, <2>3 DEF ExecWork
  <1>10. ASSUME NEW s \in Stmts, Commit(s) \/ Rollback(s) PROVE Types'
    <2>1. reply' \in Reply
      BY <1>10, SaysType DEF Commit, Rollback, EndTransaction, Value, Error, Fault
    <2>2. work' \in [Works -> Work]
      <3>1. \/ work' = work
            \/ \E st \in {"committed", "undone"} :
                 work' = Settled(stm[s].connh, st, stm[s].myDbConn)
        BY <1>10 DEF Commit, Rollback, EndTransaction
      <3>2. stm[s].myDbConn \in Conns \cup {NoConn}
        BY DEF Stm
      <3>. QED  BY <3>1, <3>2, SettledType
    <2>. QED  BY <1>10, <2>1, <2>2 DEF Commit, Rollback, EndTransaction
  <1>11. ASSUME NEW s \in Stmts, CloseStmt(s) PROVE Types'
    <2>1. reply' \in Reply
      BY <1>11, SaysType DEF CloseStmt, Value, Error, Fault
    <2>2. stm' \in [Stmts -> Stm]
      <3>1. stm' = stm \/ stm' = [stm EXCEPT ![s].stmtAllocated = FALSE]
        BY <1>11 DEF CloseStmt
      <3>. QED  BY ZenonT(60), <3>1 DEF Stm
    <2>. QED  BY <1>11, <2>1, <2>2 DEF CloseStmt
  <1>12. CASE UNCHANGED vars
    BY <1>12 DEF vars
  <1>13. CASE InitAll
    BY <1>13 DEF InitAll
  <1>14. ASSUME NEW o \in Conns, Asks(o)
         PROVE  Types'
    <2>1. reply' \in Reply
      BY <1>14, AsksReply
    <2>. QED  BY <1>14, <2>1, AsksChangesNothing
  <1>. QED
    BY <1>1, <1>2, <1>3, <1>4, <1>5, <1>6, <1>7, <1>8, <1>9, <1>10, <1>11,
       <1>12, <1>13, <1>14, <1>15, <1>16 DEF Next, ConnStep, StmtStep, Asks

\* connected is set for an object with a handle, and reset before the handle is
\* freed.
FlagsAgree == \A o \in Conns : conn[o].connected => conn[o].connAllocated

LEMMA FlagsStep == Types /\ FlagsAgree /\ [Next]_vars => FlagsAgree'
  <1>. SUFFICES ASSUME Types, FlagsAgree, [Next]_vars PROVE FlagsAgree'
    OBVIOUS
  <1>. USE DEF FlagsAgree
  <1>0. conn \in [Conns -> Conn] /\ ending.on \in Conns \cup {NoConn}
    BY DEF Types, Ending
  <1>1. CASE UNCHANGED conn
    BY <1>1
  <1>2. ASSUME NEW o \in Conns, New(o) PROVE FlagsAgree'
    <2>1. \/ conn' = [conn EXCEPT ![o].made = TRUE]
          \/ \E h \in Handles :
               conn' = [conn EXCEPT ![o] = [made |-> TRUE, connAllocated |-> TRUE,
                                            connected |-> FALSE, connh |-> h]]
      BY <1>2 DEF New
    <2>. QED  BY <1>0, <2>1 DEF Conn
  <1>3. ASSUME NEW o \in Conns, ConnOk(o) PROVE FlagsAgree'
    <2>1. conn[o].connAllocated /\ conn' = [conn EXCEPT ![o].connected = TRUE]
      BY <1>3 DEF ConnOk
    <2>. QED  BY <1>0, <2>1 DEF Conn
  <1>4. ASSUME NEW o \in Conns, Close(o) PROVE FlagsAgree'
    <2>1. \/ UNCHANGED conn
          \/ /\ ~conn[o].connected
             /\ conn' = [conn EXCEPT ![o].connAllocated = FALSE]
      BY <1>4 DEF Close, EndingBegins
    <2>. QED  BY <1>0, <1>1, <2>1 DEF Conn
  <1>5. CASE DisconnEnds
    <2>1. \/ UNCHANGED conn
          \/ conn' = [conn EXCEPT ![ending.on].connected = FALSE]
      BY <1>5 DEF DisconnEnds
    <2>. QED  BY <1>0, <1>1, <2>1 DEF Conn
  <1>6. CASE CloseEnds
    <2>1. \/ UNCHANGED conn
          \/ conn' = [conn EXCEPT ![ending.on].connected = FALSE,
                                  ![ending.on].connAllocated = FALSE]
          \/ conn' = [conn EXCEPT ![ending.on].connected = FALSE]
      BY <1>6 DEF CloseEnds
    <2>. QED  BY <1>0, <1>1, <2>1 DEF Conn
  <1>7. ASSUME NEW o \in Conns,
               ConnIgnored(o) \/ ConnError(o) \/ Disconn(o) \/ Asks(o)
               \/ \E on \in BOOLEAN : SetConnAttr(o, on)
        PROVE  UNCHANGED conn
    BY <1>7, AsksChangesNothing DEF ConnIgnored, ConnError, Disconn, EndingBegins, SetConnAttr
  <1>8. ASSUME NEW s \in Stmts, StmtStep(s) PROVE UNCHANGED conn
    BY <1>8 DEF StmtStep, NewStmt, ExecWork, Commit, Rollback, EndTransaction, CloseStmt
  <1>9. CASE InitAll
    BY <1>9 DEF InitAll
  <1>10. CASE UNCHANGED vars
    BY <1>10 DEF vars
  <1>. QED
    BY <1>1, <1>2, <1>3, <1>4, <1>5, <1>6, <1>7, <1>8, <1>9, <1>10 DEF Next, ConnStep, Asks

\* Whatever the client does and whichever CLI calls fail, the members of the
\* connection and statement objects keep their types, and a connected object has
\* a handle (dbconn.h, dbstmt.h; dbconn.cc:33-51, 191-344).
THEOREM TypeCorrect == Spec => []TypeOK
  <1>1. Init => Types /\ FlagsAgree
    BY DEF Init, Types, FlagsAgree, NoDbConn, NoDbStmt, NoEnding, Freed, Conn, Stm, Dbc, Work,
       Ending, Reply
  <1>2. Types /\ FlagsAgree /\ [Next]_vars => (Types /\ FlagsAgree)'
    BY TypeStep, FlagsStep
  <1>3. Types /\ FlagsAgree => TypeOK
    BY DEF TypeOK, FlagsAgree
  <1>. QED  BY <1>1, <1>2, <1>3, PTL DEF Spec

-----------------------------------------------------------------------------
(* Ownership of handles, sessions and work *)

\* An object that was not constructed yet owns nothing.
Unmade ==
    \A o \in Conns : ~conn[o].made =>
        ~conn[o].connAllocated /\ ~conn[o].connected /\ o \notin failed

\* The inductive invariant: what relates objects, handles, statements and
\* pending work (Owned), and the two properties that follow from it step by
\* step.
Owned == Unmade /\ HandleOwned /\ CopyIsCurrent /\ PendingHasSession

\* Between the rollback and SQLDisconnect the object stays connected, and
\* without a fault only a worker can make work pending again.
EndingReady ==
    ~MainFree =>
        /\ ending.on \in Sound /\ conn[ending.on].connected
        /\ ending.fault = "none" /\ ~ending.raced
             => PendingAt(conn[ending.on].connh) = {}

IInv == Types /\ Owned /\ EndedByOwner /\ EndingNeedsNoHelp /\ EndingReady

\* Work pending at the handle of an object is the work of that object.
LEMMA PendingOwner ==
    ASSUME Types, Owned, NEW o \in Sound, conn[o].connAllocated,
           NEW w \in Works, work[w].state = "pending", work[w].at = conn[o].connh
    PROVE  work[w].by = o /\ conn[o].connected
  BY DEF Owned, HandleOwned, PendingHasSession, ConnectedHasSession, Exclusive, Sound

\* A step changes no work but what was pending at h, which o settles.
OnlySettles(h, o) ==
    \A w \in Works : work'[w] # work[w] =>
        /\ work[w].state = "pending" /\ work[w].at = h
        /\ work'[w].state \in {"committed", "undone"}
        /\ work'[w].by = work[w].by /\ work'[w].endedBy = o

LEMMA SettledSettles ==
    ASSUME Types, NEW h, NEW o \in Conns \cup {NoConn}, NEW st \in {"committed", "undone"},
           work' = Settled(h, st, o)
    PROVE  /\ OnlySettles(h, o)
           /\ \A w \in Works : ~(work'[w].state = "pending" /\ work'[w].at = h)
  BY DEF Types, Work, Settled, PendingAt, OnlySettles

LEMMA SettlesKeepsEndedBy ==
    ASSUME IInv, NEW o \in Sound, conn[o].connAllocated,
           OnlySettles(conn[o].connh, o)
    PROVE  EndedByOwner'
  BY PendingOwner DEF IInv, OnlySettles, EndedByOwner

LEMMA SettlesKeepsOwned ==
    ASSUME IInv, NEW h, NEW o, OnlySettles(h, o), UNCHANGED <<conn, dbc, stm, failed>>
    PROVE  Owned'
  BY DEF IInv, Owned, Unmade, HandleOwned, AllocatedLive, ConnectedHasSession, Exclusive,
         NoLeak, CopyIsCurrent, PendingHasSession, OnlySettles, Live, Session, Sound

\* The rollback before SQLDisconnect: without a fault nothing stays pending.
LEMMA RolledBackEffect ==
    ASSUME IInv, NEW o \in Sound, conn[o].connected, NEW f, work' = RolledBack(o, f)
    PROVE  /\ OnlySettles(conn[o].connh, o)
           /\ f = "none" =>
                \A w \in Works : ~(work'[w].state = "pending" /\ work'[w].at = conn[o].connh)
  <1>. DEFINE h == conn[o].connh
  <1>1. Session(h)
    BY DEF IInv, Owned, HandleOwned, ConnectedHasSession
  <1>2. CASE (f = "attr" \/ ~dbc[h].autocommit) /\ f # "end"
    <2>1. work' = Settled(h, "undone", o)
      BY <1>1, <1>2 DEF RolledBack
    <2>. QED BY <2>1, SettledSettles DEF Sound, IInv
  <1>3. CASE ~((f = "attr" \/ ~dbc[h].autocommit) /\ f # "end")
    <2>1. work' = work
      BY <1>3 DEF RolledBack
    <2>2. f = "none" => dbc[h].autocommit
      BY <1>3
    <2>. QED BY <2>1, <2>2 DEF OnlySettles, IInv, Owned, PendingHasSession
  <1>. QED BY <1>2, <1>3

\* What remains true of the others when object o gives up the session of its
\* handle h, and the handle itself if keeps is FALSE.
Ends(o, h, keeps) ==
    /\ conn'[o].connAllocated = keeps /\ ~conn'[o].connected
    /\ conn'[o].connh = h /\ conn'[o].made = conn[o].made
    /\ \A p \in Conns : p # o => conn'[p] = conn[p]
    /\ \A g \in Handles : g # h => dbc'[g] = dbc[g]
    /\ keeps => dbc'[h].live /\ ~dbc'[h].session
    /\ ~keeps => ~dbc'[h].live
    /\ \A s \in Stmts : stm'[s].made /\ ~stm'[s].stale =>
         stm'[s] = stm[s] /\ (stm[s].connh # h \/ ~conn[o].connected)
    /\ OnlySettles(h, o)
    /\ \A w \in Works : ~(work'[w].state = "pending" /\ work'[w].at = h)
    /\ failed' = failed

LEMMA EndingKeepsOwned ==
    ASSUME Owned, NEW o \in Sound, NEW h, h = conn[o].connh, h \in Handles,
           conn[o].connAllocated, NEW keeps \in BOOLEAN, Ends(o, h, keeps)
    PROVE  Owned'
  <1>1. /\ conn'[o].connAllocated = keeps /\ ~conn'[o].connected
        /\ conn'[o].connh = h /\ conn'[o].made = conn[o].made
        /\ \A p \in Conns : p # o => conn'[p] = conn[p]
    BY DEF Ends
  <1>2. \A g \in Handles : g # h => dbc'[g] = dbc[g]
    BY DEF Ends
  <1>3. h \in Handles
    OBVIOUS
  <1>4. keeps => dbc'[h].live /\ ~dbc'[h].session
    BY DEF Ends
  <1>5. ~keeps => ~dbc'[h].live
    BY DEF Ends
  <1>6. Sound' = Sound
    BY DEF Ends, Sound
  <1>7. \A p \in Sound : p # o /\ conn[p].connAllocated => conn[p].connh # h
    BY DEF Owned, HandleOwned, Exclusive
  <1>a. Unmade'
    BY <1>1 DEF Owned, Unmade, Ends
  <1>8. \A p \in Sound : p # o => conn'[p] = conn[p] /\ p \in Conns
    BY <1>1 DEF Sound
  <1>9. /\ \A p \in Sound : conn[p].connAllocated => Live(conn[p].connh)
        /\ \A p \in Sound : conn[p].connected <=> conn[p].connAllocated /\ Session(conn[p].connh)
        /\ \A p, q \in Sound : /\ conn[p].connAllocated /\ conn[q].connAllocated
                              /\ conn[p].connh = conn[q].connh
                              => p = q
        /\ \A g \in Handles : dbc[g].live =>
             \E p \in Sound : conn[p].connAllocated /\ conn[p].connh = g
    BY DEF Owned, HandleOwned, AllocatedLive, ConnectedHasSession, Exclusive, NoLeak
  <1>b. AllocatedLive'
    <2>. SUFFICES ASSUME NEW p \in Sound, conn'[p].connAllocated
                  PROVE  conn'[p].connh \in Handles /\ dbc'[conn'[p].connh].live
      BY <1>6 DEF AllocatedLive, Live
    <2>1. CASE p = o
      BY <2>1, <1>1, <1>3, <1>4
    <2>2. CASE p # o
      BY <2>2, <1>2, <1>7, <1>8, <1>9 DEF Live
    <2>. QED BY <2>1, <2>2
  <1>c. ConnectedHasSession'
    <2>. SUFFICES ASSUME NEW p \in Sound
                  PROVE  conn'[p].connected <=>
                           /\ conn'[p].connAllocated
                           /\ conn'[p].connh \in Handles
                           /\ dbc'[conn'[p].connh].live /\ dbc'[conn'[p].connh].session
      BY <1>6 DEF ConnectedHasSession, Live, Session
    <2>1. CASE p = o
      BY <2>1, <1>1, <1>3, <1>4, <1>5
    <2>2. CASE p # o
      BY <2>2, <1>2, <1>7, <1>8, <1>9 DEF Live, Session
    <2>. QED BY <2>1, <2>2
  <1>d. Exclusive'
    <2>. SUFFICES ASSUME NEW p \in Sound, NEW q \in Sound,
                         conn'[p].connAllocated, conn'[q].connAllocated,
                         conn'[p].connh = conn'[q].connh
                  PROVE  p = q
      BY <1>6 DEF Exclusive
    <2>. QED BY <1>1, <1>7, <1>8, <1>9
  <1>e. NoLeak'
    <2>. SUFFICES ASSUME NEW g \in Handles, dbc'[g].live
                  PROVE  \E p \in Sound : conn'[p].connAllocated /\ conn'[p].connh = g
      BY <1>6 DEF NoLeak
    <2>1. CASE g = h
      BY <2>1, <1>1, <1>5
    <2>2. CASE g # h
      BY <2>2, <1>1, <1>2, <1>8, <1>9
    <2>. QED BY <2>1, <2>2
  <1>f. CopyIsCurrent'
    <2>. SUFFICES ASSUME NEW s \in Stmts, stm'[s].made, ~stm'[s].stale
                  PROVE  /\ stm'[s].myDbConn \in Sound
                         /\ conn'[stm'[s].myDbConn].connected
                         /\ conn'[stm'[s].myDbConn].connh = stm'[s].connh
      BY <1>6 DEF CopyIsCurrent
    <2>1. stm'[s] = stm[s] /\ (stm[s].connh # h \/ ~conn[o].connected)
      BY DEF Ends
    <2>2. /\ stm[s].myDbConn \in Sound
          /\ conn[stm[s].myDbConn].connected
          /\ conn[stm[s].myDbConn].connh = stm[s].connh
      BY <2>1 DEF Owned, CopyIsCurrent
    <2>3. stm[s].myDbConn # o
      BY <2>1, <2>2
    <2>. QED BY <2>1, <2>2, <2>3, <1>8
  <1>g. PendingHasSession'
    <2>. SUFFICES ASSUME NEW w \in Works, work'[w].state = "pending"
                  PROVE  /\ work'[w].at \in Handles
                         /\ dbc'[work'[w].at].live /\ dbc'[work'[w].at].session
                         /\ ~dbc'[work'[w].at].autocommit
                         /\ work'[w].by \in Sound
                         /\ conn'[work'[w].by].connected
                         /\ conn'[work'[w].by].connh = work'[w].at
      BY <1>6 DEF PendingHasSession, Session, Live
    <2>1. work'[w] = work[w] /\ work[w].at # h
      BY DEF Ends, OnlySettles
    <2>2. /\ Session(work[w].at) /\ ~dbc[work[w].at].autocommit
          /\ work[w].by \in Sound
          /\ conn[work[w].by].connected
          /\ conn[work[w].by].connh = work[w].at
      BY <2>1 DEF Owned, PendingHasSession
    <2>3. work[w].by # o
      BY <2>1, <2>2
    <2>. QED BY <2>1, <2>2, <2>3, <1>2, <1>8 DEF Session, Live
  <1>. QED BY <1>a, <1>b, <1>c, <1>d, <1>e, <1>f, <1>g DEF Owned, HandleOwned

LEMMA UsableIsSound ==
    ASSUME IInv, Habits = {}, NEW o \in Conns, Usable(o)
    PROVE  o \in Sound
  BY DEF Usable, Sound

LEMMA StaleNowEffect ==
    ASSUME Types, NEW h, stm' = StaleNow(h)
    PROVE  \A s \in Stmts : stm'[s].made /\ ~stm'[s].stale =>
             stm'[s] = stm[s] /\ stm[s].connh # h
  BY DEF Types, StaleNow, Stm

LEMMA EndingBeginsKeepsInv ==
    ASSUME IInv, NEW o \in Sound, conn[o].connected, MainFree, NEW op, NEW fs,
           EndingBegins(o, op, fs)
    PROVE  Owned' /\ EndedByOwner' /\ EndingNeedsNoHelp' /\ EndingReady'
  <1>. DEFINE h == conn[o].connh
  <1>1. PICK f : /\ work' = RolledBack(o, f)
                 /\ ending' = [on |-> o, op |-> op, fault |-> f, raced |-> FALSE]
    BY DEF EndingBegins
  <1>2. UNCHANGED <<conn, stm, dbc, failed, reply>>
    BY DEF EndingBegins
  <1>3. conn[o].connAllocated
    BY DEF IInv, Owned, HandleOwned, ConnectedHasSession
  <1>4. /\ OnlySettles(h, o)
        /\ f = "none" =>
             \A w \in Works : ~(work'[w].state = "pending" /\ work'[w].at = h)
    BY <1>1, RolledBackEffect
  <1>5. Owned' /\ EndedByOwner'
    BY <1>2, <1>3, <1>4, SettlesKeepsOwned, SettlesKeepsEndedBy
  <1>6. EndingReady'
    BY <1>1, <1>2, <1>4 DEF EndingReady, Sound, PendingAt
  <1>. QED  BY <1>2, <1>5, <1>6 DEF IInv, EndingNeedsNoHelp

LEMMA DisconnKeepsInv ==
    ASSUME IInv, Habits = {}, NEW o \in Conns, Disconn(o)
    PROVE  Owned' /\ EndedByOwner' /\ EndingNeedsNoHelp' /\ EndingReady'
  <1>1. o \in Sound /\ MainFree
    BY UsableIsSound DEF Disconn, Usable
  <1>2. CASE ~conn[o].connected
    <2>1. /\ UNCHANGED <<conn, dbc, stm, failed, work, ending>>
          /\ reply'.result = "value"
      BY <1>2 DEF Disconn, Value, Says
    <2>2. OnlySettles(conn[o].connh, o)
      BY <2>1 DEF OnlySettles
    <2>3. Owned'
      BY <2>1, <2>2, SettlesKeepsOwned
    <2>. QED  BY <1>1, <2>1, <2>3
              DEF IInv, EndedByOwner, EndingNeedsNoHelp, EndingReady, MainFree
  <1>3. CASE conn[o].connected
    BY <1>1, <1>3, EndingBeginsKeepsInv DEF Disconn
  <1>. QED  BY <1>2, <1>3

\* SQLDisconnect has ended the session of the object the main thread is inside
\* of disconn() or close() with, and nothing is pending at its handle.
LEMMA SessionEndsMeans ==
    ASSUME IInv, ~MainFree
    PROVE  /\ ending.on \in Sound /\ conn[ending.on].connected
           /\ conn[ending.on].connAllocated
           /\ conn[ending.on].connh \in Handles /\ Session(conn[ending.on].connh)
           /\ SessionEnds => PendingAt(conn[ending.on].connh) = {}
           /\ ~SessionEnds => Blame # "none"
  <1>1. /\ ending.on \in Sound /\ conn[ending.on].connected
        /\ ending.fault = "none" /\ ~ending.raced
             => PendingAt(conn[ending.on].connh) = {}
    BY DEF IInv, EndingReady
  <1>2. conn[ending.on].connAllocated /\ Session(conn[ending.on].connh)
    BY <1>1 DEF IInv, Owned, HandleOwned, ConnectedHasSession
  <1>3. conn[ending.on].connh \in Handles
    BY <1>2 DEF Session, Live
  <1>. QED  BY <1>1, <1>2, <1>3 DEF SessionEnds, Blame

\* What DisconnEnds and CloseEnds do alike once SQLDisconnect succeeded.
LEMMA EndedKeepsInv ==
    ASSUME IInv, ~MainFree, SessionEnds, NEW keeps \in BOOLEAN,
           conn' = IF keeps THEN [conn EXCEPT ![ending.on].connected = FALSE]
                   ELSE [conn EXCEPT ![ending.on].connected = FALSE,
                                     ![ending.on].connAllocated = FALSE],
           dbc' = IF keeps THEN [dbc EXCEPT ![conn[ending.on].connh].session = FALSE]
                  ELSE [dbc EXCEPT ![conn[ending.on].connh] = Freed],
           stm' = StaleNow(conn[ending.on].connh), UNCHANGED <<work, failed>>
    PROVE  Owned' /\ EndedByOwner'
  <1>. DEFINE o == ending.on
              h == conn[o].connh
  <1>1. /\ o \in Sound /\ o \in Conns /\ conn[o].connAllocated
        /\ h \in Handles /\ dbc[h].live
        /\ PendingAt(h) = {}
    BY SessionEndsMeans DEF Sound, Session, Live
  <1>2. /\ conn'[o].connAllocated = keeps /\ ~conn'[o].connected
        /\ conn'[o].connh = h /\ conn'[o].made = conn[o].made
        /\ \A p \in Conns : p # o => conn'[p] = conn[p]
    BY <1>1 DEF IInv, Types, Conn
  <1>3. /\ \A g \in Handles : g # h => dbc'[g] = dbc[g]
        /\ keeps => dbc'[h].live /\ ~dbc'[h].session
        /\ ~keeps => ~dbc'[h].live
    BY <1>1 DEF IInv, Types, Dbc, Freed
  <1>4. \A s \in Stmts : stm'[s].made /\ ~stm'[s].stale =>
          stm'[s] = stm[s] /\ stm[s].connh # h
    BY StaleNowEffect DEF IInv
  <1>5. OnlySettles(h, o)
    BY DEF OnlySettles
  <1>6. Ends(o, h, keeps)
    BY <1>1, <1>2, <1>3, <1>4, <1>5 DEF Ends, PendingAt
  <1>. QED  BY <1>1, <1>6, EndingKeepsOwned DEF IInv, EndedByOwner

LEMMA DisconnEndsKeepsInv ==
    ASSUME IInv, DisconnEnds
    PROVE  Owned' /\ EndedByOwner' /\ EndingNeedsNoHelp'
  <1>1. ~MainFree
    BY DEF DisconnEnds, MainFree, NoEnding
  <1>2. CASE SessionEnds
    <2>1. reply'.result = "value"
      BY <1>2 DEF DisconnEnds, Value, Says
    <2>2. Owned' /\ EndedByOwner'
      <3>1. /\ conn' = [conn EXCEPT ![ending.on].connected = FALSE]
            /\ dbc' = [dbc EXCEPT ![conn[ending.on].connh].session = FALSE]
            /\ stm' = StaleNow(conn[ending.on].connh) /\ UNCHANGED <<work, failed>>
        BY <1>2 DEF DisconnEnds
      <3>. DEFINE keeps == TRUE
      <3>2. conn' = IF keeps THEN [conn EXCEPT ![ending.on].connected = FALSE]
                    ELSE [conn EXCEPT ![ending.on].connected = FALSE,
                                      ![ending.on].connAllocated = FALSE]
        BY <3>1
      <3>3. dbc' = IF keeps THEN [dbc EXCEPT ![conn[ending.on].connh].session = FALSE]
                   ELSE [dbc EXCEPT ![conn[ending.on].connh] = Freed]
        BY <3>1
      <3>4. keeps \in BOOLEAN
        OBVIOUS
      <3>. HIDE DEF keeps
      <3>. QED  BY <1>1, <1>2, <3>1, <3>2, <3>3, <3>4, EndedKeepsInv
    <2>. QED  BY <2>1, <2>2 DEF EndingNeedsNoHelp
  <1>3. CASE ~SessionEnds
    <2>1. UNCHANGED <<conn, dbc, stm, failed, work>> /\ reply'.fault # "none"
      BY <1>1, <1>3, SessionEndsMeans DEF DisconnEnds, Error, Says
    <2>2. OnlySettles(conn[ending.on].connh, ending.on)
      BY <2>1 DEF OnlySettles
    <2>. QED  BY <2>1, <2>2, SettlesKeepsOwned DEF IInv, EndedByOwner, EndingNeedsNoHelp
  <1>. QED  BY <1>2, <1>3

LEMMA CloseEndsKeepsInv ==
    ASSUME IInv, CloseEnds
    PROVE  Owned' /\ EndedByOwner' /\ EndingNeedsNoHelp'
  <1>1. ~MainFree
    BY DEF CloseEnds, MainFree, NoEnding
  <1>2. CASE SessionEnds
    <2>. DEFINE keeps == ending.fault = "free"
    <2>1. reply'.result = "value" \/ reply'.fault # "none"
      BY <1>2 DEF CloseEnds, Value, Error, Says
    <2>2. Owned' /\ EndedByOwner'
      <3>1. stm' = StaleNow(conn[ending.on].connh) /\ UNCHANGED <<work, failed>>
        BY <1>2 DEF CloseEnds
      <3>2. conn' = IF keeps THEN [conn EXCEPT ![ending.on].connected = FALSE]
                    ELSE [conn EXCEPT ![ending.on].connected = FALSE,
                                      ![ending.on].connAllocated = FALSE]
        BY <1>2 DEF CloseEnds
      <3>3. dbc' = IF keeps THEN [dbc EXCEPT ![conn[ending.on].connh].session = FALSE]
                   ELSE [dbc EXCEPT ![conn[ending.on].connh] = Freed]
        BY <1>2 DEF CloseEnds
      <3>4. keeps \in BOOLEAN
        OBVIOUS
      <3>. HIDE DEF keeps
      <3>. QED  BY <1>1, <1>2, <3>1, <3>2, <3>3, <3>4, EndedKeepsInv
    <2>. QED  BY <2>1, <2>2 DEF EndingNeedsNoHelp
  <1>3. CASE ~SessionEnds
    <2>1. UNCHANGED <<conn, dbc, stm, failed, work>> /\ reply'.fault # "none"
      BY <1>1, <1>3, SessionEndsMeans DEF CloseEnds, Error, Says
    <2>2. OnlySettles(conn[ending.on].connh, ending.on)
      BY <2>1 DEF OnlySettles
    <2>. QED  BY <2>1, <2>2, SettlesKeepsOwned DEF IInv, EndedByOwner, EndingNeedsNoHelp
  <1>. QED  BY <1>2, <1>3

LEMMA CloseKeepsInv ==
    ASSUME IInv, Habits = {}, NEW o \in Conns, Close(o)
    PROVE  Owned' /\ EndedByOwner' /\ EndingNeedsNoHelp' /\ EndingReady'
  <1>. DEFINE h == conn[o].connh
  <1>1. o \in Sound /\ MainFree
    BY UsableIsSound DEF Close, Usable
  <1>2. CASE conn[o].connAllocated /\ conn[o].connected
    BY <1>1, <1>2, EndingBeginsKeepsInv DEF Close
  <1>3. CASE ~(conn[o].connAllocated /\ conn[o].connected)
    <2>1. UNCHANGED <<stm, failed, work, ending>>
      BY <1>3 DEF Close
    <2>2. EndingReady'
      BY <1>1, <2>1 DEF EndingReady, MainFree
    <2>3. OnlySettles(h, o)
      BY <2>1 DEF OnlySettles
    <2>4. CASE ~conn[o].connAllocated
      <3>1. UNCHANGED <<conn, dbc>> /\ reply'.result = "value"
        BY <1>3, <2>4 DEF Close, Value, Says
      <3>. QED  BY <2>1, <2>2, <2>3, <3>1, SettlesKeepsOwned
                DEF IInv, EndedByOwner, EndingNeedsNoHelp
    <2>5. CASE conn[o].connAllocated
      <3>1. PICK f : IF Live(h) /\ ~Session(h) /\ f # "free"
                     THEN /\ conn' = [conn EXCEPT ![o].connAllocated = FALSE]
                          /\ dbc' = [dbc EXCEPT ![h] = Freed]
                          /\ Value("close")
                     ELSE Error("close", f) /\ UNCHANGED <<conn, dbc>>
        BY <1>3, <2>5 DEF Close
      <3>2. Live(h) /\ h \in Handles /\ ~conn[o].connected /\ ~Session(h)
        BY <1>1, <1>3, <2>5
           DEF IInv, Owned, HandleOwned, AllocatedLive, ConnectedHasSession, Live
      <3>3. CASE f = "free"
        BY <2>1, <2>2, <2>3, <3>1, <3>3, SettlesKeepsOwned
           DEF IInv, EndedByOwner, EndingNeedsNoHelp, Error, Says
      <3>4. CASE f # "free"
        <4>1. /\ ~conn'[o].connAllocated /\ ~conn'[o].connected
              /\ conn'[o].connh = h /\ conn'[o].made = conn[o].made
              /\ \A p \in Conns : p # o => conn'[p] = conn[p]
          BY <3>1, <3>2, <3>4 DEF IInv, Types, Conn
        <4>2. /\ \A g \in Handles : g # h => dbc'[g] = dbc[g]
              /\ ~dbc'[h].live
          BY <3>1, <3>2, <3>4 DEF IInv, Types, Freed
        <4>3. \A w \in Works : ~(work'[w].state = "pending" /\ work'[w].at = h)
          BY <1>1, <2>1, <2>5, <3>2, PendingOwner DEF IInv
        <4>4. Ends(o, h, FALSE)
          BY <2>1, <2>3, <3>2, <4>1, <4>2, <4>3 DEF Ends
        <4>5. Owned'
          BY <1>1, <2>5, <3>2, <4>4, EndingKeepsOwned DEF IInv
        <4>6. reply'.result = "value"
          BY <3>1, <3>2, <3>4 DEF Value, Says
        <4>. QED  BY <2>1, <2>2, <4>5, <4>6 DEF IInv, EndedByOwner, EndingNeedsNoHelp
      <3>. QED  BY <3>3, <3>4
    <2>. QED  BY <2>4, <2>5
  <1>. QED  BY <1>2, <1>3

LEMMA SetConnAttrKeepsInv ==
    ASSUME IInv, Habits = {}, NEW o \in Conns, NEW on \in BOOLEAN, SetConnAttr(o, on)
    PROVE  Owned' /\ EndedByOwner' /\ EndingNeedsNoHelp'
  <1>. DEFINE h == conn[o].connh
  <1>1. o \in Sound
    BY UsableIsSound DEF SetConnAttr
  <1>2. UNCHANGED <<conn, stm, failed>> /\ reply'.op = "attr"
    BY DEF SetConnAttr, Value, Error, Says
  <1>3. CASE ~conn[o].connAllocated \/ ~Live(h)
    <2>1. UNCHANGED <<dbc, work>>
      BY <1>3 DEF SetConnAttr
    <2>2. OnlySettles(h, o)
      BY <2>1 DEF OnlySettles
    <2>3. Owned'
      BY <1>2, <2>1, <2>2, SettlesKeepsOwned
    <2>. QED  BY <1>2, <2>1, <2>3 DEF IInv, EndedByOwner, EndingNeedsNoHelp
  <1>4. CASE conn[o].connAllocated /\ Live(h)
    <2>1. /\ dbc' = [dbc EXCEPT ![h].autocommit = on]
          /\ work' = IF on THEN Settled(h, "committed", o) ELSE work
      BY <1>4 DEF SetConnAttr
    <2>2. /\ OnlySettles(h, o)
          /\ on => \A w \in Works : ~(work'[w].state = "pending" /\ work'[w].at = h)
      BY <2>1, SettledSettles DEF IInv, OnlySettles
    <2>3. \A g \in Handles :
             /\ dbc'[g].live = dbc[g].live /\ dbc'[g].session = dbc[g].session
             /\ dbc'[g].autocommit = dbc[g].autocommit \/ (g = h /\ dbc'[g].autocommit = on)
      BY <2>1 DEF IInv, Types, Dbc
    <2>4. EndedByOwner'
      BY <1>1, <1>4, <2>2, SettlesKeepsEndedBy
    <2>5. HandleOwned' /\ Unmade' /\ CopyIsCurrent'
      BY <1>2, <2>3 DEF IInv, Owned, Unmade, HandleOwned, AllocatedLive,
         ConnectedHasSession, Exclusive, NoLeak, CopyIsCurrent, Live, Session, Sound
    <2>6. PendingHasSession'
      BY <1>2, <2>2, <2>3 DEF IInv, Owned, PendingHasSession, OnlySettles, Live, Session, Sound
    <2>. QED  BY <1>2, <2>4, <2>5, <2>6 DEF Owned, EndingNeedsNoHelp
  <1>. QED  BY <1>3, <1>4

LEMMA EndTransactionKeepsInv ==
    ASSUME IInv, Habits = {}, NEW s \in Stmts, NEW st \in {"committed", "undone"},
           NEW op \in {"commit", "rollback"}, EndTransaction(s, op, st)
    PROVE  Owned' /\ EndedByOwner' /\ EndingNeedsNoHelp'
  <1>. DEFINE h == stm[s].connh
              o == stm[s].myDbConn
  <1>1. UNCHANGED <<conn, stm, dbc, failed>> /\ reply'.op = op
    BY DEF EndTransaction, Value, Error, Says
  <1>2. stm[s].made /\ ~stm[s].stale
    BY DEF EndTransaction, UsableStmt
  <1>3. o \in Sound /\ conn[o].connected /\ conn[o].connh = h
    BY <1>2 DEF IInv, Owned, CopyIsCurrent
  <1>4. conn[o].connAllocated
    BY <1>3 DEF IInv, Owned, HandleOwned, ConnectedHasSession
  <1>5. work' = work \/ work' = Settled(h, st, o)
    BY DEF EndTransaction
  <1>6. OnlySettles(h, o)
    <2>1. CASE work' = work
      BY <2>1 DEF OnlySettles
    <2>2. CASE work' = Settled(h, st, o)
      BY <2>2, <1>3, SettledSettles DEF IInv, Sound
    <2>. QED  BY <1>5, <2>1, <2>2
  <1>7. EndedByOwner'
    BY <1>3, <1>4, <1>6, SettlesKeepsEndedBy
  <1>8. Owned'
    BY <1>1, <1>6, SettlesKeepsOwned
  <1>. QED  BY <1>1, <1>7, <1>8 DEF EndingNeedsNoHelp

LEMMA NewKeepsInv ==
    ASSUME IInv, NEW o \in Conns, New(o)
    PROVE  Owned' /\ EndedByOwner' /\ EndingNeedsNoHelp'
  <1>. DEFINE Changes(h) ==
         /\ ~dbc[h].live
         /\ conn' = [conn EXCEPT ![o] = [made |-> TRUE, connAllocated |-> TRUE,
                                         connected |-> FALSE, connh |-> h]]
         /\ dbc' = [dbc EXCEPT ![h] = [Freed EXCEPT !.live = TRUE]]
  <1>1. /\ UNCHANGED <<stm, work, failed>> /\ reply'.op = "new"
        /\ ~conn[o].made
    BY DEF New, Value, Says
  <1>2. \/ conn' = [conn EXCEPT ![o].made = TRUE] /\ dbc' = dbc
        \/ \E h \in Handles : Changes(h)
    BY DEF New
  <1>3. ~conn[o].connAllocated /\ ~conn[o].connected /\ o \notin failed
    BY <1>1 DEF IInv, Owned, Unmade
  <1>4. \A s \in Stmts : stm[s].made /\ ~stm[s].stale => stm[s].myDbConn # o
    BY <1>3 DEF IInv, Owned, CopyIsCurrent
  <1>5. \A w \in Works : work[w].state = "pending" => work[w].by # o
    BY <1>3 DEF IInv, Owned, PendingHasSession
  <1>6. CASE conn' = [conn EXCEPT ![o].made = TRUE] /\ dbc' = dbc
    <2>1. \A p \in Conns :
             /\ conn'[p].connAllocated = conn[p].connAllocated
             /\ conn'[p].connected = conn[p].connected
             /\ conn'[p].connh = conn[p].connh
             /\ conn'[p].made = conn[p].made \/ p = o
      BY <1>6 DEF IInv, Types, Conn
    <2>2. HandleOwned'
      BY <1>1, <1>6, <2>1 DEF IInv, Owned, HandleOwned, AllocatedLive,
         ConnectedHasSession, Exclusive, NoLeak, Live, Session, Sound
    <2>3. Unmade' /\ CopyIsCurrent' /\ PendingHasSession'
      BY <1>1, <1>3, <1>6, <2>1 DEF IInv, Owned, Unmade, CopyIsCurrent,
         PendingHasSession, Live, Session, Sound
    <2>. QED  BY <1>1, <2>2, <2>3 DEF IInv, Owned, EndedByOwner, EndingNeedsNoHelp
  <1>7. ASSUME NEW h \in Handles, Changes(h)
        PROVE  Owned' /\ EndedByOwner' /\ EndingNeedsNoHelp'
    <2>1. /\ conn'[o].connAllocated /\ ~conn'[o].connected
          /\ conn'[o].connh = h /\ conn'[o].made
          /\ \A p \in Conns : p # o => conn'[p] = conn[p]
      BY <1>7 DEF IInv, Types
    <2>2. /\ \A g \in Handles : g # h => dbc'[g] = dbc[g]
          /\ dbc'[h].live /\ ~dbc'[h].session
      BY <1>7 DEF IInv, Types, Freed
    <2>3. \A p \in Sound : conn[p].connAllocated => conn[p].connh # h
      BY <1>7 DEF IInv, Owned, HandleOwned, AllocatedLive, Live
    <2>4. Sound' = Sound /\ o \in Sound
      BY <1>1, <1>3 DEF Sound
    <2>a. Unmade'
      BY <1>1, <2>1 DEF IInv, Owned, Unmade
    <2>b. AllocatedLive'
      BY <2>1, <2>2, <2>3, <2>4 DEF IInv, Owned, HandleOwned, AllocatedLive, Live, Sound
    <2>c. ConnectedHasSession'
      <3>. SUFFICES ASSUME NEW p \in Sound
                    PROVE  conn'[p].connected <=>
                             /\ conn'[p].connAllocated
                             /\ conn'[p].connh \in Handles
                             /\ dbc'[conn'[p].connh].live /\ dbc'[conn'[p].connh].session
        BY <2>4 DEF ConnectedHasSession, Live, Session
      <3>1. CASE p = o
        BY <3>1, <2>1, <2>2
      <3>2. CASE p # o
        BY <3>2, <2>1, <2>2, <2>3
           DEF IInv, Owned, HandleOwned, ConnectedHasSession, Live, Session, Sound
      <3>. QED  BY <3>1, <3>2
    <2>d. Exclusive'
      BY <2>1, <2>3, <2>4 DEF IInv, Owned, HandleOwned, Exclusive, Sound
    <2>e. NoLeak'
      <3>. SUFFICES ASSUME NEW g \in Handles, dbc'[g].live
                    PROVE  \E p \in Sound : conn'[p].connAllocated /\ conn'[p].connh = g
        BY <2>4 DEF NoLeak
      <3>1. CASE g = h
        BY <3>1, <2>1, <2>4
      <3>2. CASE g # h
        <4>1. PICK p \in Sound : conn[p].connAllocated /\ conn[p].connh = g
          BY <3>2, <2>2 DEF IInv, Owned, HandleOwned, NoLeak
        <4>. QED  BY <4>1, <2>1, <1>3 DEF Sound
      <3>. QED  BY <3>1, <3>2
    <2>f. CopyIsCurrent'
      BY <1>1, <1>4, <2>1, <2>4 DEF IInv, Owned, CopyIsCurrent, Sound
    <2>g. PendingHasSession'
      BY <1>1, <1>5, <1>7, <2>1, <2>2, <2>4
         DEF IInv, Owned, PendingHasSession, Live, Session, Sound
    <2>. QED  BY <1>1, <2>a, <2>b, <2>c, <2>d, <2>e, <2>f, <2>g
              DEF IInv, Owned, HandleOwned, EndedByOwner, EndingNeedsNoHelp
  <1>. QED  BY <1>2, <1>6, <1>7

LEMMA ConnOkKeepsInv ==
    ASSUME IInv, Habits = {}, NEW o \in Conns, ConnOk(o)
    PROVE  Owned' /\ EndedByOwner' /\ EndingNeedsNoHelp'
  <1>. USE DEF IInv, Owned, Types, Conn, Dbc, ConnOk, Live, Session, Sound
  <1>1. Unmade' /\ AllocatedLive' /\ Exclusive'
    BY DEF Unmade, HandleOwned, AllocatedLive, Exclusive
  <1>2. ConnectedHasSession'
    BY DEF Usable, HandleOwned, ConnectedHasSession, AllocatedLive, Exclusive
  <1>3. NoLeak'
    BY DEF HandleOwned, NoLeak
  <1>4. CopyIsCurrent'
    BY DEF Stm, CopyIsCurrent
  <1>5. PendingHasSession'
    BY DEF Work, PendingHasSession
  <1>6. EndedByOwner' /\ EndingNeedsNoHelp'
    BY DEF EndedByOwner, EndingNeedsNoHelp, Value, Says
  <1>. QED  BY <1>1, <1>2, <1>3, <1>4, <1>5, <1>6 DEF HandleOwned

LEMMA ConnErrorKeepsInv ==
    ASSUME IInv, Habits = {}, NEW o \in Conns, ConnError(o)
    PROVE  Owned' /\ EndedByOwner' /\ EndingNeedsNoHelp'
  <1>. USE DEF IInv, Owned, Types, Conn, Dbc, Freed, ConnError, Live, Session, Sound,
               HandleOwned, Usable
  <1>1. Unmade'
    BY DEF Unmade
  <1>2. AllocatedLive' /\ Exclusive'
    BY DEF AllocatedLive, Exclusive
  <1>3. ConnectedHasSession'
    BY DEF ConnectedHasSession, AllocatedLive, Exclusive
  <1>4. NoLeak'
    BY DEF NoLeak, AllocatedLive, ConnectedHasSession
  <1>5. CopyIsCurrent'
    BY DEF Stm, CopyIsCurrent
  <1>6. PendingHasSession'
    BY DEF Work, PendingHasSession, ConnectedHasSession, Exclusive
  <1>7. EndedByOwner' /\ EndingNeedsNoHelp'
    BY DEF EndedByOwner, EndingNeedsNoHelp, Error, Says
  <1>. QED  BY <1>1, <1>2, <1>3, <1>4, <1>5, <1>6, <1>7

LEMMA StmtKeepsInv ==
    ASSUME IInv, NEW s \in Stmts, UNCHANGED <<conn, dbc, work, failed>>,
           reply'.op \notin {"disconn", "close"},
           \A t \in Stmts : t # s => stm'[t] = stm[t],
           stm'[s].made /\ ~stm'[s].stale =>
             /\ stm'[s].myDbConn \in Sound
             /\ conn[stm'[s].myDbConn].connected
             /\ conn[stm'[s].myDbConn].connh = stm'[s].connh
    PROVE  Owned' /\ EndedByOwner' /\ EndingNeedsNoHelp'
  <1>1. Sound' = Sound
    BY DEF Sound
  <1>2. CopyIsCurrent'
    BY <1>1 DEF IInv, Owned, CopyIsCurrent
  <1>3. Unmade' /\ HandleOwned' /\ PendingHasSession'
    BY <1>1 DEF IInv, Owned, Unmade, HandleOwned, AllocatedLive, ConnectedHasSession,
       Exclusive, NoLeak, PendingHasSession, Live, Session
  <1>. QED  BY <1>2, <1>3 DEF IInv, Owned, EndedByOwner, EndingNeedsNoHelp

LEMMA NewStmtKeepsInv ==
    ASSUME IInv, Habits = {}, NEW s \in Stmts, NEW o \in Conns, NewStmt(s, o)
    PROVE  Owned' /\ EndedByOwner' /\ EndingNeedsNoHelp'
  <1>1. o \in Sound
    BY UsableIsSound DEF NewStmt
  <1>2. UNCHANGED <<conn, dbc, work, failed>> /\ reply'.op = "stmt" /\ ~stm[s].made
    BY DEF NewStmt, Value, Error, Says
  <1>3. \/ stm' = stm
        \/ /\ conn[o].connected
           /\ stm' = [stm EXCEPT ![s] = [made |-> TRUE, stmtAllocated |-> TRUE,
                                         myDbConn |-> o, connh |-> conn[o].connh,
                                         stale |-> FALSE]]
    BY DEF NewStmt
  <1>4. CASE stm' = stm
    BY <1>2, <1>4, StmtKeepsInv DEF IInv, Owned, CopyIsCurrent
  <1>5. CASE /\ conn[o].connected
             /\ stm' = [stm EXCEPT ![s] = [made |-> TRUE, stmtAllocated |-> TRUE,
                                           myDbConn |-> o, connh |-> conn[o].connh,
                                           stale |-> FALSE]]
    <2>1. /\ \A t \in Stmts : t # s => stm'[t] = stm[t]
          /\ stm'[s].myDbConn = o /\ stm'[s].connh = conn[o].connh
      BY <1>5 DEF IInv, Types
    <2>. QED  BY <1>1, <1>2, <1>5, <2>1, StmtKeepsInv
  <1>. QED  BY <1>3, <1>4, <1>5

LEMMA CloseStmtKeepsInv ==
    ASSUME IInv, NEW s \in Stmts, CloseStmt(s)
    PROVE  Owned' /\ EndedByOwner' /\ EndingNeedsNoHelp'
  <1>1. UNCHANGED <<conn, dbc, work, failed>> /\ reply'.op = "closeStmt"
    BY DEF CloseStmt, Value, Error, Says
  <1>2. stm' = stm \/ stm' = [stm EXCEPT ![s].stmtAllocated = FALSE]
    BY DEF CloseStmt
  <1>3. /\ \A t \in Stmts : t # s => stm'[t] = stm[t]
        /\ stm'[s].made = stm[s].made /\ stm'[s].stale = stm[s].stale
        /\ stm'[s].myDbConn = stm[s].myDbConn /\ stm'[s].connh = stm[s].connh
    BY <1>2 DEF IInv, Types, Stm
  <1>. QED  BY <1>1, <1>3, StmtKeepsInv DEF IInv, Owned, CopyIsCurrent

LEMMA ExecWorkKeepsInv ==
    ASSUME IInv, Habits = {}, NEW s \in Stmts, NEW w \in Works, ExecWork(s, w)
    PROVE  Owned' /\ EndedByOwner' /\ EndingNeedsNoHelp'
  <1>1. UNCHANGED <<conn, stm, dbc, failed>> /\ reply'.op = "exec"
    BY DEF ExecWork, Value, Says
  <1>2. Unmade' /\ HandleOwned' /\ CopyIsCurrent'
    BY <1>1 DEF IInv, Owned, Unmade, HandleOwned, AllocatedLive, ConnectedHasSession,
       Exclusive, NoLeak, CopyIsCurrent, Live, Session, Sound
  <1>3. PendingHasSession' /\ EndedByOwner'
    BY DEF IInv, Owned, Types, Work, Stm, Dbc, Sound, ExecWork, UsableStmt, Live, Session,
       CopyIsCurrent, PendingHasSession, EndedByOwner
  <1>. QED  BY <1>1, <1>2, <1>3 DEF Owned, EndingNeedsNoHelp

LEMMA ExecWorkKeepsReady ==
    ASSUME IInv, NEW s \in Stmts, NEW w \in Works, ExecWork(s, w)
    PROVE  EndingReady'
  <1>. DEFINE h == conn[ending.on].connh
  <1>1. UNCHANGED <<conn, failed>>
    BY DEF ExecWork
  <1>2. CASE MainFree
    BY <1>2 DEF ExecWork, EndingReady, MainFree
  <1>3. CASE ~MainFree /\ stm[s].connh = h
    <2>1. ending'.on = ending.on /\ ending'.raced
      BY <1>3 DEF ExecWork, IInv, Types, Ending
    <2>. QED  BY <1>1, <1>3, <2>1 DEF IInv, EndingReady, Sound
  <1>4. CASE ~MainFree /\ stm[s].connh # h
    <2>1. ending' = ending
      BY <1>4 DEF ExecWork
    <2>2. \A v \in Works : work'[v].state = "pending" /\ work'[v].at = h
                              => work'[v] = work[v]
      BY <1>4 DEF ExecWork, IInv, Types
    <2>. QED  BY <1>1, <1>4, <2>1, <2>2 DEF IInv, EndingReady, Sound, PendingAt, MainFree
  <1>. QED  BY <1>2, <1>3, <1>4

\* The other steps of the main thread start and end outside of disconn() and
\* close().
LEMMA FreeKeepsReady ==
    ASSUME MainFree, UNCHANGED ending
    PROVE  EndingReady'
  BY DEF EndingReady, MainFree

LEMMA UnchangedKeepsInv ==
    ASSUME IInv, UNCHANGED <<conn, stm, dbc, work, failed>>,
           reply' = reply \/ reply'.op \notin {"disconn", "close"}
    PROVE  Owned' /\ EndedByOwner' /\ EndingNeedsNoHelp'
  BY DEF IInv, Owned, Unmade, HandleOwned, AllocatedLive, ConnectedHasSession, Exclusive,
     NoLeak, CopyIsCurrent, PendingHasSession, EndedByOwner, EndingNeedsNoHelp, Live,
     Session, Sound

LEMMA InitOwned == Init => IInv
  <1>. SUFFICES ASSUME Init PROVE IInv
    OBVIOUS
  <1>1. Types
    BY DEF Init, Types, NoDbConn, NoDbStmt, NoEnding, Freed, Conn, Stm, Dbc, Work, Ending,
       Reply
  <1>2. Unmade /\ HandleOwned
    BY DEF Init, Unmade, HandleOwned, AllocatedLive, ConnectedHasSession, Exclusive,
       NoLeak, NoDbConn, Freed, Sound
  <1>3. CopyIsCurrent /\ PendingHasSession /\ EndedByOwner /\ EndingNeedsNoHelp
    BY DEF Init, CopyIsCurrent, PendingHasSession, EndedByOwner, EndingNeedsNoHelp,
       NoDbStmt
  <1>4. EndingReady
    BY DEF Init, EndingReady, MainFree
  <1>. QED  BY <1>1, <1>2, <1>3, <1>4 DEF IInv, Owned

LEMMA NextKeepsInv ==
    ASSUME IInv, Habits = {}, [Next]_vars
    PROVE  Owned' /\ EndedByOwner' /\ EndingNeedsNoHelp'
  <1>1. ASSUME NEW o \in Conns, ConnStep(o)
        PROVE  Owned' /\ EndedByOwner' /\ EndingNeedsNoHelp'
    <2>1. CASE ConnIgnored(o)
      BY <2>1, UnchangedKeepsInv DEF ConnIgnored, Value, Says
    <2>2. CASE Asks(o)
      BY <2>2, AsksChangesNothing, AsksReply, UnchangedKeepsInv
    <2>. QED
      BY <1>1, <2>1, <2>2, NewKeepsInv, ConnOkKeepsInv, ConnErrorKeepsInv, DisconnKeepsInv,
         CloseKeepsInv, SetConnAttrKeepsInv DEF ConnStep, Asks
  <1>2. ASSUME NEW s \in Stmts, StmtStep(s)
        PROVE  Owned' /\ EndedByOwner' /\ EndingNeedsNoHelp'
    <2>1. CASE Commit(s)
      BY <2>1, EndTransactionKeepsInv DEF Commit
    <2>2. CASE Rollback(s)
      BY <2>2, EndTransactionKeepsInv DEF Rollback
    <2>. QED
      BY <1>2, <2>1, <2>2, NewStmtKeepsInv, ExecWorkKeepsInv, CloseStmtKeepsInv
         DEF StmtStep
  <1>3. CASE UNCHANGED vars
    BY <1>3, UnchangedKeepsInv DEF vars
  <1>4. CASE InitAll
    BY <1>4, UnchangedKeepsInv DEF InitAll
  <1>. QED
    BY <1>1, <1>2, <1>3, <1>4, DisconnEndsKeepsInv, CloseEndsKeepsInv DEF Next

LEMMA NextKeepsReady ==
    ASSUME IInv, Habits = {}, [Next]_vars
    PROVE  EndingReady'
  <1>1. ASSUME NEW o \in Conns, ConnStep(o) PROVE EndingReady'
    <2>1. CASE Disconn(o)
      BY <2>1, DisconnKeepsInv
    <2>2. CASE Close(o)
      BY <2>2, CloseKeepsInv
    <2>3. CASE ~Disconn(o) /\ ~Close(o)
      <3>1. MainFree /\ UNCHANGED ending
        BY <1>1, <2>3 DEF ConnStep, New, ConnIgnored, ConnRejected, ConnOk, ConnError,
           SetOtherAttr, GetConnAttr, ValidStmt, Asked, IsConnected, Debug, ReadFlag,
           SetConnAttr, Usable
      <3>. QED  BY <3>1, FreeKeepsReady
    <2>. QED  BY <2>1, <2>2, <2>3
  <1>2. ASSUME NEW s \in Stmts, StmtStep(s) PROVE EndingReady'
    <2>1. CASE \E w \in Works : ExecWork(s, w)
      BY <2>1, ExecWorkKeepsReady
    <2>2. CASE ~(\E w \in Works : ExecWork(s, w))
      <3>1. MainFree /\ UNCHANGED ending
        BY <1>2, <2>2 DEF StmtStep, NewStmt, Commit, Rollback, EndTransaction, CloseStmt,
           Usable
      <3>. QED  BY <3>1, FreeKeepsReady
    <2>. QED  BY <2>1, <2>2
  <1>3. CASE UNCHANGED vars
    BY <1>3 DEF vars, IInv, EndingReady, MainFree, Sound, PendingAt
  <1>4. CASE InitAll
    BY <1>4 DEF InitAll, IInv, EndingReady, MainFree, Sound, PendingAt
  <1>5. CASE DisconnEnds \/ CloseEnds
    BY <1>5 DEF DisconnEnds, CloseEnds, EndingReady, MainFree
  <1>. QED  BY <1>1, <1>2, <1>3, <1>4, <1>5 DEF Next

LEMMA Inductive ==
    ASSUME Habits = {}
    PROVE  Spec => []IInv
  <1>1. Init => IInv
    BY InitOwned
  <1>2. IInv /\ [Next]_vars => IInv'
    BY NextKeepsInv, NextKeepsReady, TypeStep DEF IInv
  <1>. QED  BY <1>1, <1>2, PTL DEF Spec

\* A client that gives up an object whose conn() threw sees connAllocated and
\* connected agree with the CLI: one live handle for each allocated object, one
\* session for each connected one, no handle or session lost, whichever CLI
\* calls fail (dbconn.cc).
THEOREM HandlesOwned ==
    ASSUME Habits = {}
    PROVE  Spec => []HandleOwned
  <1>1. IInv => HandleOwned
    BY DEF IInv, Owned
  <1>. QED  BY <1>1, Inductive, PTL

\* The copies of a connection handle that statements keep are current until
\* their connection is disconnected or closed (dbstmt.cc:32).
THEOREM CopiesCurrent ==
    ASSUME Habits = {}
    PROVE  Spec => []CopyIsCurrent
  <1>1. IInv => CopyIsCurrent
    BY DEF IInv, Owned
  <1>. QED  BY <1>1, Inductive, PTL

\* No path through disconn, close or setConnAttr leaves a unit of work pending
\* on a connection that is gone (dbconn.cc:288-344).
THEOREM NoWorkLeftBehind ==
    ASSUME Habits = {}
    PROVE  Spec => []PendingHasSession
  <1>1. IInv => PendingHasSession
    BY DEF IInv, Owned
  <1>. QED  BY <1>1, Inductive, PTL

\* Work is committed or rolled back by the connection that made it, as long as
\* no statement is used after its connection ended (dbstmt.cc:1723-1757).
THEOREM WorkEndedByOwner ==
    ASSUME Habits = {}
    PROVE  Spec => []EndedByOwner
  <1>1. IInv => EndedByOwner
    BY DEF IInv
  <1>. QED  BY <1>1, Inductive, PTL

\* disconn() and close() fail only when a CLI function fails for a reason of its
\* own (dbconn.cc:297-308, 331-340).
THEOREM EndingSucceeds ==
    ASSUME Habits = {}
    PROVE  Spec => []EndingNeedsNoHelp
  <1>1. IInv => EndingNeedsNoHelp
    BY DEF IInv
  <1>. QED  BY <1>1, Inductive, PTL
=============================================================================
