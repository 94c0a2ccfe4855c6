---------------------------- MODULE DbStmtRaces ----------------------------
(***************************************************************************)
(* The executions of DbStmt in which two threads use the memory of the     *)
(* statement at once.                                                      *)
(*                                                                         *)
(* colCount, dbColumn, bindingRowInC and resultSetInC are used by workers  *)
(* and by the main thread, and dbstmt.cc has no lock.  What a worker does  *)
(* comes after what the main thread did before it queued the worker, and   *)
(* before what the main thread does from the worker's callback on.         *)
(* Nothing else orders the two, and nothing orders workers on different    *)
(* threads of the pool.  Two uses in no order are a data race: neither     *)
(* needs to find the other's work whole, a push_back may move the rows     *)
(* that buildJsObject() reads (dbstmt.cc:2468, 2475-2548), and steps as    *)
(* large as those of DbStmt no longer stand for the code.                  *)
(*                                                                         *)
(* History variables record it; they never keep DbStmt from a step.  The   *)
(* parameters of the statement, which have a module of their own, and the  *)
(* CLI handle, which the CLI guards, do not count as such memory.          *)
(***************************************************************************)
EXTENDS DbStmt

VARIABLES
    touched,  \* outstanding calls whose worker has used that memory
    beside,   \* outstanding calls whose worker is not ordered after another
              \* thread's use of it
    raced     \* have two uses been in no order?

order == <<touched, beside, raced>>
racyVars == <<vars, order>>

RaceTypeOK == touched \subseteq Calls /\ beside \subseteq Calls /\ raced \in BOOLEAN

-----------------------------------------------------------------------------
(* What a use of the memory is not ordered with *)

\* The main thread uses it, in the callback of the calls own or in a method.
ByMain(own) ==
    LET others == Outstanding \ own
    IN  /\ touched' = touched \ own
        /\ beside' = (beside \ own) \cup others
        /\ raced' = (raced \/ others \cap touched # {})

\* The worker of c uses it; a single pool thread runs one worker after another.
ByWorker(c) ==
    LET others == IF PoolSize > 1 THEN Outstanding \ {c} ELSE {}
    IN  /\ touched' = touched \cup {c}
        /\ beside' = beside \cup others
        /\ raced' = (raced \/ c \in beside \/ others \cap touched # {})

\* Synchronous methods that look at the handle and stmtAllocated alone.
QuietOps == {"prepareSync", "closeCursor", "setStmtAttr", "getStmtAttr",
             "numRows", "stmtError"}

\* execSync uses the memory before its callback and after it.
SyncOrder ==
    IF reply'.op \in QuietOps /\ inCallback' = inCallback
    THEN UNCHANGED order ELSE ByMain({})

\* A worker queued while another one that used the memory has not called back
\* may run on another thread of the pool.
AsyncOrder(c) ==
    /\ beside' = IF PoolSize > 1 /\ touched # {} /\ calls'[c].pc = "queued"
                 THEN beside \cup {c} ELSE beside
    /\ UNCHANGED <<touched, raced>>

\* SQLNumResultCols and bindColData() use it, and so does each row fetched.
WorkerOrder(c) ==
    IF calls[c].pc = "bind" \/ stmt'.pos > stmt.pos
    THEN ByWorker(c) ELSE UNCHANGED order

\* OnOK() of exec looks at colCount and resultSetInC, that of fetch and of
\* fetchAll at everything; the other callbacks at none of it.
DeliverOrder(c) ==
    IF calls[c].op \in {"exec", "fetch", "fetchAll"} /\ ~calls[c].err
    THEN ByMain({c})
    ELSE /\ touched' = touched \ {c} /\ beside' = beside \ {c}
         /\ UNCHANGED raced

-----------------------------------------------------------------------------

RaceInit == Init /\ touched = {} /\ beside = {} /\ raced = FALSE

RaceNext ==
    \/ SyncCall /\ SyncOrder
    \/ \E c \in Calls :
         \/ AsyncCall(c) /\ AsyncOrder(c)
         \/ WorkerStep(c) /\ WorkerOrder(c)
         \/ Deliver(c) /\ DeliverOrder(c)

RaceSpec == RaceInit /\ [][RaceNext]_racyVars

FairRaceSpec == RaceSpec /\ Fairness

\* No two threads use the column descriptions, the binding row or the fetched
\* rows of a statement at once, although no lock guards them: a client that
\* overlaps its calls but leaves the cursor open is kept from it by the early
\* return of every worker whose execution the CLI refused (dbstmt.cc:290-295).
NoRace == ~raced
=============================================================================
