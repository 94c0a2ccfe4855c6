----------------------------- MODULE ResultSets -----------------------------
(***************************************************************************)
(* What a client that waits for each call may rely on for the rows of its  *)
(* statement.  Result sets are opened one after the other; the rows of the *)
(* open one are read in order; a row that was read is handed to the client *)
(* once, and only a fetch that reports an error may keep rows back or drop *)
(* them.  DbStmt implements it (CursorView in that module).                *)
(***************************************************************************)
EXTENDS Integers, Sequences

CONSTANT NRows  \* rows of a result set

VARIABLES
    run,        \* the number of result sets opened; the last one is current
    pos,        \* rows of the current result set that were read
    buffer,     \* rows read in bulk and not yet handed over, in order
    hand,       \* the row of a fetch whose callback is due, if there is one
    handed,     \* all rows handed to the client, in order
    failed      \* result sets of which a fetch reported an error

vars == <<run, pos, buffer, hand, handed, failed>>

\* The next k rows of the current result set.
Upcoming(k) == [i \in 1..k |-> [run |-> run, pos |-> pos + i]]
InFlight == hand # <<>> \/ \E i \in DOMAIN buffer : buffer[i].run \notin failed

Init ==
    /\ run = 0 /\ pos = 0
    /\ buffer = <<>> /\ hand = <<>> /\ handed = <<>>
    /\ failed = {}

\* exec, execute, nextResult.  Nothing that was read is on its way.
Open ==
    /\ ~InFlight
    /\ run' = run + 1 /\ pos' = 0
    /\ UNCHANGED <<buffer, hand, handed, failed>>

Advance(k) == k \in 0..(NRows - pos) /\ pos' = pos + k /\ UNCHANGED run

\* A worker of exec or fetchAll reads a row.
Read ==
    /\ hand = <<>> /\ Advance(1)
    /\ buffer' = buffer \o Upcoming(1)
    /\ UNCHANGED <<hand, handed, failed>>

\* A callback of exec or fetchAll, or the whole of fetchAllSync: the rows of
\* the buffer are handed over, with those a failed call had left there.
HandOver(k) ==
    /\ hand = <<>> /\ Advance(k)
    /\ handed' = handed \o buffer \o Upcoming(k)
    /\ buffer' = <<>>
    /\ UNCHANGED <<hand, failed>>

\* The worker of fetch.
Hold ==
    /\ ~InFlight /\ Advance(1)
    /\ hand' = Upcoming(1)
    /\ UNCHANGED <<buffer, handed, failed>>

\* The callback of fetch.
Answer ==
    /\ hand # <<>>
    /\ handed' = handed \o hand
    /\ hand' = <<>>
    /\ UNCHANGED <<run, pos, buffer, failed>>

\* fetchSync.
Next1 ==
    /\ ~InFlight /\ Advance(1)
    /\ handed' = handed \o Upcoming(1)
    /\ UNCHANGED <<buffer, hand, failed>>

\* A fetch of the current result set reports an error; the rows read in bulk
\* stay for the next call that hands some over, or are dropped.
Fail(k) ==
    /\ hand = <<>> /\ Advance(k)
    /\ buffer' \in {buffer \o Upcoming(k), <<>>}
    /\ failed' = failed \cup {run}
    /\ UNCHANGED <<hand, handed>>

Next ==
    \/ Open \/ Read \/ Hold \/ Answer \/ Next1
    \/ \E k \in 0..NRows : HandOver(k) \/ Fail(k)

Spec == Init /\ [][Next]_vars
=============================================================================
