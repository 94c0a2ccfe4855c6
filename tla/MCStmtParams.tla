---------------------------- MODULE MCStmtParams ----------------------------
(* Instances of StmtParams for TLC. *)
EXTENDS StmtParams, TLC

CONSTANTS proc, insert, plain, c1, c2

M(io, type) == [io |-> io, type |-> type]

\* A procedure with an input and an output, an insert, and a statement
\* without markers.
MCQueries == {proc, insert, plain}
MCMarkers == (proc   :> <<M("in", "int"), M("out", "int")>> @@
              insert :> <<M("in", "int"), M("in", "text")>> @@
              plain  :> <<>>)

P(kind, v, io) == [kind |-> kind, v |-> v, io |-> io]

\* Arrays for the procedure; a NULL and a bare value that is not of the type
\* of its marker; an integer beyond an Int32 and a NULL for an output, both bare;
\* arrays of which one is refused, at once or when its direction is read.
MCLists == { <<P("int", -2, "in"), P("int", 0, "out")>>,
             <<P("null", 0, "in"), P("int", 1, "unsaid")>>,
             <<P("int", 2, "unsaid"), P("null", 0, "unsaid")>>,
             <<P("text", 0, "in"), P("bad", 0, "in")>>,
             <<P("int", 1, "in"), P("half", 0, "out")>> }
MCOutInts == {1, 2}

\* Calls are interchangeable; the runs check invariants only.
Symmetry == Permutations(Calls)
=============================================================================
