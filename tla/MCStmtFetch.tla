----------------------------- MODULE MCStmtFetch -----------------------------
(* An instance of StmtFetch for TLC. *)
EXTENDS StmtFetch

Col(type, precise) == [sqlType |-> type, colPrecise |-> precise]

\* A Buffer on either side of a CLOB, a number, and decimals at the limit.
MCLayout == <<Col("VARBINARY", 8), Col("DECIMAL", 15), Col("NUMERIC", 16),
              Col("BOOLEAN", 1), Col("CLOB", 100), Col("BINARY", 8)>>

\* The second row has a CLOB, the third no first Buffer.  The first has an
\* inconsistent Buffer, which fetchAll does not survive; the numbers and the
\* BOOLEAN of the third are inconsistent.
MCNull == {<<1, 5>>, <<3, 5>>, <<3, 1>>}
MCBad  == {<<1, 6>>, <<3, 2>>, <<3, 3>>, <<3, 4>>}

At(orient, offset) == [orient |-> orient, offset |-> offset]
MCPositions == {At("FIRST", 0), At("LAST", 0), At("PRIOR", 0),
                At("RELATIVE", 2), At("ABSOLUTE", -1)}
=============================================================================
