------------------------------ MODULE MCDbStmt ------------------------------
(* Instances of DbStmt for TLC. *)
EXTENDS DbStmt, TLC

CONSTANTS select, insert, wide, A, B, c1, c2, c3

\* One query and one update.
OneShape      == {A}
OneShapeCols  == (A :> 2)
OneQuery      == {select}
OneResult     == (select :> <<A>>)
TwoStatements == {select, insert}
TwoResults    == (select :> <<A>> @@ insert :> <<>>)

\* A call that returns two result sets of different widths, and a query.
TwoShapes     == {A, B}
TwoShapesCols == (A :> 1 @@ B :> 2)
CallResults   == (wide :> <<A, B>> @@ select :> <<B>>)
CallQueries   == {wide, select}

=============================================================================
