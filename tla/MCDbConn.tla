------------------------------ MODULE MCDbConn ------------------------------
(* Instances of DbConn for TLC. *)
EXTENDS DbConn, TLC

CONSTANTS o1, o2, s1, s2, h1, h2, w1, w2

\* Objects of a kind are interchangeable.
Symmetry == Permutations({o1, o2}) \cup Permutations({s1, s2})
            \cup Permutations({h1, h2}) \cup Permutations({w1, w2})
=============================================================================
