--------------------------- MODULE MCParsedCalls ---------------------------
(* Instances for TLC: one attachment with two transactions. *)
EXTENDS ParsedCalls

CONSTANTS k1, k2, p, none, q1, q2

Statement(n) == [kind |-> "statement", name |-> none, statement |-> n]
Procedure(n) == [kind |-> "procedure", name |-> n, statement |-> NoStatement]

\* Two statements, one without a number, and a recursive procedure.
Called == {Statement(q1), Statement(q2), Statement(NoStatement), Procedure(p)}

\* Transactions and statement numbers are only compared.
Renamings == Permutations({k1, k2}) \cup Permutations({q1, q2})
=============================================================================
