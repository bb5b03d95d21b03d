--------------------------- MODULE MCProcessTree ----------------------------
(* initproc g and three processes of one thread each; or the process a
   with a second thread a2. *)
EXTENDS ProcessTree, TLC

CONSTANTS g, a, b, c, a2

Single == [t \in {g, a, b, c} |-> t]
Double == [t \in {g, a, b, c, a2} |-> IF t = a2 THEN a ELSE t]

PermsChildren == Permutations({b, c})
=============================================================================
