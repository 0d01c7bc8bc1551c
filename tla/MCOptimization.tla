--------------------------- MODULE MCOptimization ---------------------------
(* An instance of Optimization for TLC: two calls that list, apply or dismiss *)
(* the first of two recommendations, while its figure changes in the bills.   *)
EXTENDS Optimization

CONSTANTS k1, k2, f1, f2

U(on, status, key) == [on |-> on, status |-> status, key |-> key]

MCRequests == {U(1, "applied", k1), U(1, "dismissed", k2)}

MCBills == {<<f1, f1>>, <<f2, f1>>}
=============================================================================
