------------------------- MODULE MCCloudConnections -------------------------
(* Instances of CloudConnections for TLC. *)
EXTENDS CloudConnections, TLC

CONSTANTS t1, f1

(* Every connection is of the first tenant; callers may be of another. *)
MCTenantOf == [x \in Connections |-> t1]

(* One billing row, which each read of an export finds again. *)
MCFiles == {<<f1>>}

(* Callers are interchangeable: no step tells one from another. *)
Callers == Permutations(Users)
=============================================================================
