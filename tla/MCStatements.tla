---------------------------- MODULE MCStatements ----------------------------
(* Instances of Statements for TLC. *)
EXTENDS Statements, TLC

(* Every call there could be. *)
AllRequests == Request

(* Approvals may share a key; every other call has one of its own. *)
FewKeysRequests == {r \in Request : r.key = Fresh \/ r.op = "approve"}

(* Callers are interchangeable: no step tells one from another. *)
Callers == Permutations(Users)
=============================================================================
