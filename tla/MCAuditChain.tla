---------------------------- MODULE MCAuditChain ----------------------------
(* Instances of AuditChain for TLC. *)
EXTENDS AuditChain, TLC

(* No step tells one transaction, or one tenant, from another. *)
Symmetry == Permutations(Txns) \cup Permutations(Owners)
=============================================================================
