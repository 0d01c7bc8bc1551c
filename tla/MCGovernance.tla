---------------------------- MODULE MCGovernance ----------------------------
(* An instance of Governance for TLC: two calls at a time on an account     *)
(* group, its accounts and a credential. Keys are shared by different calls, *)
(* and a second tenant tries to delete the group.                           *)
EXTENDS Governance, TLC

CONSTANTS t1, t2, a1, a2, g1, c1, v1, v2, k1, k2, k3, k4, k5

MCOwnerOf == (a1 :> t1) @@ (a2 :> t1)

MCDrawnBy == (g1 :> "createAccountGroup") @@ (c1 :> "createCredential")

C(op, tenant, on, value, given, key) ==
  [op |-> op, tenant |-> tenant, on |-> on, value |-> value, parts |-> given,
   key |-> key]

MCRequests == {
  C("createAccountGroup", t1, None, v1, {{}}, k1),
  C("updateAccountGroup", t1, g1, None, {{a1}}, k2),
  C("updateAccountGroup", t1, g1, v2, {{a2}}, k3),
  C("deleteAccountGroup", t1, g1, None, {}, k4),
  C("deleteAccountGroup", t2, g1, None, {}, k5),
  C("createAccount", t1, a2, v2, {}, k4),
  C("createCredential", t1, None, v1, {}, k3),
  C("rotateCredential", t1, c1, v2, {}, k2) }
=============================================================================
