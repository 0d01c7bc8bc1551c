-------------------------- MODULE MCSaveIngestion --------------------------
(* Instances of SaveIngestion for TLC. *)
EXTENDS SaveIngestion, TLC

CONSTANTS f1, f2, f3, a1, a2

(* Two rows of one account and one of another. *)
MCAccountOf == f1 :> a1 @@ f2 :> a2 @@ f3 :> a1

(* Files whose rows wait for each other's accounts in opposite orders and   *)
(* share a row; the second repeats that row.                              *)
MCFiles == {<<f1, f2>>, <<f2, f3, f2>>}

(* Two keys of one tenant, and one of them used by another tenant. *)
MCBatchId ==
  {[tenant |-> "t1", key |-> "k1", source |-> "s1"],
   [tenant |-> "t1", key |-> "k2", source |-> "s2"],
   [tenant |-> "t2", key |-> "k1", source |-> "s1"]}
=============================================================================
