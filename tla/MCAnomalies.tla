---------------------------- MODULE MCAnomalies ----------------------------
(* An instance of Anomalies for TLC: two scans that find the same two        *)
(* anomalies, with changing evidence, and a user who gives verdicts, one key  *)
(* for two of them, and opens an anomaly again.                               *)
EXTENDS Anomalies

CONSTANTS k1, k2, e1, e2

U(on, status, key) == [on |-> on, status |-> status, key |-> key]

MCRequests == {U(1, "false_positive", k1), U(2, "resolved", k1), U(1, "open", k2)}

MCFinds == {<<e1, e1>>, <<e2, e1>>}
=============================================================================
