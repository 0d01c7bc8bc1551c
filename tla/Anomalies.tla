------------------------------ MODULE Anomalies ------------------------------
(***************************************************************************)
(* Billing anomalies of one tenant, over PostgreSQL. A scan loads the cost *)
(* records and then the suppressions, each by a query of its own, and in   *)
(* one transaction visits its candidates in order: it looks the anomaly    *)
(* up, inserts it, refreshes it while it is open, or passes over it. After *)
(* the commit it publishes an event for each anomaly it inserted. A user   *)
(* gives an anomaly a status under an idempotency key, and a verdict of    *)
(* false positive also suppresses its fingerprint, in that transaction.    *)
(*                                                                         *)
(* An anomaly is its place in the order of candidates; it stands for its   *)
(* id and its fingerprint, which are made from one another. The severity,  *)
(* window, metrics and explanation are its evidence.                       *)
(***************************************************************************)
EXTENDS Naturals

CONSTANTS
  Scans,     \* scans that can be in progress at once
  Users,     \* updates that can be in progress at once
  Count,     \* the anomalies there may be
  Evidence,  \* what there may be to say of one
  Finds,     \* what the cost records may show a scan
  Requests,  \* the updates users send
  Keys,      \* their idempotency keys
  None       \* no row, no answer, no request

Ids == 1..Count
Callers == Scans \cup Users

(* The candidates of a scan, with their evidence. *)
Candidates == UNION {[S -> Evidence] : S \in SUBSET Ids}

AnomalyStatus == {"open", "acknowledged", "resolved", "false_positive"}
Anomaly == [status : AnomalyStatus, evidence : Evidence]
Request == [on : Ids, status : AnomalyStatus, key : Keys]

ASSUME AnomaliesAssumption ==
  /\ Count \in Nat
  /\ Scans \cap Users = {}
  /\ Finds \subseteq Candidates
  /\ Requests \subseteq Request
  /\ None \notin Anomaly \cup Request

VARIABLES
  anomalies,   \* the table, by primary key
  suppressed,  \* anomaly_suppressions, by fingerprint
  answers,     \* billing_agent_idempotency
  events,      \* how often each anomaly was published as detected
  pc,          \* the next query of each scan and update
  req,         \* the arguments of an update
  found,       \* the candidates a scan has still to visit
  own,         \* the rows a transaction has written, and so locked
  created      \* the anomalies a scan has inserted and not published

tables == <<anomalies, suppressed, answers>>
vars == <<tables, events, pc, req, found, own, created>>

NoRows == [i \in Ids |-> None]

NoCandidates == [i \in {} |-> None]

TypeOK ==
  /\ anomalies \in [Ids -> Anomaly \cup {None}]
  /\ suppressed \subseteq Ids
  /\ answers \in [Keys -> Anomaly \cup {None}]
  /\ events \in [Ids -> Nat]
  /\ pc \in [Callers -> {"idle", "suppressions", "visit", "insert", "refresh",
                         "lookup", "read", "write", "suppress", "store",
                         "commit", "publish"}]
  /\ req \in [Users -> Request \cup {None}]
  /\ found \in [Scans -> Candidates]
  /\ own \in [Callers -> [Ids -> Anomaly \cup {None}]]
  /\ created \in [Scans -> SUBSET Ids]

Init ==
  /\ anomalies = NoRows
  /\ suppressed = {}
  /\ answers = [k \in Keys |-> None]
  /\ events = [i \in Ids |-> 0]
  /\ pc = [c \in Callers |-> "idle"]
  /\ req = [u \in Users |-> None]
  /\ found = [s \in Scans |-> NoCandidates]
  /\ own = [c \in Callers |-> NoRows]
  /\ created = [s \in Scans |-> {}]
-----------------------------------------------------------------------------
Goto(c, step) == pc' = [pc EXCEPT ![c] = step]

(* Row locks: c waits for those who have written row i and not committed. *)
Blockers(c, i) == {d \in Callers \ {c} : own[d][i] # None}

Write(c, i, row) == own' = [own EXCEPT ![c][i] = row]

EndScan(s) ==
  /\ Goto(s, "idle")
  /\ found' = [found EXCEPT ![s] = NoCandidates]
  /\ own' = [own EXCEPT ![s] = NoRows]
  /\ created' = [created EXCEPT ![s] = {}]
  /\ UNCHANGED req

EndUpdate(u) ==
  /\ Goto(u, "idle")
  /\ req' = [req EXCEPT ![u] = None]
  /\ own' = [own EXCEPT ![u] = NoRows]
  /\ UNCHANGED <<found, created>>

(* COMMIT of the rows a transaction has written. *)
CommitRows(c) ==
  anomalies' = [i \in Ids |-> IF own[c][i] = None THEN anomalies[i] ELSE own[c][i]]
-----------------------------------------------------------------------------
(* Scans.                                                                  *)

(* loadTenantRecords: the records may have changed since the last scan. *)
LoadRecords(s) ==
  /\ pc[s] = "idle"
  /\ \E f \in Finds : found' = [found EXCEPT ![s] = f]
  /\ Goto(s, "suppressions")
  /\ UNCHANGED <<tables, events, req, own, created>>

Without(f, S) == [i \in DOMAIN f \ S |-> f[i]]

(* listSuppressedFingerprints, and the filter. *)
FilterSuppressed(s) ==
  /\ pc[s] = "suppressions"
  /\ found' = [found EXCEPT ![s] = Without(@, suppressed)]
  /\ Goto(s, "visit")
  /\ UNCHANGED <<tables, events, req, own, created>>

(* Mutant of IsNext: the candidates are not sorted. *)
IsNextUnsorted(s, i) == i \in DOMAIN found[s]

(* The candidates are visited in the order of their ids. *)
IsNext(s, i) ==
  /\ i \in DOMAIN found[s]
  /\ \A j \in DOMAIN found[s] : i <= j

Visited(s, i) == found' = [found EXCEPT ![s] = Without(@, {i})]

Reviewed(i) == anomalies[i] # None /\ anomalies[i].status # "open"

(* SELECT, which sees committed rows and does not wait. *)
LookUp(s) ==
  /\ pc[s] = "visit"
  /\ \E i \in Ids :
       /\ IsNext(s, i) /\ ~Reviewed(i)
       /\ Goto(s, IF anomalies[i] = None THEN "insert" ELSE "refresh")
  /\ UNCHANGED <<tables, events, req, found, own, created>>

(* The anomaly is not open any more. *)
PassOver(s) ==
  /\ pc[s] = "visit"
  /\ \E i \in Ids : IsNext(s, i) /\ Reviewed(i) /\ Visited(s, i)
  /\ UNCHANGED <<tables, events, pc, req, own, created>>

Throw(c) ==
  /\ IF c \in Scans THEN EndScan(c) ELSE EndUpdate(c)
  /\ UNCHANGED <<tables, events>>

(* Mutant of Insert: ON CONFLICT (id) DO UPDATE SET evidence_json. *)
InsertOrUpdate(s) ==
  /\ pc[s] = "insert"
  /\ \E i \in Ids :
       /\ IsNext(s, i) /\ Blockers(s, i) = {}
       /\ Write(s, i, IF anomalies[i] = None
            THEN [status |-> "open", evidence |-> found[s][i]]
            ELSE [anomalies[i] EXCEPT !.evidence = found[s][i]])
       /\ created' = [created EXCEPT ![s] = @ \cup {i}]
       /\ Visited(s, i)
  /\ Goto(s, "visit")
  /\ UNCHANGED <<tables, events, req>>

Insert(s) ==
  /\ pc[s] = "insert"
  /\ \E i \in Ids :
       /\ IsNext(s, i) /\ Blockers(s, i) = {} /\ anomalies[i] = None
       /\ Write(s, i, [status |-> "open", evidence |-> found[s][i]])
       /\ created' = [created EXCEPT ![s] = @ \cup {i}]
       /\ Visited(s, i)
  /\ Goto(s, "visit")
  /\ UNCHANGED <<tables, events, req>>

(* The primary key: another scan has inserted the anomaly meanwhile. *)
InsertConflicts(s) ==
  /\ pc[s] = "insert"
  /\ \E i \in Ids : IsNext(s, i) /\ Blockers(s, i) = {} /\ anomalies[i] # None
  /\ Throw(s)

(* Mutant of Refresh: the UPDATE does not ask for status = 'open'. *)
RefreshAny(s) ==
  /\ pc[s] = "refresh"
  /\ \E i \in Ids :
       /\ IsNext(s, i) /\ Blockers(s, i) = {}
       /\ Write(s, i, [anomalies[i] EXCEPT !.evidence = found[s][i]])
       /\ Visited(s, i)
  /\ Goto(s, "visit")
  /\ UNCHANGED <<tables, events, req, created>>

(* UPDATE ... WHERE status = 'open', of the row as it is once it is free. *)
Refresh(s) ==
  /\ pc[s] = "refresh"
  /\ \E i \in Ids :
       /\ IsNext(s, i) /\ Blockers(s, i) = {} /\ ~Reviewed(i)
       /\ Write(s, i, [anomalies[i] EXCEPT !.evidence = found[s][i]])
       /\ Visited(s, i)
  /\ Goto(s, "visit")
  /\ UNCHANGED <<tables, events, req, created>>

(* It has been reviewed meanwhile: no row is returned, and mapAnomaly throws *)
(* on it. The whole scan is rolled back.                                    *)
RefreshFindsNone(s) ==
  /\ pc[s] = "refresh"
  /\ \E i \in Ids : IsNext(s, i) /\ Blockers(s, i) = {} /\ Reviewed(i)
  /\ Throw(s)

CommitScan(s) ==
  /\ pc[s] = "visit" /\ DOMAIN found[s] = {}
  /\ CommitRows(s)
  /\ own' = [own EXCEPT ![s] = NoRows]
  /\ Goto(s, "publish")
  /\ UNCHANGED <<suppressed, answers, events, req, found, created>>

(* One event for each anomaly inserted, kept in memory. *)
Publish(s) ==
  /\ pc[s] = "publish"
  /\ \E i \in created[s] :
       /\ events' = [events EXCEPT ![i] = @ + 1]
       /\ created' = [created EXCEPT ![s] = @ \ {i}]
  /\ UNCHANGED <<tables, pc, req, found, own>>

ScanEnds(s) ==
  /\ pc[s] = "publish" /\ created[s] = {}
  /\ EndScan(s)
  /\ UNCHANGED <<tables, events>>
-----------------------------------------------------------------------------
(* Updates.                                                                *)

UpdateStatus(u) ==
  /\ pc[u] = "idle"
  /\ \E r \in Requests : req' = [req EXCEPT ![u] = r]
  /\ Goto(u, "lookup")
  /\ UNCHANGED <<tables, events, found, own, created>>

(* withIdempotency: the key has an answer already. *)
Replay(u) ==
  /\ pc[u] = "lookup" /\ answers[req[u].key] # None
  /\ EndUpdate(u)
  /\ UNCHANGED <<tables, events>>

KeyNotFound(u) ==
  /\ pc[u] = "lookup" /\ answers[req[u].key] = None
  /\ Goto(u, "read")
  /\ UNCHANGED <<tables, events, req, found, own, created>>

AnomalyFound(u) ==
  /\ pc[u] = "read" /\ anomalies[req[u].on] # None
  /\ Goto(u, "write")
  /\ UNCHANGED <<tables, events, req, found, own, created>>

AnomalyNotFound(u) ==
  /\ pc[u] = "read" /\ anomalies[req[u].on] = None
  /\ Throw(u)

(* Any status may follow any other, open included. *)
SetStatus(u) ==
  LET i == req[u].on
  IN  /\ pc[u] = "write" /\ Blockers(u, i) = {}
      /\ Write(u, i, [anomalies[i] EXCEPT !.status = req[u].status])
      /\ Goto(u, IF req[u].status = "false_positive" THEN "suppress" ELSE "store")
      /\ UNCHANGED <<tables, events, req, found, created>>

(* Mutant of Suppress: through the pool, so outside the transaction. *)
SuppressByPool(u) ==
  /\ pc[u] = "suppress"
  /\ suppressed' = suppressed \cup {req[u].on}
  /\ Goto(u, "store")
  /\ UNCHANGED <<anomalies, answers, events, req, found, own, created>>

(* recordSuppressionWithClient: seen by others when the update commits. *)
Suppress(u) ==
  /\ pc[u] = "suppress"
  /\ Goto(u, "store")
  /\ UNCHANGED <<tables, events, req, found, own, created>>

KeyBlockers(u) ==
  {v \in Users \ {u} : pc[v] = "commit" /\ req[v].key = req[u].key}

(* ON CONFLICT DO NOTHING: it waits for an open insert of the key, and if *)
(* that commits goes on without an answer of its own.                     *)
StoreAnswer(u) ==
  /\ pc[u] = "store" /\ KeyBlockers(u) = {}
  /\ Goto(u, "commit")
  /\ UNCHANGED <<tables, events, req, found, own, created>>

CommitUpdate(u) ==
  LET r == req[u]
  IN  /\ pc[u] = "commit"
      /\ CommitRows(u)
      /\ suppressed' = suppressed \cup (IF r.status = "false_positive" THEN {r.on} ELSE {})
      /\ answers' = [answers EXCEPT ![r.key] = IF @ = None THEN own[u][r.on] ELSE @]
      /\ EndUpdate(u)
      /\ UNCHANGED events
-----------------------------------------------------------------------------
(* A query fails or the process dies: PostgreSQL drops the transaction, and *)
(* the events of a scan that has committed are not published.               *)
Fails(c) ==
  /\ pc[c] # "idle"
  /\ Throw(c)

Step(c) ==
  \/ c \in Scans /\
       \/ FilterSuppressed(c) \/ LookUp(c) \/ PassOver(c)
       \/ Insert(c) \/ InsertConflicts(c) \/ Refresh(c) \/ RefreshFindsNone(c)
       \/ CommitScan(c) \/ Publish(c) \/ ScanEnds(c)
  \/ c \in Users /\
       \/ Replay(c) \/ KeyNotFound(c) \/ AnomalyFound(c) \/ AnomalyNotFound(c)
       \/ SetStatus(c) \/ Suppress(c) \/ StoreAnswer(c) \/ CommitUpdate(c)

Next ==
  \/ \E s \in Scans : LoadRecords(s)
  \/ \E u \in Users : UpdateStatus(u)
  \/ \E c \in Callers : Step(c) \/ Fails(c)

Spec == Init /\ [][Next]_vars

(* PostgreSQL answers every query, and those who wait for a row or a key are *)
(* served in turn. Its deadlock detector is not relied on.                  *)
Fairness == \A c \in Callers : SF_vars(Step(c))

FairSpec == Spec /\ Fairness
-----------------------------------------------------------------------------
(* Once a user has given an anomaly a verdict, no scan changes it or the    *)
(* evidence the verdict was given on, even one that had read the anomaly as *)
(* open: only another user's update does, and it keeps the evidence.        *)
ReviewedStays ==
  [][\A i \in Ids : Reviewed(i) /\ anomalies'[i] # anomalies[i] =>
       /\ anomalies'[i].evidence = anomalies[i].evidence
       /\ \E u \in Users : pc[u] = "commit" /\ req[u].on = i]_vars

(* Of all the scans that meet an anomaly at once, crash and run again, one  *)
(* announces it at most, and only after its row was committed.              *)
AnnouncedOnce ==
  \A i \in Ids :
    events[i] # 0 => /\ events[i] = 1 /\ anomalies[i] # None
                     /\ \A s \in Scans : pc[s] = "publish" => i \notin created[s]

(* A fingerprint is suppressed by the step that commits its verdict of      *)
(* false positive, and by no other: neither is ever seen without the other. *)
SuppressedByVerdict ==
  [][\A i \in Ids :
       LET false_positive(row) == row # None /\ row.status = "false_positive"
       IN  /\ false_positive(anomalies'[i]) => i \in suppressed'
           /\ i \in suppressed' \ suppressed => false_positive(anomalies'[i])]_vars

(* Every scan and update ends: scans lock the anomalies in one order, so    *)
(* that no two transactions wait for each other.                            *)
CallsEnd == \A c \in Callers : pc[c] # "idle" ~> pc[c] = "idle"
-----------------------------------------------------------------------------
(* What the proofs rest on: what an update has read and written, ...        *)
UpdateHolds(u) ==
  LET i == req[u].on
      written == pc[u] \in {"suppress", "store", "commit"}
  IN  /\ written \/ pc[u] \in {"lookup", "read", "write"} => req[u] # None
      /\ written \/ pc[u] = "write" => anomalies[i] # None
      /\ written => /\ own[u][i] # None /\ own[u][i].status = req[u].status
                    /\ own[u][i].evidence = anomalies[i].evidence
      /\ \A j \in Ids : own[u][j] # None => written /\ j = i

(* ... what a scan has written in its transaction, or has to announce, ...  *)
ScanHolds(s) ==
  \A i \in Ids :
    /\ pc[s] = "refresh" /\ IsNext(s, i) => anomalies[i] # None
    /\ own[s][i] # None => /\ pc[s] \in {"visit", "insert", "refresh"}
                           /\ own[s][i].status = "open" /\ ~Reviewed(i)
                           /\ i \in created[s] <=> anomalies[i] = None
    /\ i \in created[s] => IF pc[s] = "publish"
                             THEN anomalies[i] # None /\ events[i] = 0
                             ELSE own[s][i] # None

(* ... that no two write one anomaly, or are to announce it, ...            *)
LocksExclusive ==
  \A c, d \in Callers, i \in Ids : own[c][i] # None /\ own[d][i] # None => c = d

OneAnnounces ==
  \A s, t \in Scans :
    pc[s] = "publish" /\ pc[t] = "publish" /\ created[s] \cap created[t] # {} => s = t

(* ... and that a verdict of false positive is always suppressed.           *)
VerdictSuppresses ==
  \A i \in Ids :
    anomalies[i] # None /\ anomalies[i].status = "false_positive" => i \in suppressed

Inv ==
  /\ \A u \in Users : UpdateHolds(u)
  /\ \A s \in Scans : ScanHolds(s)
  /\ LocksExclusive
  /\ OneAnnounces
  /\ AnnouncedOnce
  /\ VerdictSuppresses
=============================================================================
