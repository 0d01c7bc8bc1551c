-------------------------- MODULE StatementFigures --------------------------
(***************************************************************************)
(* The figures of the statements generated for a period: which cost        *)
(* records each stakeholder's scopes select, the line items and totals     *)
(* they give, how the totals reconcile with what the tenant spent, the     *)
(* warnings, the variance against the period before and the sentences      *)
(* about it. Everything is loaded by queries of its own: the records of    *)
(* the period, once more for each scope on a group or a dimension, and the *)
(* records of the period before.                                           *)
(*                                                                         *)
(* A cost record has an id, an account, a resource, a service, the groups  *)
(* and the dimensions it is in, and its cost in cents. The billing data    *)
(* are [period, prior: sets of records, anomalies: open ones, each with    *)
(* the records it is evidence of].                                         *)
(***************************************************************************)
EXTENDS Integers, FiniteSets, FiniteSetsExt

CONSTANTS
  PageSize,  \* of the list of open anomalies: 200
  TopMovers  \* 5

SumCents(records) == SumFunction([r \in records |-> r.cents])

-----------------------------------------------------------------------------
(* Scopes. A scope has a type, what it refers to, and a filter: sets of    *)
(* accounts and of records, each of them matching all when it is empty.    *)

HasScopeFilter(scope) == scope.accounts # {} \/ scope.resources # {}

MatchesScopeFilter(r, scope) ==
  /\ scope.accounts = {} \/ r.account \in scope.accounts
  /\ scope.resources = {} \/ r.resource \in scope.resources

(* recordsForScope: the filter counts before the type, and a scope with    *)
(* neither (a view) selects everything.                                    *)
RecordsForScope(records, scope) ==
  {r \in records :
     CASE HasScopeFilter(scope) -> MatchesScopeFilter(r, scope)
       [] scope.type = "account_group" -> scope.ref \in r.groups
       [] scope.type = "dimension" -> scope.ref \in r.dimensions
       [] OTHER -> TRUE}

Assigned(records, scopes) == UNION {RecordsForScope(records, s) : s \in scopes}

(* The cost line of a scope; what two scopes select is in both lines. *)
CostLines(records, scopes) ==
  [s \in scopes |-> SumCents(RecordsForScope(records, s))]

Total(records, scopes) == SumCents(Assigned(records, scopes))

-----------------------------------------------------------------------------
(* Anomalies: one page of the open ones is loaded, the latest first.       *)

LoadedAnomalies(anomalies) ==
  {a \in anomalies : Cardinality({b \in anomalies : b.rank < a.rank}) < PageSize}

(* anomalyOverlapsStatement, where an anomaly of the period is one whose *)
(* window meets it.                                                      *)
Overlaps(anomaly, assigned) ==
  anomaly.inPeriod /\ \E r \in assigned : r.id \in anomaly.evidence

AnomalyLines(anomalies, assigned) ==
  {a \in LoadedAnomalies(anomalies) : Overlaps(a, assigned)}

-----------------------------------------------------------------------------
(* Reconciliation, over all stakeholders. Scopes is [stakeholder -> scopes]. *)

(* Mutant of AssignmentCount: counted for every scope. *)
AssignmentCountByScope(records, scopes, r) ==
  MapThenSumSet(LAMBDA s : Cardinality({x \in scopes[s] : r \in RecordsForScope(records, x)}),
                DOMAIN scopes)

AssignmentCount(records, scopes, r) ==
  Cardinality({s \in DOMAIN scopes : r \in Assigned(records, scopes[s])})

Unallocated(records, scopes) ==
  {r \in records : AssignmentCount(records, scopes, r) = 0}

Overlapping(records, scopes) ==
  {r \in records : AssignmentCount(records, scopes, r) > 1}

Reconciliation(records, scopes) ==
  LET tenantTotal == SumCents(records)
      allocated == SumCents(records \ Unallocated(records, scopes))
  IN  [tenantTotal |-> tenantTotal, allocatedUnique |-> allocated,
       unallocated |-> tenantTotal - allocated,
       overlap |-> SumCents(Overlapping(records, scopes))]

(* buildScopeWarnings, each with the amount and the records it names. *)
ScopeWarnings(records, scopes) ==
  LET rec == Reconciliation(records, scopes)
      warn(code, amount, named) ==
        IF named = {} THEN {} ELSE {[code |-> code, amount |-> amount, records |-> named]}
  IN  warn("overlap_detected", SumCents(Overlapping(records, scopes)),
           Overlapping(records, scopes))
      \cup warn("unallocated_spend_detected", rec.unallocated,
                Unallocated(records, scopes))

-----------------------------------------------------------------------------
(* Variance, by service. The period before is selected by the filters of   *)
(* the scopes alone: a scope on a group or a dimension selects all of it.  *)

PriorRecords(prior, scopes) ==
  IF scopes = {} THEN prior
  ELSE {r \in prior : \E s \in scopes : MatchesScopeFilter(r, s)}

OfService(records, service) == {r \in records : r.service = service}

VarianceMovers(current, prior) ==
  {[label |-> v, delta |-> SumCents(OfService(current, v)) - SumCents(OfService(prior, v))] :
     v \in {r.service : r \in current \cup prior}}

Moved(m) == IF m.delta < 0 THEN -m.delta ELSE m.delta

(* The largest first; labels are numbers, in their order. *)
Before(m, n) == Moved(m) > Moved(n) \/ (Moved(m) = Moved(n) /\ m.label < n.label)

VarianceTopMovers(movers) ==
  {m \in movers : Cardinality({n \in movers : Before(n, m)}) < TopMovers}

Largest(movers) == {m \in movers : \A n \in movers : ~Before(n, m)}

-----------------------------------------------------------------------------
(* The narrative names the total, what the tenant spent and the largest    *)
(* mover, and the amounts are read out of the text again and compared with *)
(* what they should be. claimPattern knows no minus sign: it reads nothing *)
(* in "$-5.00".                                                            *)

ExpectedClaims(statement) ==
  {statement.total, statement.tenantTotal} \cup {m.delta : m \in Largest(statement.movers)}

ClaimsRead(amounts) == {a \in amounts : a >= 0}

NarrativeIsValid(statement) ==
  ClaimsRead(ExpectedClaims(statement)) = ExpectedClaims(statement)

-----------------------------------------------------------------------------
(* generateStatements, for billing data and the scopes of stakeholders. It *)
(* throws as a whole when one narrative is not valid.                      *)

Statement(data, scopes, s) ==
  LET assigned == Assigned(data.period, scopes[s])
  IN  [total |-> Total(data.period, scopes[s]),
       lines |-> CostLines(data.period, scopes[s]),
       anomalies |-> AnomalyLines(data.anomalies, assigned),
       tenantTotal |-> Reconciliation(data.period, scopes).tenantTotal,
       movers |-> VarianceTopMovers(
                    VarianceMovers(assigned, PriorRecords(data.prior, scopes[s])))]

Generated(data, scopes) == [s \in DOMAIN scopes |-> Statement(data, scopes, s)]

Throws(data, scopes) ==
  \E s \in DOMAIN scopes : ~NarrativeIsValid(Generated(data, scopes)[s])
=============================================================================
