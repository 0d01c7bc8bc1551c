---------------------------- MODULE BillingFigures ----------------------------
(***************************************************************************)
(* From the exports of the cloud providers to the figures computed from    *)
(* them. A provider delivers export objects, each under a key it may use   *)
(* again; a read takes one object, normalizes its rows and stores those    *)
(* that are no duplicates. Statements, anomalies, reports and summaries    *)
(* are computed from what is stored, whenever that is.                     *)
(*                                                                         *)
(* How a batch is stored, query by query, is in SaveIngestion; here a read *)
(* is one step.                                                            *)
(***************************************************************************)
EXTENDS Integers, Sequences, FiniteSets, SequencesExt

CONSTANTS
  Providers,
  Sources,        \* the URIs that are asked for
  Connections,    \* [Providers -> registered connections]
  ObjectKeys,     \* [Providers -> set of numbers]
  Deliveries,     \* [Providers -> sets of rows that an object may hold]
  MaxDeliveries,  \* bound of the model
  Groups,         \* [accounts -> groups]
  Tags,           \* [resources -> <<key, value>> pairs]
  Dimensions,     \* [dimensions -> mappings]
  Scopes,         \* [stakeholders -> scopes], the possible ones
  Queries,
  Views,
  FirstDay,       \* of the period that statements are generated for
  PeriodDays,     \* its length, and that of the one before
  RateUnit, UsageUnit,
  ListLimit, MaxRows, PageLimit, PageSize, TopMovers,
  UnitPriceChangePercent, UsageWindowDays, UsageMadThreshold,
  NewSpendFloor, CommitmentCoverageFloor, LittleUsage, LittleCost, CostFloor,
  Missing

(* A cent is an even number of rate units, as rounding to it needs. *)
ASSUME UnitsAssumption ==
  /\ RateUnit \in Nat \ {0} /\ RateUnit % 200 = 0
  /\ UsageUnit \in Nat \ {0}

Exports == INSTANCE BillingExports WITH None <- Missing
Money == INSTANCE Decimals
Costs == INSTANCE CostQueries WITH None <- Missing
Detection == INSTANCE AnomalyDetection
Figures == INSTANCE StatementFigures

Delivery ==
  UNION {[provider : {p}, key : ObjectKeys[p], rows : Deliveries[p]] : p \in Providers}

(* What is parsed of the rows that are complete. *)
Complete(p) ==
  Exports!Parsed({row \in UNION Deliveries[p] : ~Exports!Unreadable({row})})

(* Keys are listed in an order, an object holds finitely many rows, and a  *)
(* tenant has finitely many stakeholders. The number of a row is its place *)
(* among the rows of its provider, and its day one of the calendar.        *)
ASSUME DeliveriesAssumption ==
  /\ ListLimit \in Nat
  /\ \A p \in Providers :
       /\ ObjectKeys[p] \subseteq Nat
       /\ \A rows \in Deliveries[p] : IsFiniteSet(rows)
       /\ \A row \in Complete(p) : /\ row["n"] \in Nat /\ row["from"][1] \in Int
                                   /\ row["rate"] \in Int /\ row["hours"] \in Int
       /\ \A row, other \in Complete(p) : row["n"] = other["n"] => row = other

ASSUME PeriodAssumption == FirstDay \in Int /\ PeriodDays \in Nat

ASSUME QueriesAssumption == PageLimit \in Nat

ASSUME ScopesAssumption == \A chosen \in Scopes : IsFiniteSet(DOMAIN chosen)

VARIABLES
  delivered,  \* sequence of the deliveries: provider, key, rows
  records,    \* cost_records
  scopes      \* billing_scopes, by stakeholder

figureVars == <<delivered, records, scopes>>

-----------------------------------------------------------------------------
(* What is in the bucket of a provider, and what a read takes from it. *)

IsReplaced(n) ==
  \E k \in DOMAIN delivered :
    /\ k > n /\ delivered[k].provider = delivered[n].provider
    /\ delivered[k].key = delivered[n].key

Objects(p) ==
  {[key |-> delivered[n].key, modified |-> n, rows |-> delivered[n].rows,
    isCsv |-> TRUE, isEmpty |-> delivered[n].rows = {}] :
     n \in {n \in DOMAIN delivered : delivered[n].provider = p /\ ~IsReplaced(n)}}

(* A BigQuery table is one object, all rows of which are queried. *)
RowsRead(p, uri) ==
  IF p = "gcp" THEN Exports!Queried(UNION {o.rows : o \in Objects(p)})
  ELSE UNION {o.rows : o \in Exports!Located(Objects(p), uri)}

-----------------------------------------------------------------------------
(* A stored record: what the adapter makes of the row, and what the tables *)
(* it is joined with say of it.                                            *)

Record(p, row) ==
  LET r == Exports!Normalize(p, row)
  IN  [id |-> row["n"], fingerprint |-> r.id, provider |-> p, connection |-> p,
       account |-> r.account, resource |-> r.resource, service |-> r.service,
       family |-> r.family, lease |-> r.lease, transaction |-> r.transaction,
       isEstimate |-> r.isEstimate, rate |-> r.rate, hours |-> r.hours,
       day |-> r.from[1], hour |-> r.from[2],
       cost |-> r.rate * r.hours, cents |-> Money!Cents(r.rate, r.hours),
       committed |-> r.lease \in {"reserved", "savings_plan"},
       groups |-> Groups[r.account],
       dimensions |-> {d \in DOMAIN Dimensions :
                         Costs!InDimension(r.resource, Tags, Dimensions[d])}]

(* The rows of a batch are stored in their order, the duplicates skipped: *)
(* a charge that is delivered again with other figures keeps its first.   *)
IsDuplicate(p, row, rows) ==
  LET fingerprint == Exports!Fingerprint(p, row)
  IN  \/ \E r \in records : r.fingerprint = fingerprint
      \/ \E s \in rows : s["n"] < row["n"] /\ Exports!Fingerprint(p, s) = fingerprint

-----------------------------------------------------------------------------
FiguresInit ==
  /\ delivered = <<>>
  /\ records = {}
  /\ scopes \in Scopes

(* The provider writes an object. *)
Deliver(p) ==
  /\ Len(delivered) < MaxDeliveries
  /\ \E k \in ObjectKeys[p], rows \in Deliveries[p] :
       delivered' = Append(delivered, [provider |-> p, key |-> k, rows |-> rows])
  /\ UNCHANGED <<records, scopes>>

(* IngestionService.createBatch. An export with a row that is not complete *)
(* is refused as a whole.                                                  *)
Read(p, uri) ==
  LET read == RowsRead(p, uri)
      rows == Exports!Parsed(read)
  IN  /\ ~Exports!Refused(p, uri, Connections[p])
      /\ read # {}
      /\ ~Exports!Unreadable(read)
      /\ records' = records \cup
           {Record(p, row) : row \in {row \in rows : ~IsDuplicate(p, row, rows)}}
      /\ UNCHANGED <<delivered, scopes>>

FiguresNext ==
  \E p \in Providers : Deliver(p) \/ \E uri \in Sources : Read(p, uri)

FiguresSpec == FiguresInit /\ [][FiguresNext]_figureVars

-----------------------------------------------------------------------------
(* Properties.                                                             *)

(* The stored records come from complete rows, and no two of them are the *)
(* same charge (saveIngestion).                                            *)
FiguresTypeOK ==
  /\ delivered \in Seq(Delivery)
  /\ records \subseteq UNION {{Record(p, row) : row \in Complete(p)} : p \in Providers}
  /\ IsFiniteSet(records)
  /\ scopes \in Scopes
  /\ \A r, s \in records : r.fingerprint = s.fingerprint => r = s

(* A read of a prefix leaves every charge of what was delivered last       *)
(* stored, of the objects that are not empty and still there, unless there *)
(* are more objects than one listing returns (resolveObjectKey,            *)
(* resolveAzureBlobName). A charge that is restated keeps its first rate.  *)
LastDelivery(p) ==
  LET there == {n \in DOMAIN delivered : /\ delivered[n].provider = p
                                         /\ delivered[n].rows # {} /\ ~IsReplaced(n)}
  IN  delivered[CHOOSE n \in there : \A k \in there : k <= n].rows

NewestIsStored ==
  [][\A p \in Providers \ {"gcp"}, uri \in Sources :
       (Read(p, uri) /\ uri.path = <<>> /\ Cardinality(Objects(p)) <= ListLimit) =>
         \A row \in Exports!Parsed(LastDelivery(p)) : \E r \in records' :
           r.fingerprint = Exports!Fingerprint(p, row)]_figureVars

(* While the charges arrive in the order of their days, a scan says of the *)
(* past days what it said before: no finding goes away and none is added   *)
(* late, unless a scan throws, and then every later one throws as well     *)
(* (scanAnomalies, detectUnitPriceAnomalies .. detectCoverageAnomalies,    *)
(* assertValidNumericClaims).                                              *)
FoundOf(days, all) == {c \in Detection!ScanFinds(all) : c.windowEnd \in days}

DetectionIsStable ==
  [][(\A r \in records, s \in records' \ records : r.day < s.day) =>
       /\ Detection!ScanThrows(records) => Detection!ScanThrows(records')
       /\ \/ Detection!ScanThrows(records')
          \/ FoundOf(Detection!Days(records), records') = Detection!ScanFinds(records)]_figureVars

-----------------------------------------------------------------------------
DaysFrom(day) == {r \in records : day <= r.day /\ r.day < day + PeriodDays}

Period == DaysFrom(FirstDay)
Prior == DaysFrom(FirstDay - PeriodDays)

StatementData == [period |-> Period, prior |-> Prior, anomalies |-> {}]

Statements == Figures!Generated(StatementData, scopes)

(* The totals of the stakeholders, what several of them have counted once, *)
(* and what none has make the total of the tenant; between two of them,    *)
(* what is counted again is the overlap. A warning tells each of the       *)
(* amounts, unless it is zero (buildReconciliation, buildScopeWarnings).   *)
Repeated(r) == (Figures!AssignmentCount(Period, scopes, r) - 1) * r.cents

TotalsReconcile ==
  LET rec == Figures!Reconciliation(Period, scopes)
      repeated == SumFunction([r \in Figures!Overlapping(Period, scopes) |-> Repeated(r)])
      Warned(code) == {w.amount : w \in {w \in Figures!ScopeWarnings(Period, scopes) : w.code = code}}
  IN  /\ SumFunction([s \in DOMAIN scopes |-> Statements[s].total])
           - repeated + rec.unallocated = rec.tenantTotal
      /\ Cardinality(DOMAIN scopes) = 2 => repeated = rec.overlap
      /\ Warned("overlap_detected") \cup {0} = {rec.overlap, 0}
      /\ Warned("unallocated_spend_detected") \cup {0} = {rec.unallocated, 0}

(* What statements count in cents is the summary of the period but for the *)
(* rounding: half a cent for each charge, up or down, and up to one and a  *)
(* half for a credit, which is rounded toward zero after half a cent was   *)
(* added and so never counted in full (roundMoneyToCent).                  *)
Credits == {r \in Period : r.cost < 0}

StatementsFollowSummary ==
  LET exact == Costs!Summary(records, Tags,
                 [from |-> FirstDay, to |-> FirstDay + PeriodDays - 1]).total
      cent == Money!CentUnit * UsageUnit
      difference == cent * Figures!SumCents(Period) - exact
      charges == Cardinality(Period \ Credits)
  IN  /\ 2 * difference <= cent * (charges + 3 * Cardinality(Credits))
      /\ -2 * difference <= cent * charges

-----------------------------------------------------------------------------
(* The invoices, the explorer's flow and the summary of a query have the   *)
(* same total, as long as one page holds all records; the flow lacks the   *)
(* records of the links it does not show (getSummary, invoiceRows,         *)
(* buildCostExplorerFlow).                                                 *)

FlowDimensions == <<"service", "lease", "service">>

InvoicesAgree(q) ==
  SumFunction([i \in Costs!RunReport("invoices", records, Tags, q) |-> i.total])
    = Costs!Summary(records, Tags, q).total

FlowAgrees(q) ==
  LET page == Costs!FirstPage(records, Tags, q)
      links == Costs!ExplorerFlow(page, FlowDimensions, CostFloor).links
      hidden == {r \in page : \A l \in links :
                   <<l.source, l.target>>
                     # Costs!LinkOf(r, Costs!NormalizeDimensions(FlowDimensions))}
  IN  SumFunction([l \in links |-> l.cost]) + Costs!Cost(hidden)
        = Costs!Summary(records, Tags, q).total

(* Then no record costs more than the top mover (getExecutiveSummary). *)
TopMoverIsTop ==
  \A r \in records : r.cost <= Costs!ExecutiveSummary(records, Tags, 1, 1).delta

(* A dimension divides the resources into those it counts and those it *)
(* calls untagged (getSummary).                                        *)
DimensionDivides(q) ==
  LET summary == Costs!Summary(records, Tags, q)
  IN  summary.untaggedCount + summary.resourceCount =
        Costs!Summary(records, Tags, Costs!WithoutDimension(q)).resourceCount

FiguresAgree ==
  /\ \A q \in Queries :
       /\ Cardinality(Costs!Filtered(records, Tags, q)) <= PageLimit =>
            InvoicesAgree(q) /\ FlowAgrees(q)
       /\ "dimension" \in DOMAIN q => DimensionDivides(q)
  /\ Cardinality(records) <= PageLimit => TopMoverIsTop

(* A saved view narrows a query: nothing outside the view is counted       *)
(* (mergeViewScope).                                                       *)
ViewsNarrow ==
  \A q \in Queries, v \in Views :
    Costs!Filtered(records, Tags, Costs!MergeViewScope(q, v))
      \subseteq Costs!Filtered(records, Tags, v)

(* The statements of a period can be generated, whatever was spent: no     *)
(* narrative is invalid (docs: "attach variance-vs-prior-period narrative  *)
(* ... Fully autonomous").                                                 *)
GenerationSucceeds == ~Figures!Throws(StatementData, scopes)

(* Whatever is stored can be scanned.                                      *)
ScanSucceeds == ~Detection!ScanThrows(records)
=============================================================================
