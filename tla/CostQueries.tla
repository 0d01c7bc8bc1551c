----------------------------- MODULE CostQueries -----------------------------
(***************************************************************************)
(* What is computed from the cost records of a tenant on request: the list *)
(* of records, the summary, the explorer's flow, the reports and the       *)
(* executive summary, each under a query that a saved view may narrow.     *)
(* Where the two cost model repositories differ, the PostgreSQL one is     *)
(* meant.                                                                  *)
(*                                                                         *)
(* A record has an id, a provider, an account, its groups, a connection, a *)
(* resource, a service, a lease type, a day, a cost and whether it is an   *)
(* estimate. Tags give each resource its <<key, value>> pairs; a dimension *)
(* is a set of mappings, each a tag key and a value or None for any value. *)
(* A query is a function of the parameters given.                          *)
(***************************************************************************)
EXTENDS Integers, Sequences, FiniteSets, FiniteSetsExt

CONSTANTS
  PageLimit,  \* of the records a flow or a report reads: 200
  LittleUsage,  \* 10 hours
  LittleCost,   \* 1 dollar
  None

Cost(records) == SumFunction([r \in records |-> r.cost])
Resources(records) == {r.resource : r \in records}

-----------------------------------------------------------------------------
(* Queries.                                                                *)

Given(query, key) == key \in DOMAIN query

(* buildRecordWhere: a record belongs to the period its start is in. *)
MatchesQuery(r, query) ==
  /\ Given(query, "provider") => r.provider = query["provider"]
  /\ Given(query, "account") => r.account = query["account"]
  /\ Given(query, "accountGroup") => query["accountGroup"] \in r.groups
  /\ Given(query, "connection") => r.connection = query["connection"]
  /\ Given(query, "service") => r.service = query["service"]
  /\ Given(query, "from") => r.day >= query["from"]
  /\ Given(query, "to") => r.day <= query["to"]

(* addDimensionWhere: a tag of the resource is mapped to the dimension. *)
MatchesMapping(tag, mapping) ==
  tag[1] = mapping.key /\ (mapping.pattern = None \/ mapping.pattern = tag[2])

InDimension(resource, tags, dimension) ==
  \E t \in tags[resource], m \in dimension : MatchesMapping(t, m)

Filtered(records, tags, query) ==
  {r \in records : /\ MatchesQuery(r, query)
                   /\ Given(query, "dimension") =>
                        InDimension(r.resource, tags, query["dimension"])}

(* ORDER BY valid_from, id LIMIT pageSize OFFSET ... *)
Page(records, page, pageSize) ==
  {r \in records :
     LET before == {s \in records : s.day < r.day \/ (s.day = r.day /\ s.id < r.id)}
     IN  (page - 1) * pageSize <= Cardinality(before) /\ Cardinality(before) < page * pageSize}

FirstPage(records, tags, query) == Page(Filtered(records, tags, query), 1, PageLimit)

-----------------------------------------------------------------------------
(* Saved views. What a view gives replaces what the query gives.           *)

(* Mutant of MergeViewScope: the query replaces what the view gives. *)
MergeViewBeneath(query, view) ==
  [k \in DOMAIN query \cup DOMAIN view |-> IF k \in DOMAIN query THEN query[k] ELSE view[k]]

MergeViewScope(query, view) ==
  [k \in DOMAIN query \cup DOMAIN view |-> IF k \in DOMAIN view THEN view[k] ELSE query[k]]

-----------------------------------------------------------------------------
(* getSummary. With a dimension, what is untagged are the resources that   *)
(* the rest of the query selects and the dimension does not; without, it   *)
(* is every record.                                                        *)

WithoutDimension(query) == [k \in DOMAIN query \ {"dimension"} |-> query[k]]

Summary(records, tags, query) ==
  LET selected == Filtered(records, tags, query)
      rest == Filtered(records, tags, WithoutDimension(query)) \ selected
  IN  [total |-> Cost(selected),
       resourceCount |-> Cardinality(Resources(selected)),
       untaggedCount |-> IF Given(query, "dimension") THEN Cardinality(Resources(rest))
                         ELSE Cardinality(selected),
       isEstimate |-> \E r \in selected : r.isEstimate]

-----------------------------------------------------------------------------
(* buildCostExplorerFlow: the first page of records, along one or two      *)
(* dimensions of theirs; links below the floor are left out, and the nodes *)
(* that then have no link.                                                 *)

ExplorerDimensions == {"provider", "account", "service", "lease", "transaction", "family"}

(* normalizeDimensions: the first two different ones that exist. *)
NormalizeDimensions(dimensions) ==
  LET known == SelectSeq(dimensions, LAMBDA d : d \in ExplorerDimensions)
      first == {n \in DOMAIN known : \A k \in 1..(n - 1) : known[k] # known[n]}
  IN  CASE first = {} -> <<"service", "lease">>
        [] Cardinality(first) = 1 -> <<known[1]>>
        [] OTHER -> <<known[1], known[Min(first \ {1})]>>

NodeOf(r, d) == <<d, r[d]>>

All == <<"total", None>>

LinkOf(r, dimensions) ==
  IF Len(dimensions) = 1 THEN <<All, NodeOf(r, dimensions[1])>>
  ELSE <<NodeOf(r, dimensions[1]), NodeOf(r, dimensions[2])>>

ExplorerFlow(records, wanted, floor) ==
  LET dimensions == NormalizeDimensions(wanted)
      cost(link) == Cost({r \in records : LinkOf(r, dimensions) = link})
      links == {l \in {LinkOf(r, dimensions) : r \in records} : cost(l) >= floor}
      nodes == {l[1] : l \in links} \cup {l[2] : l \in links}
      through(n) == {r \in records : n \in {LinkOf(r, dimensions)[1], LinkOf(r, dimensions)[2]}}
  IN  [links |-> {[source |-> l[1], target |-> l[2], cost |-> cost(l)] : l \in links},
       nodes |-> [n \in nodes |-> Cost(through(n))]]

-----------------------------------------------------------------------------
(* Reports, over the first page of records.                                *)

(* Mutant of InvoiceRows: by account number alone, of whatever provider. *)
InvoiceRowsByNumber(records) ==
  {[provider |-> r.provider, account |-> r.account,
    total |-> Cost({s \in records : s.account = r.account})] : r \in records}

InvoiceRows(records) ==
  {[provider |-> r.provider, account |-> r.account,
    total |-> Cost({s \in records : s.account = r.account /\ s.provider = r.provider})] :
     r \in records}

(* Little used, or cheap. *)
UnderutilizationRows(records) ==
  {r \in records : r.hours <= LittleUsage \/ r.cost <= LittleCost}

(* runReport; the cost summary is computed from all records. *)
RunReport(category, records, tags, query) ==
  LET page == FirstPage(records, tags, query)
  IN  CASE category = "cost_summary" -> {Summary(records, tags, query)}
        [] category = "invoices" -> InvoiceRows(page)
        [] category = "underutilization" -> UnderutilizationRows(page)
        [] OTHER -> page

-----------------------------------------------------------------------------
(* The executive summary looks at all the tenant's records, for the total, *)
(* and at the first page for what it calls the top mover: the record of    *)
(* the highest cost, whenever it was.                                      *)

Percent(part, of) == IF of <= 0 THEN 0 ELSE (part * 100) \div of

ExecutiveSummary(records, tags, revenue, budget) ==
  LET total == Summary(records, tags, [k \in {} |-> None]).total
      page == FirstPage(records, tags, [k \in {} |-> None])
      top == {r \in page : \A s \in page : s.cost <= r.cost}
  IN  [total |-> total,
       ofRevenue |-> Percent(total, revenue), ofBudget |-> Percent(total, budget),
       direction |-> IF total > 0 THEN "up" ELSE "flat",
       delta |-> IF top = {} THEN 0 ELSE (CHOOSE r \in top : TRUE).cost]
=============================================================================
