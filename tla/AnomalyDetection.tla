-------------------------- MODULE AnomalyDetection --------------------------
(***************************************************************************)
(* What a scan finds in the cost records of a tenant: rising unit prices,  *)
(* unusual usage, new spend and falling commitment coverage. The code      *)
(* computes in doubles, here the ratios are compared exactly. Usage may be *)
(* negative, where a provider corrects it.                                 *)
(*                                                                         *)
(* A record has an id, a provider, an account, a service, a usage family,  *)
(* a resource, a start (day and hour), a rate, hours, a cost and whether a *)
(* commitment covers it.                                                   *)
(***************************************************************************)
EXTENDS Integers, FiniteSets, FiniteSetsExt

CONSTANTS      \* defaultConfig
  UnitPriceChangePercent,     \* 20
  UsageWindowDays,            \* 28
  UsageMadThreshold,          \* 3
  NewSpendFloor,              \* 25 dollars
  CommitmentCoverageFloor,    \* 50 percent
  UsageUnit                   \* of an hour

Sum(f(_), S) == MapThenSumSet(f, S)

Hours(records) == Sum(LAMBDA r : r.hours, records)

(* The records that agree in all of the fields. *)
GroupBy(records, fields) ==
  {{r \in records : \A f \in fields : r[f] = s[f]} : s \in records}

Days(records) == {r.day : r \in records}
On(records, day) == {r \in records : r.day = day}

(* compareByStart: ids break ties. *)
StartsBefore(r, s) ==
  \/ r.day < s.day
  \/ r.day = s.day /\ r.hour < s.hour
  \/ r.day = s.day /\ r.hour = s.hour /\ r.id < s.id

(* n / d >= k, where d # 0. *)
RatioAtLeast(n, d, k) == IF d > 0 THEN n >= k * d ELSE n <= k * d

(* The id of an anomaly is made from its type, the records it is evidence  *)
(* of and the end of its window. Its explanation claims amounts, of which  *)
(* only the signs matter: a product stands for a quotient.                 *)
Candidate(type, severity, records, windowEnd, claims) ==
  [type |-> type, severity |-> severity, evidence |-> {r.id : r \in records},
   windowEnd |-> windowEnd, claims |-> claims]

(* The amounts of an explanation are read out of it again and compared.    *)
(* claimPattern knows no minus sign, and a name is not read as an amount.  *)
IsRead(candidate) == \A amount \in candidate.claims : amount >= 0

-----------------------------------------------------------------------------
(* detectUnitPriceAnomalies: a record against the one before it. *)

Previous(records, r) ==
  {p \in records : /\ StartsBefore(p, r)
                   /\ ~\E q \in records : StartsBefore(p, q) /\ StartsBefore(q, r)}

SeverityFromPercent(change, of) ==
  IF change * 100 >= of * 100 THEN "high"
  ELSE IF change * 100 >= of * 50 THEN "medium"
  ELSE "low"

PriceRises(records, c) ==
  {p \in Previous(records, c) :
     /\ p.rate > 0 /\ c.rate > p.rate
     /\ (c.rate - p.rate) * 100 >= UnitPriceChangePercent * p.rate}

PriceRise(p, c) ==
  Candidate("unit_price", SeverityFromPercent(c.rate - p.rate, p.rate), {p, c}, c.day,
            {p.rate, c.rate, c.rate - p.rate})

RisesIn(records) ==
  UNION {{PriceRise(p, c) : p \in PriceRises(records, c)} : c \in records}

UnitPriceAnomalies(records) ==
  UNION {RisesIn(g) : g \in GroupBy(records, {"provider", "account", "resource", "family"})}

-----------------------------------------------------------------------------
(* detectUsageAnomalies: a day against the median of the days before it    *)
(* that have usage, in units of the median deviation from it.              *)

(* Mutant of Window: the days after it are in the window as well. *)
WindowAround(days, d) ==
  {e \in days \ {d} :
     Cardinality({f \in days : (e < f /\ f < d) \/ (d < f /\ f < e)}) < UsageWindowDays}

Window(days, d) ==
  {e \in days : e < d /\ Cardinality({f \in days : e < f /\ f < d}) < UsageWindowDays}

(* The k-th smallest of the values of f. *)
Smallest(f, k) ==
  CHOOSE v \in {f[e] : e \in DOMAIN f} :
    /\ Cardinality({e \in DOMAIN f : f[e] < v}) < k
    /\ Cardinality({e \in DOMAIN f : f[e] <= v}) >= k

(* Twice the median, which may lie between two values. *)
Median2(f) ==
  LET n == Cardinality(DOMAIN f)
  IN  IF n % 2 = 1 THEN 2 * Smallest(f, (n + 1) \div 2)
      ELSE Smallest(f, n \div 2) + Smallest(f, n \div 2 + 1)

Magnitude(n) == IF n < 0 THEN -n ELSE n

HoursBefore(records, d) ==
  [e \in Window(Days(records), d) |-> Hours(On(records, e))]

IsUnusual(current, hours) ==
  LET baseline2 == Median2(hours)
      mad4 == Median2([e \in DOMAIN hours |-> Magnitude(2 * hours[e] - baseline2)])
      deviation2 == Magnitude(2 * current - baseline2)
  IN  /\ Cardinality(DOMAIN hours) >= 3
      /\ IF mad4 = 0 THEN 2 * current > baseline2
         ELSE 2 * deviation2 >= UsageMadThreshold * mad4

UsageSeverity(current, hours) ==
  LET baseline2 == Median2(hours)
      above(n) == IF baseline2 = 0 THEN current >= n * UsageUnit
                  ELSE RatioAtLeast(2 * current, baseline2, n)
  IN  IF above(4) THEN "high" ELSE IF above(2) THEN "medium" ELSE "low"

UsageClaims(current, hours) ==
  LET baseline2 == Median2(hours) IN {current, baseline2, current * baseline2}

Unusual(records, d) ==
  LET current == Hours(On(records, d))
      hours == HoursBefore(records, d)
  IN  Candidate("usage", UsageSeverity(current, hours), On(records, d), d,
                UsageClaims(current, hours))

UsageAnomalies(records) ==
  UNION {
    {Unusual(g, d) : d \in {d \in Days(g) : IsUnusual(Hours(On(g, d)), HoursBefore(g, d))}} :
    g \in GroupBy(records, {"provider", "account", "service", "family"})}

-----------------------------------------------------------------------------
(* detectNewSpendAnomalies: the first day of a service in an account,      *)
(* unless the tenant's records begin with it.                              *)

Earliest(records) == {r \in records : \A s \in records : r = s \/ StartsBefore(r, s)}

SameStart(r, s) == r.day = s.day /\ r.hour = s.hour

NewSpendSeverity(spend) ==
  IF spend >= NewSpendFloor * 4 THEN "high"
  ELSE IF spend >= NewSpendFloor * 2 THEN "medium"
  ELSE "low"

FirstDayRows(records) == UNION {On(records, r.day) : r \in Earliest(records)}

NewSpend(records) == Sum(LAMBDA r : r.cost, FirstDayRows(records))

IsNew(g, records) == \A r \in Earliest(g), s \in Earliest(records) : ~SameStart(r, s)

FirstSpend(records, first) ==
  Candidate("new_spend", NewSpendSeverity(NewSpend(records)), FirstDayRows(records),
            first.day, {NewSpend(records), NewSpendFloor})

NewSpendAnomalies(records) ==
  UNION {{FirstSpend(g, first) : first \in Earliest(g)} :
         g \in {g \in GroupBy(records, {"provider", "account", "service"}) :
                  IsNew(g, records) /\ NewSpend(g) >= NewSpendFloor}}

-----------------------------------------------------------------------------
(* detectCoverageAnomalies: the share of committed hours falls below the   *)
(* floor from one day to the next. A day without hours is covered.         *)

Committed(records) == Hours({r \in records : r.committed})

CoveredBy(records, percent) ==
  Hours(records) = 0 \/ RatioAtLeast(Committed(records) * 100, Hours(records), percent)

DayBefore(days, d) == {e \in days : e < d /\ ~\E f \in days : e < f /\ f < d}

LosesCoverage(records, d) ==
  /\ \E e \in DayBefore(Days(records), d) : CoveredBy(On(records, e), CommitmentCoverageFloor)
  /\ ~CoveredBy(On(records, d), CommitmentCoverageFloor)

CoverageSeverity(records) ==
  IF RatioAtLeast(2 * Committed(records) * 100, Hours(records), CommitmentCoverageFloor)
  THEN "medium" ELSE "high"

CoverageLoss(records, d) ==
  LET rows == On(records, d)
  IN  Candidate("coverage", CoverageSeverity(rows), rows, d,
                {Committed(rows) * Hours(rows), CommitmentCoverageFloor})

CoverageAnomalies(records) ==
  UNION {{CoverageLoss(g, d) : d \in {d \in Days(g) : LosesCoverage(g, d)}} :
         g \in GroupBy(records, {"provider", "account", "service"})}

-----------------------------------------------------------------------------
ScanCandidates(records) ==
  UnitPriceAnomalies(records) \cup UsageAnomalies(records)
    \cup NewSpendAnomalies(records) \cup CoverageAnomalies(records)

(* scanAnomalies. Every candidate is checked when it is built, before any  *)
(* is saved, so one whose claims are not read makes the whole scan throw.  *)
ScanThrows(records) == \E c \in ScanCandidates(records) : ~IsRead(c)

ScanFinds(records) == IF ScanThrows(records) THEN {} ELSE ScanCandidates(records)
=============================================================================
