------------------------------ MODULE Consoles ------------------------------
(***************************************************************************)
(* The pages of the frontend and the endpoints they call, as tables.  A    *)
(* controller lists its handlers under the role its guard asks for and     *)
(* names those that refuse a request without an Idempotency-Key.  A part   *)
(* of the client lists the methods that read, those that write with the    *)
(* caller's key and those that write without one.  A console has the calls *)
(* of its own load and, per control, the role its PermissionGate asks for, *)
(* the writes it sends in order, what it reads after them and whether it   *)
(* then runs its whole load again.  A handler the client calls goes by the *)
(* client's name for it.                                                   *)
(***************************************************************************)
EXTENDS Naturals, Sequences

Roles == {"viewer", "analyst", "admin"}

NoRole == "none"

Rank == [none |-> 0, viewer |-> 1, analyst |-> 2, admin |-> 3]

(* hasRequiredRole: no role at all is below every role.                    *)
HasRole(actual, required) == Rank[actual] >= Rank[required]

-----------------------------------------------------------------------------
(* What the controllers ask for.                                           *)

GovernanceController ==
  [viewer  |-> {"listTenants", "listCloudConnections", "listCloudConnectionRuns",
                "listAccounts", "listAccountGroups", "listViews"},
   analyst |-> {"createView"},
   admin   |-> {"createTenant", "createCloudConnection", "validateCloudConnection",
                "getCloudConnectionOnboarding", "createAccount", "createAccountGroup",
                "updateAccountGroup", "deleteAccountGroup", "listCredentials",
                "createCredential", "rotateCredential", "listUsers", "createUser",
                "listRoles", "createRole", "listAuditLog"},
   keyed   |-> {"createTenant", "createCloudConnection", "validateCloudConnection",
                "createAccount", "createAccountGroup", "updateAccountGroup",
                "deleteAccountGroup", "createCredential", "rotateCredential",
                "createUser", "createView"}]

BillingAgentController ==
  [viewer  |-> {"listAnomalies", "listBillingStatements", "getBillingStatement",
                "exportBillingStatementCsv", "exportBillingStatementPdf"},
   analyst |-> {"scanBillingAnomalies", "updateAnomalyStatus",
                "generateBillingStatements", "disputeBillingStatement"},
   admin   |-> {"createStatementStakeholder", "listStatementStakeholders",
                "createBillingScope", "listBillingScopes", "listAgentRuns",
                "approveBillingStatement", "sendBillingStatement"},
   keyed   |-> {"updateAnomalyStatus", "createStatementStakeholder", "createBillingScope",
                "generateBillingStatements", "approveBillingStatement",
                "sendBillingStatement", "disputeBillingStatement"}]

OptimizationController ==
  [viewer |-> {"listRecommendations", "listRealizedSavings"},
   analyst |-> {"updateRecommendation"}, admin |-> {},
   keyed |-> {"updateRecommendation"}]

ReportingController ==
  [viewer |-> {"listReports", "runReport"}, analyst |-> {}, admin |-> {}, keyed |-> {}]

ExecutiveController ==
  [viewer |-> {"getExecutiveSummary", "exportExecutiveSummaryPdf", "estimateTco"},
   analyst |-> {}, admin |-> {}, keyed |-> {"estimateTco"}]

OperatorReadinessController ==
  [viewer |-> {}, analyst |-> {}, admin |-> {"getOperatorReadiness"}, keyed |-> {}]

AllocationController ==
  [viewer |-> {"listDimensions", "listResourceTags"},
   analyst |-> {"createDimension", "createDimensionMapping", "upsertResourceTag"},
   admin |-> {},
   keyed |-> {"createDimension", "createDimensionMapping", "upsertResourceTag"}]

IngestionController ==
  [viewer |-> {"getBatch"}, analyst |-> {"listErrors"},
   admin |-> {"createIngestionBatch"}, keyed |-> {"createIngestionBatch"}]

CostRecordsController ==
  [viewer |-> {"listCostRecords", "getCostSummary", "getCostExplorerFlow",
               "exportCostRecords"},
   analyst |-> {}, admin |-> {}, keyed |-> {}]

Controllers ==
  {GovernanceController, BillingAgentController, OptimizationController,
   ReportingController, ExecutiveController, OperatorReadinessController,
   AllocationController, IngestionController, CostRecordsController}

-----------------------------------------------------------------------------
(* What the client sends.                                                  *)

CostMethods ==
  [reads |-> {"listCostRecords", "getCostSummary", "getCostExplorerFlow",
              "exportCostRecords"}, keyed |-> {}, unkeyed |-> {}]

ConnectionMethods ==
  [reads |-> {"listTenants", "listCloudConnections", "getCloudConnectionOnboarding",
              "listCloudConnectionRuns"},
   keyed |-> {"createTenant", "createCloudConnection", "validateCloudConnection"},
   unkeyed |-> {}]

WorkspaceMethods ==
  [reads |-> {"getOperatorReadiness", "listAccounts", "listAccountGroups", "listRoles"},
   keyed |-> {"createIngestionBatch"}, unkeyed |-> {}]

AllocationMethods ==
  [reads |-> {"listDimensions", "listResourceTags", "listRecommendations",
              "listRealizedSavings"},
   keyed |-> {"createDimension", "createDimensionMapping", "upsertResourceTag",
              "updateRecommendation"}, unkeyed |-> {}]

AnomalyMethods ==
  [reads |-> {"listAnomalies"}, keyed |-> {"updateAnomalyStatus"},
   unkeyed |-> {"scanBillingAnomalies"}]

ScopeMethods ==
  [reads |-> {"listStatementStakeholders", "listBillingScopes"},
   keyed |-> {"createStatementStakeholder", "createBillingScope"}, unkeyed |-> {}]

StatementMethods ==
  [reads |-> {"listBillingStatements", "listAgentRuns", "getBillingStatement",
              "exportBillingStatementCsv", "exportBillingStatementPdf"},
   keyed |-> {"generateBillingStatements", "approveBillingStatement",
              "sendBillingStatement", "disputeBillingStatement"}, unkeyed |-> {}]

ReportingMethods ==
  [reads |-> {"getExecutiveSummary", "exportExecutiveSummaryPdf", "listReports",
              "runReport", "listViews"},
   keyed |-> {"estimateTco", "createView"}, unkeyed |-> {}]

ClientParts ==
  {CostMethods, ConnectionMethods, WorkspaceMethods, AllocationMethods,
   AnomalyMethods, ScopeMethods, StatementMethods, ReportingMethods}

(* The guard and the handler let a caller's request through: some          *)
(* controller has the handler, the caller has the role it asks for, and    *)
(* the client sends the key where the handler wants one.                   *)
Accepts(role, call) ==
  \E c \in Controllers :
    /\ \E r \in Roles : call \in c[r] /\ HasRole(role, r)
    /\ call \in c.keyed => \E p \in ClientParts : call \in p.keyed

-----------------------------------------------------------------------------
(* The consoles.  "base" is what the load reads for every role, "admin"    *)
(* what it adds for an admin.                                              *)

Console(base, admin, acts) == [base |-> base, admin |-> admin, acts |-> acts]

(* A control whose handler ends by showing what it read or was answered;   *)
(* a failure takes the page.                                               *)
Shows(gate, writes, reads) ==
  [gate |-> gate, writes |-> writes, reads |-> reads, reloads |-> FALSE,
   inPlace |-> FALSE, overlaps |-> FALSE]

(* The same, but a failure leaves the page as it is.                       *)
ShowsInPlace(gate, writes, reads) == [Shows(gate, writes, reads) EXCEPT !.inPlace = TRUE]

(* A control whose handler ends by running the console's load again.       *)
Reloads(gate, writes) == [Shows(gate, writes, {}) EXCEPT !.reloads = TRUE]

(* A control that is not disabled while another one of the page runs.      *)
Overlapping(act) == [act EXCEPT !.overlaps = TRUE]

(* The gate of a control that has none.                                    *)
Ungated == "none"

PortfolioControls ==
  [refresh    |-> Overlapping(Reloads(Ungated, <<>>)),
   create     |-> Reloads("admin", <<"createCloudConnection", "validateCloudConnection">>),
   onboarding |-> ShowsInPlace("admin", <<>>, {"getCloudConnectionOnboarding"}),
   runs       |-> ShowsInPlace(Ungated, <<>>, {"listCloudConnectionRuns"})]

CloudPortfolioConsole ==
  Console({"listTenants", "listCloudConnections", "listAccounts", "listAccountGroups",
           "getCostSummary"}, {}, PortfolioControls)

IngestionOverview ==
  Console({"listCostRecords"}, {},
    [run |-> Reloads("admin", <<"createIngestionBatch">>)])

ExecutiveConsole ==
  Console({"getExecutiveSummary"}, {},
    [exportPdf |-> Shows(Ungated, <<>>, {"exportExecutiveSummaryPdf"}),
     estimate  |-> Shows(Ungated, <<"estimateTco">>, {})])

InsightsConsole ==
  Console({"getCostSummary", "listCostRecords", "getCostExplorerFlow"}, {},
    [exportInventory |-> Overlapping(Shows(Ungated, <<>>, {"exportCostRecords"})),
     filter          |-> Overlapping(Reloads(Ungated, <<>>))])

(* Mutant: the console reads more than the boot warms.                     *)
OptimizationConsoleOfViews ==
  Console({"listRecommendations", "listRealizedSavings", "listViews"}, {},
    [apply |-> Reloads("analyst", <<"updateRecommendation">>)])

OptimizationConsole ==
  Console({"listRecommendations", "listRealizedSavings"}, {},
    [apply |-> Reloads("analyst", <<"updateRecommendation">>)])

(* The gates of the anomaly list and of the statement list.                *)
AnomalyGates == [scan |-> "analyst", markFalsePositive |-> "analyst"]

StatementGates ==
  [generate |-> "analyst", dispute |-> "analyst", approve |-> "admin", send |-> "admin",
   exportCsv |-> Ungated, exportPdf |-> Ungated]

AnomalyControls ==
  [scan |-> Reloads(AnomalyGates.scan, <<"scanBillingAnomalies">>),
   markFalsePositive |-> Reloads(AnomalyGates.markFalsePositive, <<"updateAnomalyStatus">>)]

(* Each of the four handlers does one write and loads the page again.      *)
StatementControls ==
  [generate |-> Reloads(StatementGates.generate, <<"generateBillingStatements">>),
   approve  |-> Reloads(StatementGates.approve, <<"approveBillingStatement">>),
   send     |-> Reloads(StatementGates.send, <<"sendBillingStatement">>),
   dispute  |-> Reloads(StatementGates.dispute, <<"disputeBillingStatement">>)]

ExportControls ==
  [exportCsv |-> Shows(StatementGates.exportCsv, <<>>, {"exportBillingStatementCsv"}),
   exportPdf |-> Shows(StatementGates.exportPdf, <<>>, {"exportBillingStatementPdf"})]

BillingAgentConsole ==
  Console({"listAnomalies", "listBillingStatements"}, {"listAgentRuns"},
    [scan      |-> AnomalyControls.scan,
     markFalsePositive |-> AnomalyControls.markFalsePositive,
     generate  |-> StatementControls.generate, approve |-> StatementControls.approve,
     send      |-> StatementControls.send,     dispute |-> StatementControls.dispute,
     exportCsv |-> ExportControls.exportCsv, exportPdf |-> ExportControls.exportPdf])

ReportingConsole ==
  Console({"listReports", "listViews"}, {},
    [createAwsView |-> Shows("admin", <<"createView">>, {}),
     runReport     |-> Overlapping(Shows(Ungated, <<>>, {"runReport"}))])

AllocationConsole ==
  Console({"listDimensions", "getCostSummary"}, {},
    [create |-> Shows("analyst", <<"createDimension", "createDimensionMapping">>,
                      {"getCostSummary"}),
     retag  |-> Shows("analyst", <<"upsertResourceTag">>, {"getCostSummary"})])

GovernanceConsole ==
  Console({}, {"listRoles"},
    [exportCsv |-> ShowsInPlace(Ungated, <<>>, {"exportCostRecords"})])

OperatorReadinessConsole ==
  Console({"getOperatorReadiness"}, {}, [refresh |-> Reloads(Ungated, <<>>)])

(* productRoutes, and those of them that are kept for admins.              *)
ProductRoutes ==
  {"portfolio", "costs", "executive", "insights", "optimization", "billing",
   "reporting", "allocation", "governance", "settings", "operator"}

AdminOnly == {"operator"}

(* ProductPage: the console of a route.  The settings page calls nothing   *)
(* and has no bootstrap key.                                               *)
ConsoleAt ==
  [portfolio |-> CloudPortfolioConsole, costs |-> IngestionOverview,
   executive |-> ExecutiveConsole, insights |-> InsightsConsole,
   optimization |-> OptimizationConsole, billing |-> BillingAgentConsole,
   reporting |-> ReportingConsole, allocation |-> AllocationConsole,
   governance |-> GovernanceConsole, operator |-> OperatorReadinessConsole,
   settings |-> Console({}, {}, <<>>)]

HasBootstrapKey(route) == route # "settings"

(* Mutant: the operator page opens for every role.                         *)
CanAccessAny(route, role) == TRUE

CanAccess(route, role) == route \in AdminOnly => role = "admin"

(* What the console's own load reads.                                      *)
Loads(route, role) ==
  ConsoleAt[route].base \cup (IF role = "admin" THEN ConsoleAt[route].admin ELSE {})

(* warmRouteData: what the workspace boot reads for the route's console.   *)
Warms(route, role) ==
  CASE route = "portfolio"    -> {"listTenants", "listCloudConnections", "listAccounts",
                                  "listAccountGroups", "getCostSummary"}
    [] route = "costs"        -> {"listCostRecords"}
    [] route = "executive"    -> {"getExecutiveSummary"}
    [] route = "insights"     -> {"getCostSummary", "listCostRecords", "getCostExplorerFlow"}
    [] route = "optimization" -> {"listRecommendations", "listRealizedSavings"}
    [] route = "billing"      -> {"listAnomalies", "listBillingStatements"} \cup
                                 IF role = "admin" THEN {"listAgentRuns"} ELSE {}
    [] route = "reporting"    -> {"listReports", "listViews"}
    [] route = "allocation"   -> {"listDimensions", "getCostSummary"}
    [] route = "governance"   -> IF role = "admin" THEN {"listRoles"} ELSE {}
    [] route = "operator"     -> {"getOperatorReadiness"}
    [] OTHER                  -> {}
=============================================================================
