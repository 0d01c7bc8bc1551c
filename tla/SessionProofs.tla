---------------------------- MODULE SessionProofs ----------------------------
(***************************************************************************)
(* Proofs about Session, for any number of token refreshes, retries, uses  *)
(* of controls and page loads. What the tables of Consoles say is          *)
(* evaluated first, page by page; the rest rests on those lemmas.          *)
(***************************************************************************)
EXTENDS Session, FiniteSetTheorems, TLAPS

(* Before the session is known nothing runs; the boot runs, and a console  *)
(* is shown, only for a signed-in user who may see the page.               *)
BootSound ==
  /\ status = "loading" =>
       /\ jobs = {} /\ boot.status = "idle" /\ DOMAIN cached = {}
       /\ ~console.shown /\ updates = 0 /\ ~refused
  /\ boot.status # "idle" => status = "authenticated"
  /\ console.shown => boot.status = "ready"
  /\ CanAccess(route, role) \/ (jobs = {} /\ boot.status = "idle")

(* The route's value is loaded after the context, each by one job, and     *)
(* what has arrived is not on its way.                                     *)
LoadsShared ==
  /\ updates <= 1
  /\ \A j, k \in jobs : j.kind \in Keys /\ j.kind = k.kind => j = k
  /\ "context" \in DOMAIN cached => \A j \in jobs : j.kind # "context"
  /\ \A j \in jobs : j.kind = "route" => "context" \in DOMAIN cached
  /\ boot.status = "error" => \A j \in jobs : j.kind \notin Keys

(* Whoever runs a handler passed the gate of its control.                  *)
GatesPassed ==
  /\ role # NoRole => ~refused
  /\ \A j \in jobs : IsAct(j) => HasRole(role, Act(j).gate)

(* The console's own jobs.                                                 *)
Own(j) == j.kind \notin Keys /\ OnScreen(j)

Exclusive ==
  route # "governance" /\ \A a \in Controls : ~ConsoleAt[route].acts[a].overlaps

(* On a page whose controls exclude each other one job runs at a time, and *)
(* what it saw is not older than what the console was told.                *)
OneAtATime ==
  /\ \A j \in jobs : j.kind \notin Keys => j.owner <= console.id
  /\ \A j \in jobs : j.pc = "answered" => j.wrote <= j.got
  /\ route = "governance" => console.acked = 0 /\ \A j \in jobs : j.wrote = 0
  /\ Exclusive =>
       /\ \A j \in jobs : Own(j) =>
            /\ j.kind = "load" => console.state = "loading"
            /\ IsAct(j) => console.busy = {j.kind}
            /\ console.state # "error"
            /\ j.pc = "answered" => console.acked <= j.got
            /\ \A k \in jobs : Own(k) => k = j
       /\ console.shown /\ console.state = "loaded" => console.acked <= console.seen

Inv == TypeOK /\ BootSound /\ LoadsShared /\ GatesPassed /\ LoadedIsWhole /\ OneAtATime
-----------------------------------------------------------------------------
(* What the controllers let through.                                       *)

LEMMA Ranks ==
  ASSUME NEW r \in Roles
  PROVE  /\ HasRole(r, "viewer")
         /\ HasRole(r, "admin") <=> r = "admin"
         /\ r = "admin" => HasRole(r, "analyst")
BY DEF HasRole, Rank, Roles

LEMMA Guarded ==
  ASSUME NEW ctl \in Controllers, NEW need \in Roles, NEW call \in ctl[need], NEW r,
         HasRole(r, need),
         call \in ctl.keyed => \E p \in ClientParts : call \in p.keyed
  PROVE  Accepts(r, call)
BY DEF Accepts

(* Every role may call what the controllers name for viewers.              *)
LEMMA ViewersAccepted ==
  ASSUME NEW r \in Roles
  PROVE  /\ \A c \in GovernanceController.viewer : Accepts(r, c)
         /\ \A c \in BillingAgentController.viewer : Accepts(r, c)
         /\ \A c \in OptimizationController.viewer : Accepts(r, c)
         /\ \A c \in ReportingController.viewer : Accepts(r, c)
         /\ \A c \in ExecutiveController.viewer : Accepts(r, c)
         /\ \A c \in AllocationController.viewer : Accepts(r, c)
         /\ \A c \in CostRecordsController.viewer : Accepts(r, c)
<1>1. "viewer" \in Roles /\ HasRole(r, "viewer")
  BY Ranks DEF Roles
<1>2. ASSUME NEW ctl \in Controllers,
             \A c \in ctl.viewer : c \in ctl.keyed => \E p \in ClientParts : c \in p.keyed
      PROVE  \A c \in ctl.viewer : Accepts(r, c)
  BY <1>1, <1>2, Guarded
<1>3. \A c \in GovernanceController.viewer : c \notin GovernanceController.keyed
  BY DEF GovernanceController
<1>4. \A c \in BillingAgentController.viewer : c \notin BillingAgentController.keyed
  BY DEF BillingAgentController
<1>5. \A c \in OptimizationController.viewer : c \notin OptimizationController.keyed
  BY DEF OptimizationController
<1>6. \A c \in ReportingController.viewer : c \notin ReportingController.keyed
  BY DEF ReportingController
<1>7. \A c \in ExecutiveController.viewer :
        c \in ExecutiveController.keyed => \E p \in ClientParts : c \in p.keyed
  <2>1. ExecutiveController.keyed \subseteq ReportingMethods.keyed
    BY DEF ExecutiveController, ReportingMethods
  <2> QED BY <2>1 DEF ClientParts
<1>8. \A c \in AllocationController.viewer : c \notin AllocationController.keyed
  BY DEF AllocationController
<1>9. \A c \in CostRecordsController.viewer : c \notin CostRecordsController.keyed
  BY DEF CostRecordsController
<1> QED BY <1>2, <1>3, <1>4, <1>5, <1>6, <1>7, <1>8, <1>9 DEF Controllers

(* The calls that only analysts and admins make, keys included.            *)
LEMMA AnalystsAccepted ==
  ASSUME NEW r \in Roles, HasRole(r, "analyst")
  PROVE  /\ \A c \in BillingAgentController.analyst : Accepts(r, c)
         /\ Accepts(r, "updateRecommendation") /\ Accepts(r, "createView")
         /\ \A c \in {"createDimension", "createDimensionMapping", "upsertResourceTag"} :
              Accepts(r, c)
<1>1. "analyst" \in Roles
  BY DEF Roles
<1>2. ASSUME NEW ctl \in Controllers, NEW c \in ctl.analyst,
             c \notin ctl.keyed \/ \E p \in ClientParts : c \in p.keyed
      PROVE  Accepts(r, c)
  BY <1>1, <1>2, Guarded
<1>3. \A c \in BillingAgentController.analyst :
        \/ c \notin BillingAgentController.keyed
        \/ c \in AnomalyMethods.keyed \/ c \in StatementMethods.keyed
  BY DEF BillingAgentController, AnomalyMethods, StatementMethods
<1>4. "updateRecommendation" \in OptimizationController.analyst \cap AllocationMethods.keyed
  BY DEF OptimizationController, AllocationMethods
<1>5. "createView" \in GovernanceController.analyst \cap ReportingMethods.keyed
  BY DEF GovernanceController, ReportingMethods
<1>6. {"createDimension", "createDimensionMapping", "upsertResourceTag"} \subseteq
        AllocationController.analyst \cap AllocationMethods.keyed
  BY DEF AllocationController, AllocationMethods
<1> QED BY <1>2, <1>3, <1>4, <1>5, <1>6 DEF Controllers, ClientParts

LEMMA AdminsAccepted ==
  ASSUME NEW r \in Roles, HasRole(r, "admin")
  PROVE  /\ \A c \in {"createCloudConnection", "validateCloudConnection",
                      "getCloudConnectionOnboarding", "listRoles", "createIngestionBatch",
                      "approveBillingStatement", "sendBillingStatement", "listAgentRuns",
                      "getOperatorReadiness"} : Accepts(r, c)
<1>1. "admin" \in Roles
  BY DEF Roles
<1>2. ASSUME NEW ctl \in Controllers, NEW c \in ctl.admin,
             c \notin ctl.keyed \/ \E p \in ClientParts : c \in p.keyed
      PROVE  Accepts(r, c)
  BY <1>1, <1>2, Guarded
<1>3. {"createCloudConnection", "validateCloudConnection"} \subseteq
        GovernanceController.admin \cap ConnectionMethods.keyed
  BY DEF GovernanceController, ConnectionMethods
<1>4. {"getCloudConnectionOnboarding", "listRoles"} \subseteq
        GovernanceController.admin \ GovernanceController.keyed
  BY DEF GovernanceController
<1>5. "createIngestionBatch" \in IngestionController.admin \cap WorkspaceMethods.keyed
  BY DEF IngestionController, WorkspaceMethods
<1>6. {"approveBillingStatement", "sendBillingStatement"} \subseteq
        BillingAgentController.admin \cap StatementMethods.keyed
  BY DEF BillingAgentController, StatementMethods
<1>7. "listAgentRuns" \in BillingAgentController.admin \ BillingAgentController.keyed
  BY DEF BillingAgentController
<1>8. "getOperatorReadiness" \in
        OperatorReadinessController.admin \ OperatorReadinessController.keyed
  BY DEF OperatorReadinessController
<1> QED BY <1>2, <1>3, <1>4, <1>5, <1>6, <1>7, <1>8 DEF Controllers, ClientParts
-----------------------------------------------------------------------------
(* What the pages read.                                                    *)

LEMMA ConsolesAt ==
  /\ ConsoleAt["portfolio"] = CloudPortfolioConsole
  /\ ConsoleAt["costs"] = IngestionOverview
  /\ ConsoleAt["executive"] = ExecutiveConsole
  /\ ConsoleAt["insights"] = InsightsConsole
  /\ ConsoleAt["optimization"] = OptimizationConsole
  /\ ConsoleAt["billing"] = BillingAgentConsole
  /\ ConsoleAt["reporting"] = ReportingConsole
  /\ ConsoleAt["allocation"] = AllocationConsole
  /\ ConsoleAt["governance"] = GovernanceConsole
  /\ ConsoleAt["operator"] = OperatorReadinessConsole
  /\ ConsoleAt["settings"] = Console({}, {}, <<>>)
BY DEF ConsoleAt

LEMMA LoadsAt ==
  ASSUME NEW r
  PROVE
  /\ Loads("portfolio", r) = {"listTenants", "listCloudConnections", "listAccounts",
                              "listAccountGroups", "getCostSummary"}
  /\ Loads("costs", r) = {"listCostRecords"}
  /\ Loads("executive", r) = {"getExecutiveSummary"}
  /\ Loads("insights", r) = {"getCostSummary", "listCostRecords", "getCostExplorerFlow"}
  /\ Loads("optimization", r) = {"listRecommendations", "listRealizedSavings"}
  /\ Loads("billing", r) = {"listAnomalies", "listBillingStatements"} \cup
                           (IF r = "admin" THEN {"listAgentRuns"} ELSE {})
  /\ Loads("reporting", r) = {"listReports", "listViews"}
  /\ Loads("allocation", r) = {"listDimensions", "getCostSummary"}
  /\ Loads("governance", r) = IF r = "admin" THEN {"listRoles"} ELSE {}
  /\ Loads("operator", r) = {"getOperatorReadiness"}
  /\ Loads("settings", r) = {}
BY ConsolesAt
   DEF Loads, Console, CloudPortfolioConsole, IngestionOverview, ExecutiveConsole,
       InsightsConsole, OptimizationConsole, BillingAgentConsole, ReportingConsole,
       AllocationConsole, GovernanceConsole, OperatorReadinessConsole

(* The boot reads for a page what the page's own load reads.               *)
LEMMA WarmsAreLoads ==
  ASSUME NEW p \in ProductRoutes, NEW r
  PROVE  Warms(p, r) = Loads(p, r)
BY LoadsAt DEF ProductRoutes, Warms

(* A page that a role may open reads what the role may read.               *)
LEMMA LoadsAccepted ==
  ASSUME NEW p \in ProductRoutes, NEW r \in Roles, CanAccess(p, r)
  PROVE  \A c \in Loads(p, r) : Accepts(r, c)
<1>1. {"listTenants", "listCloudConnections", "listAccounts", "listAccountGroups",
       "listViews"} \subseteq GovernanceController.viewer
  BY DEF GovernanceController
<1>2. {"listAnomalies", "listBillingStatements"} \subseteq BillingAgentController.viewer
  BY DEF BillingAgentController
<1>3. {"listRecommendations", "listRealizedSavings"} \subseteq OptimizationController.viewer
  BY DEF OptimizationController
<1>4. {"getCostSummary", "listCostRecords", "getCostExplorerFlow"} \subseteq
        CostRecordsController.viewer
  BY DEF CostRecordsController
<1>5. "listReports" \in ReportingController.viewer /\ "listDimensions" \in
        AllocationController.viewer /\ "getExecutiveSummary" \in ExecutiveController.viewer
  BY DEF ReportingController, AllocationController, ExecutiveController
<1>6. \A c \in {"listTenants", "listCloudConnections", "listAccounts", "listAccountGroups",
                "listViews", "listAnomalies", "listBillingStatements", "listRecommendations",
                "listRealizedSavings", "getCostSummary", "listCostRecords",
                "getCostExplorerFlow", "listReports", "listDimensions",
                "getExecutiveSummary"} : Accepts(r, c)
  BY <1>1, <1>2, <1>3, <1>4, <1>5, ViewersAccepted
<1>7. r = "admin" =>
        /\ Accepts(r, "listRoles") /\ Accepts(r, "listAgentRuns")
        /\ Accepts(r, "getOperatorReadiness")
  BY Ranks, AdminsAccepted
<1>8. p = "operator" => r = "admin"
  BY DEF CanAccess, AdminOnly
<1> QED BY <1>6, <1>7, <1>8, LoadsAt DEF ProductRoutes

LEMMA LoadsAreHandlers ==
  ASSUME NEW p \in ProductRoutes, NEW r
  PROVE  Loads(p, r) \subseteq Handlers
<1>1. "admin" \in Roles /\ CanAccess(p, "admin")
  BY DEF Roles, CanAccess
<1>2. \A c \in Loads(p, "admin") : Accepts("admin", c)
  BY <1>1, LoadsAccepted
<1>3. Loads(p, r) \subseteq Loads(p, "admin")
  BY DEF Loads
<1>4. \A c : Accepts("admin", c) => c \in Handlers
  BY DEF Accepts, Handlers
<1> QED BY <1>2, <1>3, <1>4

LEMMA ViewsAccepted ==
  ASSUME NEW r \in Roles
  PROVE  Accepts(r, "listViews")
<1>1. "listViews" \in GovernanceController.viewer
  BY DEF GovernanceController
<1> QED BY <1>1, ViewersAccepted
-----------------------------------------------------------------------------
(* What the controls of the pages send.                                    *)

(* Whoever passes the gate of the control may send what it sends.          *)
Permitted(act) ==
  /\ Len(act.writes) \in 0 .. 2
  /\ {act.reloads, act.inPlace, act.overlaps} \subseteq BOOLEAN
  /\ \A r \in Roles : HasRole(r, act.gate) =>
       /\ \A i \in 1 .. Len(act.writes) : Accepts(r, act.writes[i])
       /\ \A c \in act.reads : Accepts(r, c)

Fields == {"gate", "writes", "reads", "reloads", "inPlace", "overlaps"}

Has(act, gate, writes, reads, reloads, overlaps) ==
  /\ DOMAIN act = Fields
  /\ act.gate = gate /\ act.writes = writes /\ act.reads = reads
  /\ act.reloads = reloads /\ act.overlaps = overlaps /\ act.inPlace \in BOOLEAN

LEMMA Forms ==
  ASSUME NEW g, NEW w, NEW q
  PROVE  /\ Has(Shows(g, w, q), g, w, q, FALSE, FALSE)
         /\ Has(ShowsInPlace(g, w, q), g, w, q, FALSE, FALSE)
         /\ Has(Reloads(g, w), g, w, {}, TRUE, FALSE)
         /\ Has(Overlapping(Shows(g, w, q)), g, w, q, FALSE, TRUE)
         /\ Has(Overlapping(Reloads(g, w)), g, w, {}, TRUE, TRUE)
<1>1. \A x : Has(Shows(g, w, x), g, w, x, FALSE, FALSE)
  BY DEF Shows, Has, Fields
<1>2. ASSUME NEW act, NEW x, NEW re, Has(act, g, w, x, re, FALSE)
      PROVE  /\ Has([act EXCEPT !.inPlace = TRUE], g, w, x, re, FALSE)
             /\ Has([act EXCEPT !.reloads = TRUE], g, w, x, TRUE, FALSE)
             /\ Has([act EXCEPT !.overlaps = TRUE], g, w, x, re, TRUE)
  BY <1>2 DEF Has, Fields
<1>3. Has(ShowsInPlace(g, w, q), g, w, q, FALSE, FALSE)
  BY <1>1, <1>2 DEF ShowsInPlace
<1>4. Has(Reloads(g, w), g, w, {}, TRUE, FALSE)
  BY <1>1, <1>2 DEF Reloads
<1>5. Has(Overlapping(Shows(g, w, q)), g, w, q, FALSE, TRUE)
  BY <1>1, <1>2 DEF Overlapping
<1>6. Has(Overlapping(Reloads(g, w)), g, w, {}, TRUE, TRUE)
  BY <1>4, <1>2 DEF Overlapping
<1> QED BY <1>1, <1>3, <1>4, <1>5, <1>6

(* A control of any form is permitted if its calls are.                    *)
LEMMA FormPermitted ==
  ASSUME NEW g, NEW w, Len(w) \in 0 .. 2, NEW q,
         \A r \in Roles : HasRole(r, g) =>
           /\ \A i \in 1 .. Len(w) : Accepts(r, w[i])
           /\ \A c \in q : Accepts(r, c)
  PROVE  /\ Permitted(Shows(g, w, q)) /\ Permitted(ShowsInPlace(g, w, q))
         /\ Permitted(Reloads(g, w))
         /\ Permitted(Overlapping(Shows(g, w, q))) /\ Permitted(Overlapping(Reloads(g, w)))
<1>1. ASSUME NEW act, NEW x \in {q, {}}, NEW re \in BOOLEAN, NEW ov \in BOOLEAN,
             Has(act, g, w, x, re, ov)
      PROVE  Permitted(act)
  BY <1>1 DEF Has, Permitted
<1> QED BY <1>1, Forms

LEMMA Sequences ==
  ASSUME NEW a, NEW b
  PROVE  /\ Len(<<>>) = 0 /\ Len(<<a>>) = 1 /\ Len(<<a, b>>) = 2
         /\ \A i \in 1 .. Len(<<a>>) : <<a>>[i] = a
         /\ \A i \in 1 .. Len(<<a, b>>) : <<a, b>>[i] \in {a, b}
OBVIOUS

(* The control reads only, sends one write, or one after the other.        *)
LEMMA Reading ==
  ASSUME NEW g, NEW q, \A r \in Roles : HasRole(r, g) => \A c \in q : Accepts(r, c)
  PROVE  /\ Permitted(Shows(g, <<>>, q)) /\ Permitted(ShowsInPlace(g, <<>>, q))
         /\ Permitted(Reloads(g, <<>>))
         /\ Permitted(Overlapping(Shows(g, <<>>, q)))
         /\ Permitted(Overlapping(Reloads(g, <<>>)))
BY FormPermitted, Sequences

LEMMA Writing ==
  ASSUME NEW g, NEW a, NEW q,
         \A r \in Roles : HasRole(r, g) => Accepts(r, a) /\ \A c \in q : Accepts(r, c)
  PROVE  Permitted(Shows(g, <<a>>, q)) /\ Permitted(Reloads(g, <<a>>))
<1>1. \A r \in Roles : HasRole(r, g) =>
        /\ \A i \in 1 .. Len(<<a>>) : Accepts(r, <<a>>[i])
        /\ \A c \in q : Accepts(r, c)
  BY Sequences
<1>2. Len(<<a>>) \in 0 .. 2
  BY Sequences
<1> QED BY <1>1, <1>2, FormPermitted

LEMMA WritingTwo ==
  ASSUME NEW g, NEW a, NEW b, NEW q,
         \A r \in Roles : HasRole(r, g) =>
           Accepts(r, a) /\ Accepts(r, b) /\ \A c \in q : Accepts(r, c)
  PROVE  Permitted(Shows(g, <<a, b>>, q)) /\ Permitted(Reloads(g, <<a, b>>))
<1>1. \A r \in Roles : HasRole(r, g) =>
        /\ \A i \in 1 .. Len(<<a, b>>) : Accepts(r, <<a, b>>[i])
        /\ \A c \in q : Accepts(r, c)
  BY Sequences
<1>2. Len(<<a, b>>) \in 0 .. 2
  BY Sequences
<1> QED BY <1>1, <1>2, FormPermitted

LEMMA Reloading ==
  ASSUME NEW g, NEW a, \A r \in Roles : HasRole(r, g) => Accepts(r, a)
  PROVE  Permitted(Reloads(g, <<a>>))
<1> DEFINE none == {}
<1>1. \A r \in Roles : HasRole(r, g) => Accepts(r, a) /\ \A c \in none : Accepts(r, c)
  OBVIOUS
<1> HIDE DEF none
<1> QED BY <1>1, Writing

LEMMA ReloadingTwo ==
  ASSUME NEW g, NEW a, NEW b,
         \A r \in Roles : HasRole(r, g) => Accepts(r, a) /\ Accepts(r, b)
  PROVE  Permitted(Reloads(g, <<a, b>>))
<1> DEFINE none == {}
<1>1. \A r \in Roles : HasRole(r, g) =>
        Accepts(r, a) /\ Accepts(r, b) /\ \A c \in none : Accepts(r, c)
  OBVIOUS
<1> HIDE DEF none
<1> QED BY <1>1, WritingTwo

PageSound(p) ==
  \A a \in DOMAIN ConsoleAt[p].acts :
    /\ Permitted(ConsoleAt[p].acts[a])
    /\ a \notin Keys \cup {"load"}

LEMMA PortfolioSound == PageSound("portfolio")
<1>1. Permitted(Overlapping(Reloads(Ungated, <<>>)))
  BY Reading
<1>2. Permitted(Reloads("admin", <<"createCloudConnection", "validateCloudConnection">>))
  <2>1. \A r \in Roles : HasRole(r, "admin") =>
          Accepts(r, "createCloudConnection") /\ Accepts(r, "validateCloudConnection")
    BY AdminsAccepted
  <2> QED BY <2>1, ReloadingTwo
<1>3. Permitted(ShowsInPlace("admin", <<>>, {"getCloudConnectionOnboarding"}))
  BY AdminsAccepted, Reading
<1>4. Permitted(ShowsInPlace(Ungated, <<>>, {"listCloudConnectionRuns"}))
  <2>1. "listCloudConnectionRuns" \in GovernanceController.viewer
    BY DEF GovernanceController
  <2> QED BY <2>1, ViewersAccepted, Reading
<1>5. ConsoleAt["portfolio"].acts = PortfolioControls
  BY ConsolesAt DEF CloudPortfolioConsole, Console
<1> QED BY <1>1, <1>2, <1>3, <1>4, <1>5 DEF PageSound, PortfolioControls, Keys

LEMMA CostsSound == PageSound("costs")
<1>1. Permitted(Reloads("admin", <<"createIngestionBatch">>))
  <2>1. \A r \in Roles : HasRole(r, "admin") => Accepts(r, "createIngestionBatch")
    BY AdminsAccepted
  <2> QED BY <2>1, Reloading
<1>2. ConsoleAt["costs"].acts = [run |-> Reloads("admin", <<"createIngestionBatch">>)]
  BY ConsolesAt DEF IngestionOverview, Console
<1> QED BY <1>1, <1>2 DEF PageSound, Keys

LEMMA ExecutiveSound == PageSound("executive")
<1>1. {"exportExecutiveSummaryPdf", "estimateTco"} \subseteq ExecutiveController.viewer
  BY DEF ExecutiveController
<1>2. /\ Permitted(Shows(Ungated, <<>>, {"exportExecutiveSummaryPdf"}))
      /\ Permitted(Shows(Ungated, <<"estimateTco">>, {}))
  BY <1>1, ViewersAccepted, Reading, Writing
<1>3. ConsoleAt["executive"].acts =
        [exportPdf |-> Shows(Ungated, <<>>, {"exportExecutiveSummaryPdf"}),
         estimate  |-> Shows(Ungated, <<"estimateTco">>, {})]
  BY ConsolesAt DEF ExecutiveConsole, Console
<1> QED BY <1>2, <1>3 DEF PageSound, Keys

LEMMA InsightsSound == PageSound("insights")
<1>1. "exportCostRecords" \in CostRecordsController.viewer
  BY DEF CostRecordsController
<1>2. /\ Permitted(Overlapping(Shows(Ungated, <<>>, {"exportCostRecords"})))
      /\ Permitted(Overlapping(Reloads(Ungated, <<>>)))
  BY <1>1, ViewersAccepted, Reading
<1>3. ConsoleAt["insights"].acts =
        [exportInventory |-> Overlapping(Shows(Ungated, <<>>, {"exportCostRecords"})),
         filter          |-> Overlapping(Reloads(Ungated, <<>>))]
  BY ConsolesAt DEF InsightsConsole, Console
<1> QED BY <1>2, <1>3 DEF PageSound, Keys

LEMMA OptimizationSound == PageSound("optimization")
<1>1. Permitted(Reloads("analyst", <<"updateRecommendation">>))
  BY AnalystsAccepted, Reloading
<1>2. ConsoleAt["optimization"].acts =
        [apply |-> Reloads("analyst", <<"updateRecommendation">>)]
  BY ConsolesAt DEF OptimizationConsole, Console
<1> QED BY <1>1, <1>2 DEF PageSound, Keys

LEMMA BillingSound == PageSound("billing")
<1>1. {"scanBillingAnomalies", "updateAnomalyStatus", "generateBillingStatements",
       "disputeBillingStatement"} \subseteq BillingAgentController.analyst
  BY DEF BillingAgentController
<1>2. {"exportBillingStatementCsv", "exportBillingStatementPdf"} \subseteq
        BillingAgentController.viewer
  BY DEF BillingAgentController
<1>3. \A c \in {"scanBillingAnomalies", "updateAnomalyStatus", "generateBillingStatements",
                "disputeBillingStatement"} : Permitted(Reloads("analyst", <<c>>))
  BY <1>1, AnalystsAccepted, Reloading
<1>4. \A c \in {"approveBillingStatement", "sendBillingStatement"} :
        Permitted(Reloads("admin", <<c>>))
  <2>1. \A c \in {"approveBillingStatement", "sendBillingStatement"} :
          \A r \in Roles : HasRole(r, "admin") => Accepts(r, c)
    BY AdminsAccepted
  <2> QED BY <2>1, Reloading
<1>5. \A c \in {"exportBillingStatementCsv", "exportBillingStatementPdf"} :
        Permitted(Shows(Ungated, <<>>, {c}))
  BY <1>2, ViewersAccepted, Reading
<1>6. /\ Permitted(AnomalyControls.scan) /\ Permitted(AnomalyControls.markFalsePositive)
      /\ Permitted(StatementControls.generate) /\ Permitted(StatementControls.approve)
      /\ Permitted(StatementControls.send) /\ Permitted(StatementControls.dispute)
      /\ Permitted(ExportControls.exportCsv) /\ Permitted(ExportControls.exportPdf)
  BY <1>3, <1>4, <1>5
     DEF AnomalyControls, StatementControls, ExportControls, AnomalyGates, StatementGates
<1>7. ConsoleAt["billing"].acts =
        [scan |-> AnomalyControls.scan,
         markFalsePositive |-> AnomalyControls.markFalsePositive,
         generate |-> StatementControls.generate, approve |-> StatementControls.approve,
         send |-> StatementControls.send, dispute |-> StatementControls.dispute,
         exportCsv |-> ExportControls.exportCsv, exportPdf |-> ExportControls.exportPdf]
  BY ConsolesAt DEF BillingAgentConsole, Console
<1> QED BY <1>6, <1>7 DEF PageSound, Keys

LEMMA ReportingSound == PageSound("reporting")
<1>1. "runReport" \in ReportingController.viewer
  BY DEF ReportingController
<1>2. /\ Permitted(Shows("admin", <<"createView">>, {}))
      /\ Permitted(Overlapping(Shows(Ungated, <<>>, {"runReport"})))
  BY <1>1, Ranks, AnalystsAccepted, ViewersAccepted, Reading, Writing
<1>3. ConsoleAt["reporting"].acts =
        [createAwsView |-> Shows("admin", <<"createView">>, {}),
         runReport     |-> Overlapping(Shows(Ungated, <<>>, {"runReport"}))]
  BY ConsolesAt DEF ReportingConsole, Console
<1> QED BY <1>2, <1>3 DEF PageSound, Keys

LEMMA AllocationSound == PageSound("allocation")
<1>1. "getCostSummary" \in CostRecordsController.viewer
  BY DEF CostRecordsController
<1>2. /\ Permitted(Shows("analyst", <<"createDimension", "createDimensionMapping">>,
                         {"getCostSummary"}))
      /\ Permitted(Shows("analyst", <<"upsertResourceTag">>, {"getCostSummary"}))
  BY <1>1, AnalystsAccepted, ViewersAccepted, Writing, WritingTwo
<1>3. ConsoleAt["allocation"].acts =
        [create |-> Shows("analyst", <<"createDimension", "createDimensionMapping">>,
                          {"getCostSummary"}),
         retag  |-> Shows("analyst", <<"upsertResourceTag">>, {"getCostSummary"})]
  BY ConsolesAt DEF AllocationConsole, Console
<1> QED BY <1>2, <1>3 DEF PageSound, Keys

LEMMA GovernanceSound ==
  /\ PageSound("governance")
  /\ \A a \in DOMAIN ConsoleAt["governance"].acts :
       Len(ConsoleAt["governance"].acts[a].writes) = 0
<1>1. "exportCostRecords" \in CostRecordsController.viewer
  BY DEF CostRecordsController
<1> DEFINE act == ShowsInPlace(Ungated, <<>>, {"exportCostRecords"})
<1>2. Permitted(act)
  BY <1>1, ViewersAccepted, Reading
<1>3. Len(act.writes) = 0
  <2>1. Has(act, Ungated, <<>>, {"exportCostRecords"}, FALSE, FALSE)
    BY Forms
  <2> QED BY <2>1, Sequences DEF Has
<1>4. ConsoleAt["governance"].acts = [exportCsv |-> act]
  BY ConsolesAt DEF GovernanceConsole, Console
<1> HIDE DEF act
<1> QED BY <1>2, <1>3, <1>4 DEF PageSound, Keys

LEMMA OperatorSound == PageSound("operator")
<1>1. Permitted(Reloads(Ungated, <<>>))
  BY Reading
<1>2. ConsoleAt["operator"].acts = [refresh |-> Reloads(Ungated, <<>>)]
  BY ConsolesAt DEF OperatorReadinessConsole, Console
<1> QED BY <1>1, <1>2 DEF PageSound, Keys

LEMMA SettingsSound == PageSound("settings")
<1>1. ConsoleAt["settings"].acts = <<>>
  BY ConsolesAt DEF Console
<1> QED BY <1>1 DEF PageSound

(* The gate of every control of every page is strict enough.               *)
LEMMA PagesSound ==
  ASSUME NEW p \in ProductRoutes
  PROVE  PageSound(p)
BY PortfolioSound, CostsSound, ExecutiveSound, InsightsSound, OptimizationSound, BillingSound,
   ReportingSound, AllocationSound, GovernanceSound, OperatorSound, SettingsSound
   DEF ProductRoutes
-----------------------------------------------------------------------------
(* Jobs.                                                                   *)

USE RoutesAssumption

LEMMA PageOf ==
  ASSUME TypeOK
  PROVE  /\ route \in ProductRoutes
         /\ PageSound(route)
         /\ \A a \in Controls : a \notin Keys \cup {"load"}
BY PagesSound DEF TypeOK, PageSound, Controls

(* A job's numbers are writes the server has applied.                      *)
JobOK(j) == j \in JobType /\ j.got \in 0 .. server /\ j.wrote \in 0 .. server

LEMMA JobsOK == TypeOK => \A j \in jobs : JobOK(j)
BY DEF TypeOK, JobOK

LEMMA NewJob ==
  ASSUME TypeOK, NEW kind \in Keys \cup {"load"} \cup Controls, NEW owner \in Nat
  PROVE  /\ JobOK(Job(kind, owner))
         /\ Job(kind, owner).kind = kind /\ Job(kind, owner).owner = owner
         /\ Job(kind, owner).pc = "sent"
         /\ Job(kind, owner).got = 0 /\ Job(kind, owner).wrote = 0
BY DEF Job, JobOK, JobType, TypeOK

LEMMA AskedKeeps ==
  ASSUME NEW j \in JobType
  PROVE  /\ Asked(j) \in JobType
         /\ Asked(j).kind = j.kind /\ Asked(j).owner = j.owner /\ Asked(j).step = j.step
         /\ Asked(j).got = j.got /\ Asked(j).wrote = j.wrote
         /\ Asked(j).pc \in {"wait", "sent"}
BY DEF Asked, JobType

(* Whoever asks for a token runs on, and starts at most one refresh.       *)
LEMMA RunOK ==
  ASSUME TypeOK, NEW ended, NEW asking, Run(ended, asking), \A j \in asking : JobOK(j),
         UNCHANGED <<route, server>>
  PROVE  /\ jobs' \subseteq JobType' /\ \A j \in jobs' : {j.got, j.wrote} \subseteq 0 .. server'
         /\ \A j \in jobs' : j \in jobs \ ended \/ \E i \in asking : j = Asked(i)
         /\ updates' \in Nat /\ (updates <= 1 => updates' <= 1)
<1>1. /\ jobs' = (jobs \ ended) \cup {Asked(j) : j \in asking}
      /\ updates' = updates \/ updates' = 1
  BY DEF Run, UpdatesAfter
<1>2. \A j \in asking : Asked(j) \in JobType /\ {Asked(j).got, Asked(j).wrote} \subseteq 0 .. server
  BY AskedKeeps DEF JobOK
<1>3. \A j \in jobs : j \in JobType /\ {j.got, j.wrote} \subseteq 0 .. server
  BY DEF TypeOK
<1>4. JobType' = JobType
  BY DEF JobType, Controls
<1> QED BY <1>1, <1>2, <1>3, <1>4 DEF TypeOK

(* What a run of the boot loads next: the value it has come to, unless it  *)
(* is there or on its way.                                                 *)
LEMMA LoadingIsNext ==
  ASSUME TypeOK, NEW values, NEW running, NEW run \in Nat
  PROVE  /\ StepWith(values) \in Keys \cup {"finishing"}
         /\ StepWith(values) = "route" => "context" \in DOMAIN values
         /\ \A j \in Loading(values, running, run) :
              /\ JobOK(j)
              /\ j = Job(StepWith(values), run) /\ j.kind = StepWith(values)
              /\ j.kind \in Keys /\ j.kind \notin DOMAIN values
              /\ \A i \in running : i.kind # j.kind
<1>1. /\ StepWith(values) \in Keys \cup {"finishing"}
      /\ StepWith(values) = "route" => "context" \in DOMAIN values
  BY DEF StepWith, Keys
<1>2. ASSUME NEW j \in Loading(values, running, run)
      PROVE  /\ StepWith(values) \in Keys
             /\ j = Job(StepWith(values), run)
             /\ StepWith(values) \notin DOMAIN values
             /\ \A i \in running : i.kind # StepWith(values)
  BY <1>2 DEF Loading, Prime
<1> QED BY <1>1, <1>2, NewJob
-----------------------------------------------------------------------------
(* What a step does to the types.                                          *)

LEMMA NoValues ==
  ASSUME NEW values, values = <<>>
  PROVE  DOMAIN values = {} /\ values \in [DOMAIN values -> 0 .. 0]
OBVIOUS

LEMMA NewBoot ==
  ASSUME NEW run \in Nat
  PROVE  /\ Boot("loading", "context", run) \in BootType /\ Idle \in BootType
         /\ Boot("ready", "none", run) \in BootType
         /\ \A values : Boot("loading", StepWith(values), run) \in BootType
<1>1. \A values : StepWith(values) \in Keys \cup {"finishing"}
  BY DEF StepWith, Keys
<1> QED BY <1>1 DEF Boot, Idle, BootType, Keys

LEMMA NewConsole ==
  /\ NoConsole \in ConsoleType /\ [NoConsole EXCEPT !.id = 1] \in ConsoleType
  /\ NoConsole.seen = 0 /\ NoConsole.acked = 0
  /\ [NoConsole EXCEPT !.id = 1].seen = 0 /\ [NoConsole EXCEPT !.id = 1].acked = 0
BY DEF NoConsole, ConsoleType

(* What the steps do to a console.                                         *)
LEMMA ChangedConsole ==
  ASSUME NEW c \in ConsoleType, NEW n \in Nat, NEW h \in SUBSET Handlers,
         NEW s \in {"loading", "loaded", "error"}, NEW b \in SUBSET Controls
  PROVE  /\ [c EXCEPT !.shown = FALSE] \in ConsoleType
         /\ [c EXCEPT !.state = s] \in ConsoleType
         /\ [c EXCEPT !.busy = b] \in ConsoleType
         /\ [c EXCEPT !.acked = n] \in ConsoleType
         /\ [c EXCEPT !.seen = n] \in ConsoleType
         /\ [c EXCEPT !.has = h] \in ConsoleType
BY DEF ConsoleType

LEMMA RouteStays == [Next]_vars => UNCHANGED route
BY DEF Next, vars, PageLoad, SignedIn, NotSignedIn, Expire, Refreshed, RefreshFails, Logout,
       Serve, Primed, NotPrimed, Loaded, GoOn, Finish, RetryBoot, BootReady, RetryLoad, Click

(* TypeOK, part by part.                                                   *)
TabTyped ==
  /\ route \in Routes
  /\ status \in {"loading", "authenticated", "unauthenticated", "error"}
  /\ role \in Roles \cup {NoRole}
  /\ {stale, refused, lost} \subseteq BOOLEAN
  /\ updates \in Nat /\ server \in Nat
  /\ used \in [expiries : Nat, inputs : Nat]

JobsTyped == \A j \in jobs : JobOK(j)

ConsoleTyped == console \in ConsoleType /\ {console.seen, console.acked} \subseteq 0 .. server

ValuesTyped == DOMAIN cached \subseteq Keys /\ cached \in [DOMAIN cached -> 0 .. server]

LEMMA TypedParts ==
  TypeOK <=> TabTyped /\ JobsTyped /\ ConsoleTyped /\ ValuesTyped /\ boot \in BootType
BY DEF TypeOK, TabTyped, JobsTyped, JobOK, ConsoleTyped, ValuesTyped

LEMMA InitTyped == Init => TypeOK
<1> SUFFICES ASSUME Init PROVE TypeOK
  OBVIOUS
<1>1. TabTyped /\ JobsTyped
  BY DEF Init, TabTyped, JobsTyped
<1>2. ValuesTyped
  BY NoValues DEF Init, ValuesTyped
<1>3. ConsoleTyped
  BY NewConsole DEF Init, ConsoleTyped
<1>4. boot \in BootType
  BY NewBoot DEF Init
<1> QED BY <1>1, <1>2, <1>3, <1>4, TypedParts

(* The request of a job that is answered or goes on.                       *)
LEMMA ServedJob ==
  ASSUME NEW j \in JobType, NEW ok \in BOOLEAN, NEW got \in Nat,
         NEW n, n = [j EXCEPT !.pc = "answered", !.ok = ok, !.got = got]
  PROVE  /\ n \in JobType /\ n.kind = j.kind /\ n.owner = j.owner /\ n.step = j.step
         /\ n.pc = "answered" /\ n.got = got /\ n.wrote = j.wrote /\ n.ok = ok
BY DEF JobType

LEMMA NextJob ==
  ASSUME TypeOK, NEW j \in JobType, IsAct(j), Writes(j),
         NEW next, next = [j EXCEPT !.step = @ + 1, !.wrote = j.got]
  PROVE  /\ next \in JobType /\ next.kind = j.kind /\ next.owner = j.owner
         /\ next.step = j.step + 1 /\ next.pc = j.pc
         /\ next.got = j.got /\ next.wrote = j.got
<1>1. j.kind \in Controls
  BY DEF IsAct, JobType
<1>2. Len(Act(j).writes) \in 0 .. 2
  BY <1>1, PageOf DEF Act, PageSound, Permitted, Controls
<1> DEFINE n == Len(Act(j).writes)
<1>3. n \in 0 .. 2 /\ j.step <= n /\ j.step \in 1 .. 3
  BY <1>2 DEF Writes, JobType
<1> HIDE DEF n
<1>4. j.step + 1 \in 1 .. 3
  BY <1>3
<1> QED BY <1>4 DEF JobType

LEMMA TypeStep == TypeOK /\ [Next]_vars => TypeOK'
<1> SUFFICES ASSUME TypeOK, [Next]_vars PROVE TypeOK'
  OBVIOUS
<1>r. UNCHANGED route
  BY RouteStays
<1>h. Loads(route, role) \subseteq Handlers /\ Warms(route, role) \subseteq Handlers
  BY PageOf, LoadsAreHandlers, WarmsAreLoads
<1>p. TabTyped /\ JobsTyped /\ ConsoleTyped /\ ValuesTyped /\ boot \in BootType
  BY TypedParts
<1>t. JobType' = JobType /\ ConsoleType' = ConsoleType /\ BootType' = BootType
  BY <1>r DEF JobType, ConsoleType, BootType, Controls
<1>q. ASSUME TabTyped', JobsTyped', ConsoleTyped', ValuesTyped', boot' \in BootType'
      PROVE  TypeOK'
  BY <1>q DEF TypeOK, TabTyped, JobsTyped, JobOK, ConsoleTyped, ValuesTyped
<1>i. boot.run \in Nat /\ boot.run + 1 \in Nat /\ console.id \in Nat /\ console.id + 1 \in Nat
  BY <1>p DEF BootType, ConsoleTyped, ConsoleType
<1>l. \A id \in Nat : JobOK(Job("load", id)) /\ JobOK(Job("context", id))
  BY NewJob DEF Keys
(* A step that starts and ends jobs, and leaves the server alone.          *)
<1>w. ASSUME NEW ended, NEW asking, Run(ended, asking), \A j \in asking : JobOK(j),
             UNCHANGED <<server, role, status, stale>>,
             boot' \in BootType, ConsoleTyped', ValuesTyped',
             {refused', lost'} \subseteq BOOLEAN, used' \in [expiries : Nat, inputs : Nat]
      PROVE  TypeOK'
  <2>1. JobsTyped' /\ updates' \in Nat
    BY <1>w, <1>r, RunOK DEF JobsTyped, JobOK
  <2>2. TabTyped'
    BY <1>w, <1>r, <1>p, <2>1 DEF TabTyped
  <2> QED BY <1>w, <1>t, <1>q, <2>1, <2>2
(* What a console is changed to.                                           *)
<1>c. ASSUME NEW c \in ConsoleType, {c.seen, c.acked} \subseteq 0 .. server,
             NEW n \in 0 .. server, NEW h \in SUBSET Handlers,
             NEW s \in {"loading", "loaded", "error"}, NEW b \in SUBSET Controls,
             UNCHANGED server
      PROVE  /\ console' = c => ConsoleTyped'
             /\ console' = [c EXCEPT !.shown = FALSE] => ConsoleTyped'
             /\ console' = [c EXCEPT !.state = s] => ConsoleTyped'
             /\ console' = [c EXCEPT !.busy = b] => ConsoleTyped'
             /\ console' = [c EXCEPT !.seen = n] => ConsoleTyped'
             /\ console' = [c EXCEPT !.acked = n] => ConsoleTyped'
             /\ console' = [c EXCEPT !.state = s, !.has = h, !.seen = n] => ConsoleTyped'
             /\ console' = [c EXCEPT !.busy = b, !.state = s] => ConsoleTyped'
  <2> DEFINE Good(d) == d \in ConsoleType /\ {d.seen, d.acked} \subseteq 0 .. server
  <2>1. Good([c EXCEPT !.shown = FALSE]) /\ Good([c EXCEPT !.state = s])
    BY <1>c DEF ConsoleType
  <2>2. Good([c EXCEPT !.busy = b]) /\ Good([c EXCEPT !.busy = b, !.state = s])
    BY <1>c DEF ConsoleType
  <2>3. Good([c EXCEPT !.seen = n]) /\ Good([c EXCEPT !.acked = n])
    BY <1>c, <1>p DEF ConsoleType, TabTyped
  <2>4. Good([c EXCEPT !.state = s, !.has = h, !.seen = n])
    <3>1. n \in Nat
      BY <1>p DEF TabTyped
    <3>2. [c EXCEPT !.state = s, !.has = h, !.seen = n] \in ConsoleType
      BY <3>1 DEF ConsoleType
    <3>3. /\ [c EXCEPT !.state = s, !.has = h, !.seen = n].seen = n
          /\ [c EXCEPT !.state = s, !.has = h, !.seen = n].acked = c.acked
      BY DEF ConsoleType
    <3> QED BY <1>c, <3>2, <3>3
  <2>5. \A d : console' = d /\ Good(d) => ConsoleTyped'
    BY <1>c, <1>t DEF ConsoleTyped
  <2> HIDE DEF Good
  <2>6. Good(c)
    BY <1>c DEF Good
  <2> QED BY <2>1, <2>2, <2>3, <2>4, <2>5, <2>6
<1>1. CASE PageLoad
  <2>0. server' \in Nat /\ used' \in [expiries : Nat, inputs : Nat]
    BY <1>1, <1>p DEF PageLoad, Input, TabTyped
  <2>1. TabTyped' /\ JobsTyped'
    BY <1>1, <1>r, <1>p, <2>0 DEF PageLoad, TabTyped, JobsTyped
  <2>2. ValuesTyped'
    BY <1>1, <2>1, NoValues DEF PageLoad, ValuesTyped, TabTyped
  <2>3. ConsoleTyped' /\ boot' \in BootType
    BY <1>1, <1>t, <2>1, NewConsole, NewBoot DEF PageLoad, ConsoleTyped, TabTyped
  <2> QED BY <1>q, <1>t, <2>1, <2>2, <2>3
<1>2. CASE SignedIn
  <2>1. TabTyped' /\ ValuesTyped'
    BY <1>2, <1>r, <1>p DEF SignedIn, TabTyped, ValuesTyped
  <2>2. \A j \in jobs' : JobOK(j)
    BY <1>2, <1>p, <1>l DEF SignedIn, JobsTyped
  <2>3. JobsTyped'
    BY <1>2, <1>t, <2>2 DEF SignedIn, JobsTyped, JobOK
  <2>4. ConsoleTyped' /\ boot' \in BootType
    <3>1. CASE CanAccess(route, role')
      <4>1. /\ boot' = Boot("loading", "context", 1) /\ UNCHANGED server
            /\ console' = [NoConsole EXCEPT !.id = 1]
        BY <1>2, <3>1 DEF SignedIn
      <4>2. 1 \in Nat /\ 0 \in 0 .. server
        BY <1>p DEF TabTyped
      <4> QED BY <1>t, <4>1, <4>2, NewConsole, NewBoot DEF ConsoleTyped
    <3>2. CASE ~CanAccess(route, role')
      BY <1>2, <1>t, <1>p, <3>2 DEF SignedIn, ConsoleTyped
    <3> QED BY <3>1, <3>2
  <2> QED BY <1>q, <1>t, <2>1, <2>3, <2>4
<1>3. CASE NotSignedIn
  BY <1>3, <1>r, <1>t DEF NotSignedIn, TypeOK
<1>4. CASE Expire
  BY <1>4, <1>r, <1>t DEF Expire, TypeOK
<1>5. CASE Refreshed
  <2>0. /\ updates' = updates - 1 /\ updates > 0 /\ stale' = FALSE
        /\ UNCHANGED <<route, status, role, cached, server, refused, lost, used>>
    BY <1>5 DEF Refreshed
  <2>1. TabTyped' /\ ValuesTyped'
    <3>1. updates' \in Nat /\ {stale', refused', lost'} \subseteq BOOLEAN
      <4>1. updates' \in Nat
        BY <1>p, <2>0 DEF TabTyped
      <4>2. refused' \in BOOLEAN /\ lost' \in BOOLEAN /\ stale' \in BOOLEAN
        BY <1>p, <2>0 DEF TabTyped
      <4> QED BY <4>1, <4>2
    <3>2. UNCHANGED <<route, status, role, server, used, cached>>
      BY <2>0
    <3>3. TabTyped'
      BY <1>p, <3>1, <3>2 DEF TabTyped
    <3>4. ValuesTyped'
      BY <1>p, <3>2 DEF ValuesTyped
    <3> QED BY <3>3, <3>4
  <2>2. boot' \in BootType
    BY <1>5, <1>p, <1>i, NewBoot DEF Refreshed
  <2>3. ConsoleTyped'
    <3>1. console' = console \/ console' = [console EXCEPT !.shown = FALSE]
      BY <1>5 DEF Refreshed
    <3>2. 0 \in 0 .. server /\ UNCHANGED server
      BY <1>5, <1>p DEF Refreshed, TabTyped
    <3> QED BY <3>1, <3>2, <1>c, <1>p DEF ConsoleTyped
  <2>4. \A j \in jobs : JobOK([j EXCEPT !.pc = "sent"])
    <3>1. ASSUME NEW j \in JobType
          PROVE  /\ [j EXCEPT !.pc = "sent"] \in JobType
                 /\ [j EXCEPT !.pc = "sent"].got = j.got
                 /\ [j EXCEPT !.pc = "sent"].wrote = j.wrote
      BY DEF JobType
    <3> QED BY <1>p, <3>1 DEF JobsTyped, JobOK
  <2>5. \A j \in Loading(cached, jobs, boot.run + 1) : JobOK(j)
    BY <1>i, LoadingIsNext
  <2>6. ASSUME NEW j \in jobs'
        PROVE  \/ j \in jobs \/ \E i \in jobs : j = [i EXCEPT !.pc = "sent"]
               \/ j = Job("load", console.id) \/ j \in Loading(cached, jobs, boot.run + 1)
    BY <1>5 DEF Refreshed
  <2>7. \A j \in jobs' : JobOK(j)
    BY <1>p, <1>i, <1>l, <2>4, <2>5, <2>6 DEF JobsTyped
  <2>8. JobsTyped'
    BY <1>5, <1>t, <2>7 DEF Refreshed, JobsTyped, JobOK
  <2> QED BY <1>q, <1>t, <2>1, <2>2, <2>3, <2>8
<1>6. CASE RefreshFails \/ Logout
  <2>1. TabTyped' /\ ValuesTyped'
    BY <1>6, <1>r, <1>p DEF RefreshFails, Logout, Leave, TabTyped, ValuesTyped
  <2>2. JobsTyped'
    BY <1>6, <1>t, <1>p DEF RefreshFails, Logout, Leave, JobsTyped, JobOK
  <2>3. 0 \in 0 .. server /\ UNCHANGED server /\ console' = [console EXCEPT !.shown = FALSE]
    BY <1>6, <1>p DEF RefreshFails, Logout, Leave, TabTyped
  <2>4. ConsoleTyped'
    BY <2>3, <1>c, <1>p DEF ConsoleTyped
  <2>5. boot' \in BootType
    BY <1>6, NewBoot DEF RefreshFails, Logout, Leave
  <2> QED BY <1>q, <1>t, <2>1, <2>2, <2>4, <2>5
<1>8. ASSUME NEW j \in jobs, Serve(j)
      PROVE  TypeOK'
  <2>1. server' \in Nat /\ server' >= server
    BY <1>8, <1>p DEF Serve, TabTyped
  <2>2. PICK ok \in BOOLEAN : jobs' =
          (jobs \ {j}) \cup {[j EXCEPT !.pc = "answered", !.ok = ok, !.got = server']}
    BY <1>8 DEF Serve
  <2>3. \A k \in jobs : k \in JobType /\ k.got \in 0 .. server' /\ k.wrote \in 0 .. server'
    BY <1>p, <2>1 DEF JobsTyped, JobOK, TabTyped
  <2>4. \A k \in jobs' : k \in JobType /\ k.got \in 0 .. server' /\ k.wrote \in 0 .. server'
    <3> DEFINE n == [j EXCEPT !.pc = "answered", !.ok = ok, !.got = server']
    <3>1. n \in JobType /\ n.got = server' /\ n.wrote = j.wrote
      <4>1. j \in JobType /\ server' \in Nat /\ ok \in BOOLEAN
        BY <2>1, <2>3
      <4>2. n = [j EXCEPT !.pc = "answered", !.ok = ok, !.got = server']
        OBVIOUS
      <4> HIDE DEF n
      <4> QED BY <4>1, <4>2 DEF JobType
    <3>2. \A k \in jobs' : k \in jobs \/ k = n
      BY <2>2
    <3> HIDE DEF n
    <3> QED BY <2>1, <2>3, <3>1, <3>2
  <2>5. JobsTyped'
    BY <1>t, <2>4 DEF JobsTyped, JobOK
  <2>6. ValuesTyped'
    BY <1>8, <1>p, <2>1 DEF Serve, ValuesTyped, TabTyped
  <2>7. ConsoleTyped'
    BY <1>8, <1>p, <1>t, <2>1 DEF Serve, ConsoleTyped, TabTyped
  <2>8. TabTyped'
    BY <1>8, <1>r, <1>p, <2>1 DEF Serve, TabTyped
  <2>9. boot' \in BootType
    BY <1>8, <1>p DEF Serve
  <2> QED BY <1>q, <1>t, <2>5, <2>6, <2>7, <2>8, <2>9
<1>9. ASSUME NEW j \in jobs, Primed(j)
      PROVE  TypeOK'
  <2> DEFINE asking == IF j.kind = "context" THEN Loading(cached', jobs, boot.run) ELSE {}
  <2>1. Run({j}, asking) /\ \A i \in asking : JobOK(i)
    BY <1>9, <1>i, LoadingIsNext DEF Primed
  <2> HIDE DEF asking
  <2>2. boot' \in BootType
    <3>1. StepWith(cached') \in Keys \cup {"finishing"}
      BY DEF StepWith, Keys
    <3> QED BY <1>9, <1>p, <3>1 DEF Primed, BootType
  <2>3. ValuesTyped'
    <3>1. j.kind \in Keys /\ j.got \in 0 .. server
      BY <1>9, <1>p DEF Primed, JobsTyped, JobOK
    <3> QED BY <1>9, <1>p, <3>1 DEF Primed, ValuesTyped
  <2>4. ConsoleTyped' /\ UNCHANGED <<server, role, status, stale, refused, lost, used>>
    BY <1>9, <1>p, <1>t DEF Primed, ConsoleTyped
  <2>5. {refused, lost} \subseteq BOOLEAN /\ used \in [expiries : Nat, inputs : Nat]
    BY <1>p DEF TabTyped
  <2> QED BY <1>w, <2>1, <2>2, <2>3, <2>4, <2>5
<1>10. ASSUME NEW j \in jobs, NotPrimed(j)
       PROVE  TypeOK'
  <2>1. boot' \in BootType
    BY <1>10 DEF NotPrimed, TypeOK, BootType
  <2>2. ConsoleTyped' /\ ValuesTyped'
    BY <1>10, <1>p, <1>t DEF NotPrimed, ConsoleTyped, ValuesTyped
  <2> QED BY <1>10, <1>w, <2>1, <2>2 DEF NotPrimed, TypeOK
(* The steps of a console's job.                                           *)
<1>11. ASSUME NEW j \in jobs, Loaded(j)
       PROVE  TypeOK'
  <2>1. \/ console' = console \/ console' = [console EXCEPT !.state = "error"]
        \/ console' = [console EXCEPT !.state = "loaded", !.has = Loads(route, role),
                                      !.seen = j.got]
    BY <1>11 DEF Loaded
  <2>2. j.got \in 0 .. server
    BY <1>p DEF JobsTyped, JobOK
  <2>3. ConsoleTyped'
    <3>1. UNCHANGED server
      BY <1>11 DEF Loaded
    <3> QED BY <1>c, <1>h, <1>p, <2>1, <2>2, <3>1 DEF ConsoleTyped
  <2>4. ValuesTyped'
    BY <1>11, <1>p DEF Loaded, ValuesTyped
  <2> QED BY <1>11, <1>w, <2>3, <2>4 DEF Loaded, TypeOK
<1>12. ASSUME NEW j \in jobs, GoOn(j)
       PROVE  TypeOK'
  <2>1. JobOK([j EXCEPT !.step = @ + 1, !.wrote = j.got])
    BY <1>12, <1>p, NextJob DEF GoOn, JobsTyped, JobOK
  <2>2. ConsoleTyped'
    <3>1. UNCHANGED server /\ 0 \in 0 .. server
      BY <1>12, <1>p DEF GoOn, TabTyped
    <3>2. console' = console \/ console' = [console EXCEPT !.state = "loading"]
      BY <1>12 DEF GoOn
    <3> QED BY <1>c, <1>p, <3>1, <3>2 DEF ConsoleTyped
  <2>3. ValuesTyped'
    BY <1>12, <1>p DEF GoOn, ValuesTyped
  <2> QED BY <1>12, <1>w, <2>1, <2>2, <2>3 DEF GoOn, TypeOK
<1>13. ASSUME NEW j \in jobs, Finish(j)
       PROVE  TypeOK'
  <2> DEFINE wrote == IF Writes(j) THEN j.got ELSE j.wrote
             freed == [console EXCEPT !.busy = @ \ {j.kind}]
             shown == [freed EXCEPT !.acked = IF wrote > @ THEN wrote ELSE @]
  <2>1. \/ console' = console \/ console' = freed \/ console' = [freed EXCEPT !.state = "error"]
        \/ console' = [shown EXCEPT !.state = "loaded", !.has = Loads(route, role),
                                    !.seen = j.got]
        \/ console' = [shown EXCEPT !.seen = IF wrote > @ THEN wrote ELSE @]
    BY <1>13 DEF Finish
  <2>2. j.got \in 0 .. server /\ wrote \in 0 .. server
    BY <1>p DEF JobsTyped, JobOK
  <2>3. freed \in ConsoleType /\ {freed.seen, freed.acked} \subseteq 0 .. server
    BY <1>p DEF ConsoleTyped, ConsoleType
  <2> HIDE DEF wrote, freed
  <2>4. shown \in ConsoleType /\ {shown.seen, shown.acked} \subseteq 0 .. server
    BY <2>2, <2>3 DEF ConsoleType
  <2> HIDE DEF shown
  <2>5. ConsoleTyped'
    <3>1. UNCHANGED server /\ (IF wrote > shown.seen THEN wrote ELSE shown.seen) \in 0 .. server
      BY <1>13, <2>2, <2>4 DEF Finish
    <3> QED BY <1>c, <1>h, <1>p, <2>1, <2>2, <2>3, <2>4, <3>1 DEF ConsoleTyped
  <2>6. ValuesTyped' /\ lost' \in BOOLEAN
    BY <1>13, <1>p DEF Finish, ValuesTyped, TabTyped
  <2> QED BY <1>13, <1>w, <2>5, <2>6 DEF Finish, TypeOK
<1>14. CASE RetryBoot
  <2>1. \A i \in Loading(<<>>, {}, boot.run + 1) : JobOK(i)
    BY <1>i, LoadingIsNext
  <2>2. boot' \in BootType /\ ConsoleTyped' /\ used' \in [expiries : Nat, inputs : Nat]
    BY <1>14, <1>i, <1>p, <1>t, NewBoot DEF RetryBoot, Input, TabTyped, ConsoleTyped
  <2>3. ValuesTyped'
    BY <1>14, <1>p, NoValues DEF RetryBoot, ValuesTyped, TabTyped
  <2> QED BY <1>14, <1>w, <2>1, <2>2, <2>3 DEF RetryBoot, TypeOK
<1>15. CASE BootReady
  <2> DEFINE warm == "route" \in DOMAIN cached
             seen == IF warm THEN cached["route"] ELSE 0
             own == Rereads(warm, seen)
             asking == IF own THEN {Job("load", console.id + 1)} ELSE {}
  <2>1. seen \in 0 .. server /\ warm \in BOOLEAN
    BY <1>p DEF TabTyped, ValuesTyped
  <2>2. Run({}, asking) /\ \A i \in asking : JobOK(i)
    BY <1>15, <1>i, <1>l DEF BootReady
  <2>3. console' = [NoConsole EXCEPT !.id = console.id + 1, !.shown = TRUE, !.warm = warm,
                      !.state = IF own THEN "loading" ELSE "loaded",
                      !.has = IF warm THEN Warms(route, role) ELSE {}, !.seen = seen]
    BY <1>15 DEF BootReady
  <2>4. boot' \in BootType /\ ValuesTyped'
    BY <1>15, <1>p, <1>i, NewBoot DEF BootReady, ValuesTyped
  <2> HIDE DEF warm, seen, own, asking
  <2>5. console' \in ConsoleType /\ console'.seen = seen /\ console'.acked = 0
    <3> DEFINE st == IF own THEN "loading" ELSE "loaded"
               hs == IF warm THEN Warms(route, role) ELSE {}
               id == console.id + 1
    <3>1. st \in {"loading", "loaded"} /\ hs \subseteq Handlers /\ id \in Nat
      BY <1>h, <1>i
    <3>2. console' = [id |-> id, shown |-> TRUE, state |-> st, warm |-> warm, has |-> hs,
                      seen |-> seen, acked |-> 0, busy |-> {}]
      BY <2>3 DEF NoConsole
    <3> HIDE DEF st, hs, id
    <3>3. seen \in Nat
      BY <2>1, <1>p DEF TabTyped
    <3> QED BY <2>1, <3>1, <3>2, <3>3 DEF ConsoleType
  <2>6. ConsoleTyped'
    BY <1>15, <1>p, <1>t, <2>1, <2>5 DEF BootReady, ConsoleTyped, TabTyped
  <2> QED BY <1>15, <1>w, <2>2, <2>4, <2>6 DEF BootReady, TypeOK
<1>16. CASE RetryLoad
  <2>1. ConsoleTyped' /\ ValuesTyped'
    <3>1. UNCHANGED server /\ 0 \in 0 .. server /\ console' = [console EXCEPT !.state = "loading"]
      BY <1>16, <1>p DEF RetryLoad, TabTyped
    <3>2. ConsoleTyped'
      BY <1>c, <1>p, <3>1 DEF ConsoleTyped
    <3> QED BY <1>16, <1>p, <3>2 DEF RetryLoad, ValuesTyped
  <2> QED BY <1>16, <1>w, <1>i, <1>l, <2>1 DEF RetryLoad, Input, TypeOK
<1>17. ASSUME NEW a \in Controls, Click(a)
       PROVE  TypeOK'
  <2>1. JobOK(Job(a, console.id))
    BY NewJob, <1>i
  <2>2. ConsoleTyped'
    <3>1. UNCHANGED server /\ 0 \in 0 .. server
      BY <1>17, <1>p DEF Click, TabTyped
    <3>2. \E s \in {"loading", console.state} :
            console' = [console EXCEPT !.busy = console.busy \cup {a}, !.state = s]
      BY <1>17 DEF Click
    <3>3. console.state \in {"loading", "loaded", "error"} /\ console.busy \cup {a} \subseteq Controls
      BY <1>p DEF ConsoleTyped, ConsoleType
    <3> QED BY <1>c, <1>p, <3>1, <3>2, <3>3 DEF ConsoleTyped
  <2>3. ValuesTyped'
    BY <1>17, <1>p DEF Click, ValuesTyped
  <2> QED BY <1>17, <1>w, <2>1, <2>2, <2>3 DEF Click, Input, TypeOK
<1>18. CASE UNCHANGED vars
  BY <1>18, <1>t DEF vars, TypeOK
<1> QED BY <1>1, <1>2, <1>3, <1>4, <1>5, <1>6, <1>8, <1>9, <1>10, <1>11, <1>12, <1>13,
           <1>14, <1>15, <1>16, <1>17, <1>18 DEF Next, Controls
-----------------------------------------------------------------------------
(* What a step does to the boot.                                           *)

LEMMA RunNone ==
  ASSUME NEW ended, Run(ended, {})
  PROVE  jobs' = jobs \ ended /\ updates' = updates
BY DEF Run, UpdatesAfter

LEMMA RunOne ==
  ASSUME NEW ended, NEW n, Run(ended, {n})
  PROVE  /\ jobs' = (jobs \ ended) \cup {Asked(n)}
         /\ updates' \in {updates, 1}
BY DEF Run, UpdatesAfter

LEMMA RunMore ==
  ASSUME NEW n, Run({}, {n})
  PROVE  jobs' = jobs \cup {Asked(n)}
BY DEF Run

LEMMA BootStep == TypeOK /\ BootSound /\ [Next]_vars => BootSound'
<1> SUFFICES ASSUME TypeOK, BootSound, [Next]_vars PROVE BootSound'
  OBVIOUS
<1>r. UNCHANGED route
  BY RouteStays
(* While the session is not known nothing happens.                         *)
<1>l. status = "loading" =>
        /\ jobs = {} /\ boot.status = "idle" /\ DOMAIN cached = {}
        /\ ~console.shown /\ updates = 0 /\ ~refused
  BY DEF BootSound
<1>u. updates \in Nat
  BY DEF TypeOK
(* A step of a tab whose boot or console is under way.                     *)
<1>k. ASSUME status # "loading", UNCHANGED <<route, status, role>>,
             boot'.status = boot.status \/ status = "authenticated",
             console'.shown => boot'.status = "ready",
             CanAccess(route, role)
      PROVE  BootSound'
  BY <1>k DEF BootSound
<1>1. CASE PageLoad
  BY <1>1, NoValues DEF PageLoad, BootSound, Idle, Boot, NoConsole
<1>2. CASE SignedIn
  <2>1. ~console.shown /\ ~console'.shown
    BY <1>2, <1>l DEF SignedIn, NoConsole
  <2>2. status' = "authenticated" /\ (CanAccess(route, role') \/ (jobs' = {} /\ boot'.status = "idle"))
    BY <1>2, <1>l DEF SignedIn
  <2> QED BY <1>r, <2>1, <2>2 DEF BootSound
<1>3. CASE NotSignedIn
  BY <1>3, <1>l DEF NotSignedIn, BootSound
<1>4. CASE Expire
  BY <1>4, <1>r DEF Expire, BootSound
<1>5. CASE Refreshed
  <2>1. status # "loading" /\ UNCHANGED <<route, status, role>>
    BY <1>5, <1>l DEF Refreshed
  <2>2. CASE status = "authenticated" /\ CanAccess(route, role)
    <3>1. console' = [console EXCEPT !.shown = FALSE]
      BY <1>5, <2>2 DEF Refreshed
    <3>2. ~console'.shown
      BY <3>1 DEF TypeOK, ConsoleType
    <3> QED BY <1>k, <2>1, <2>2, <3>2
  <2>3. CASE ~(status = "authenticated" /\ CanAccess(route, role))
    <3>1. /\ jobs' = {IF j.pc = "wait" THEN [j EXCEPT !.pc = "sent"] ELSE j : j \in jobs}
          /\ UNCHANGED <<boot, console>>
      BY <1>5, <2>3 DEF Refreshed
    <3>2. jobs = {} => jobs' = {}
      BY <3>1
    <3> QED BY <2>1, <3>1, <3>2 DEF BootSound
  <2> QED BY <2>2, <2>3
<1>6. CASE RefreshFails \/ Logout
  <2>1. /\ console' = [console EXCEPT !.shown = FALSE] /\ boot' = Idle
        /\ status' = "unauthenticated" /\ UNCHANGED <<route, role>> /\ jobs' \subseteq jobs
    BY <1>6 DEF RefreshFails, Logout, Leave
  <2>2. ~console'.shown /\ boot'.status = "idle"
    BY <2>1 DEF TypeOK, ConsoleType, Idle, Boot
  <2> QED BY <2>1, <2>2 DEF BootSound
<1>8. ASSUME NEW j \in jobs, Serve(j) \/ Primed(j) \/ NotPrimed(j) \/ Loaded(j) \/ GoOn(j) \/ Finish(j)
      PROVE  BootSound'
  <2>1. status # "loading" /\ CanAccess(route, role)
    BY <1>l DEF BootSound
  <2>2. UNCHANGED <<route, status, role>>
    BY <1>8 DEF Serve, Primed, NotPrimed, Loaded, GoOn, Finish
  <2>3. boot'.status = boot.status \/ (boot.status = "loading" /\ console' = console)
    BY <1>8 DEF Serve, Primed, NotPrimed, Loaded, GoOn, Finish, Awaits, TypeOK, BootType
  <2>4. console'.shown = console.shown
    <3>1. CASE Serve(j) \/ Primed(j) \/ NotPrimed(j)
      BY <3>1 DEF Serve, Primed, NotPrimed
    <3>2. CASE Loaded(j) \/ GoOn(j)
      BY <3>2 DEF Loaded, GoOn, TypeOK, ConsoleType
    <3>3. CASE Finish(j)
      BY <3>3 DEF Finish, TypeOK, ConsoleType
    <3> QED BY <1>8, <3>1, <3>2, <3>3
  <2>5. console'.shown => boot'.status = "ready"
    BY <2>3, <2>4 DEF BootSound
  <2>6. boot.status = "loading" => status = "authenticated"
    BY DEF BootSound
  <2> QED BY <1>k, <2>1, <2>2, <2>3, <2>5, <2>6
<1>9. CASE RetryBoot \/ BootReady
  <2>1. boot.status # "idle" /\ UNCHANGED <<route, status, role>>
    BY <1>9 DEF RetryBoot, BootReady, Awaits
  <2>2. status = "authenticated" /\ CanAccess(route, role)
    BY <2>1 DEF BootSound
  <2>3. console'.shown => boot'.status = "ready"
    BY <1>9 DEF RetryBoot, BootReady, BootSound, Boot
  <2> QED BY <1>k, <2>1, <2>2, <2>3
<1>10. ASSUME RetryLoad \/ \E a \in Controls : Click(a)
       PROVE  BootSound'
  <2>1. console.shown /\ UNCHANGED <<route, status, role, boot>>
    BY <1>10 DEF RetryLoad, Click, Offered
  <2>2. boot.status = "ready" /\ status # "loading" /\ CanAccess(route, role)
    BY <2>1, <1>l DEF BootSound
  <2> QED BY <1>k, <2>1, <2>2
<1>11. CASE UNCHANGED vars
  BY <1>11 DEF vars, BootSound
<1> QED BY <1>1, <1>2, <1>3, <1>4, <1>5, <1>6, <1>8, <1>9, <1>10, <1>11 DEF Next, Controls
-----------------------------------------------------------------------------
(* What a step does to the work that is shared.                            *)

(* One bootstrap load at most is unanswered.                               *)
LEMMA OneKeyJob ==
  ASSUME LoadsShared, NEW j \in jobs, NEW k \in jobs, j.kind \in Keys, k.kind \in Keys
  PROVE  j = k
BY DEF LoadsShared, Keys

LEMMA SharedStep == TypeOK /\ BootSound /\ LoadsShared /\ [Next]_vars => LoadsShared'
<1> SUFFICES ASSUME TypeOK, BootSound, LoadsShared, [Next]_vars PROVE LoadsShared'
  OBVIOUS
<1>u. updates \in 0 .. 1
  BY DEF TypeOK, LoadsShared
<1>j. \A j \in jobs : j \in JobType
  BY JobsOK DEF JobOK
<1>i. boot.run \in Nat /\ boot.run + 1 \in Nat /\ console.id \in Nat /\ console.id + 1 \in Nat
  BY DEF TypeOK, BootType, ConsoleType
<1>c. \A a \in Controls : a \notin Keys
  BY PageOf
(* A step that starts no bootstrap load.                                   *)
<1>k. ASSUME \A j \in jobs' : j.kind \in Keys => j \in jobs,
             "context" \in DOMAIN cached' <=> "context" \in DOMAIN cached,
             boot'.status = "error" => boot.status = "error",
             updates' <= 1
      PROVE  LoadsShared'
  BY <1>k DEF LoadsShared, Keys
(* A step that starts the next one, when none is under way.                *)
<1>n. ASSUME NEW kind, "context" \in DOMAIN cached' => kind # "context",
             kind = "route" => "context" \in DOMAIN cached',
             \A j, k \in jobs' : j.kind \in Keys /\ k.kind \in Keys => j = k /\ j.kind = kind,
             boot'.status # "error", updates' <= 1
      PROVE  LoadsShared'
  BY <1>n DEF LoadsShared, Keys
<1>1. CASE PageLoad
  BY <1>1, NoValues DEF PageLoad, LoadsShared, Idle, Boot
<1>2. CASE SignedIn
  <2>1. /\ jobs = {} /\ DOMAIN cached = {} /\ boot.status = "idle"
        /\ UNCHANGED <<cached, updates>>
    BY <1>2 DEF SignedIn, BootSound
  <2>2. \A j \in jobs' : j = Job("context", 1) \/ j.kind = "load"
    BY <1>2, <2>1 DEF SignedIn, Job
  <2>3. boot'.status # "error"
    BY <1>2, <2>1 DEF SignedIn, Boot
  <2>4. Job("context", 1).kind = "context"
    BY DEF Job
  <2>5. \A j \in jobs' : j.kind \in Keys => j = Job("context", 1) /\ j.kind = "context"
    BY <2>2, <2>4 DEF Keys
  <2>6. "context" \notin DOMAIN cached' /\ updates' <= 1
    BY <1>u, <2>1
  <2> QED BY <1>n, <2>3, <2>5, <2>6
<1>3. CASE NotSignedIn \/ Expire \/ Logout
  <2>1. boot'.status = boot.status \/ boot'.status = "idle"
    BY <1>3 DEF NotSignedIn, Expire, Logout, Leave, Idle, Boot
  <2> QED BY <1>3, <1>k, <1>u, <2>1 DEF NotSignedIn, Expire, Logout
<1>5. CASE Refreshed
  <2> DEFINE Sent(j) == IF j.pc = "wait" THEN [j EXCEPT !.pc = "sent"] ELSE j
             next == Loading(cached, jobs, boot.run + 1)
  <2>1. \A j \in jobs : Sent(j).kind = j.kind
    BY <1>j DEF JobType
  <2>2. /\ \/ jobs' = {Sent(j) : j \in jobs} /\ boot' = boot
           \/ /\ boot' = Boot("loading", StepWith(cached), boot.run + 1)
              /\ \A j \in jobs' : \/ \E i \in jobs : j = Sent(i)
                                  \/ j = Job("load", console.id)
                                  \/ j \in next
        /\ updates' = updates - 1 /\ UNCHANGED cached
    BY <1>5 DEF Refreshed
  <2>3. /\ \A j \in next : /\ j = Job(StepWith(cached), boot.run + 1)
                           /\ j.kind = StepWith(cached) /\ j.kind \notin DOMAIN cached
                           /\ \A i \in jobs : i.kind # j.kind
        /\ StepWith(cached) = "route" => "context" \in DOMAIN cached
    BY <1>i, LoadingIsNext
  <2>4. Job("load", console.id).kind = "load" /\ updates' <= 1
    BY <1>u, <2>2 DEF Job
  <2> HIDE DEF Sent, next
  <2>5. \A j \in jobs' : j.kind \in Keys => (\E i \in jobs : j = Sent(i)) \/ j \in next
    BY <2>2, <2>4 DEF Keys
  <2>6. boot'.status = "error" => boot' = boot
    BY <2>2 DEF Boot
  <2>7. \A j, k \in jobs' : j.kind \in Keys /\ j.kind = k.kind => j = k
    <3> SUFFICES ASSUME NEW j \in jobs', NEW k \in jobs', j.kind \in Keys, j.kind = k.kind
                 PROVE  j = k
      OBVIOUS
    <3>1. CASE j \in next \/ k \in next
      BY <3>1, <2>1, <2>3, <2>5
    <3>2. CASE (\E i \in jobs : j = Sent(i)) /\ (\E i \in jobs : k = Sent(i))
      BY <3>2, <2>1, OneKeyJob
    <3> QED BY <3>1, <3>2, <2>5
  <2>8. "context" \in DOMAIN cached' => \A j \in jobs' : j.kind # "context"
    BY <2>1, <2>2, <2>3, <2>5 DEF LoadsShared, Keys
  <2>9. \A j \in jobs' : j.kind = "route" => "context" \in DOMAIN cached'
    BY <2>1, <2>2, <2>3, <2>5 DEF LoadsShared, Keys
  <2>10. boot'.status = "error" => \A j \in jobs' : j.kind \notin Keys
    <3>1. ASSUME boot'.status = "error"
          PROVE  boot.status = "error" /\ jobs' = {Sent(j) : j \in jobs}
      BY <3>1, <2>2 DEF Boot
    <3> QED BY <3>1, <2>1 DEF LoadsShared
  <2> QED BY <2>4, <2>7, <2>8, <2>9, <2>10 DEF LoadsShared
<1>6. CASE RefreshFails
  BY <1>6, <1>k, <1>u DEF RefreshFails, Leave, Idle, Boot
<1>8. ASSUME NEW j \in jobs, Serve(j)
      PROVE  LoadsShared'
  <2>1. PICK n : jobs' = (jobs \ {j}) \cup {n} /\ n.kind = j.kind
    <3>1. PICK ok \in BOOLEAN : jobs' =
            (jobs \ {j}) \cup {[j EXCEPT !.pc = "answered", !.ok = ok, !.got = server']}
      BY <1>8 DEF Serve
    <3>2. [j EXCEPT !.pc = "answered", !.ok = ok, !.got = server'].kind = j.kind
      BY <1>j DEF JobType
    <3> QED BY <3>1, <3>2
  <2>2. UNCHANGED <<cached, boot, updates>>
    BY <1>8 DEF Serve
  <2> QED BY <1>u, <2>1, <2>2 DEF LoadsShared
<1>9. ASSUME NEW j \in jobs, Primed(j)
      PROVE  LoadsShared'
  <2>1. /\ j.kind \in Keys /\ DOMAIN cached' = DOMAIN cached \cup {j.kind}
        /\ \A k \in jobs : k.kind \in Keys => k = j
    BY <1>9, OneKeyJob DEF Primed
  <2>2. boot.status # "error" /\ boot'.status = boot.status
    BY <1>9, <2>1 DEF Primed, LoadsShared, TypeOK, BootType
  <2>3. CASE j.kind = "route"
    <3>1. Run({j}, {})
      BY <1>9, <2>3 DEF Primed
    <3>2. \A k \in jobs' : k.kind \notin Keys
      BY <2>1, <3>1, RunNone
    <3>3. updates' <= 1
      BY <1>u, <3>1, RunNone
    <3> QED BY <2>2, <3>2, <3>3 DEF LoadsShared, Keys
  <2>4. CASE j.kind = "context"
    <3> DEFINE next == Loading(cached', jobs, boot.run)
    <3>1. Run({j}, next)
      BY <1>9, <2>4 DEF Primed
    <3>2. \A k \in next : /\ JobOK(k) /\ k = Job(StepWith(cached'), boot.run)
                          /\ k.kind \in Keys /\ k.kind \notin DOMAIN cached'
      BY <1>i, LoadingIsNext
    <3>3. "context" \in DOMAIN cached'
      BY <2>1, <2>4
    <3>4. UNCHANGED <<route, server>>
      BY <1>9 DEF Primed
    <3> HIDE DEF next
    <3>5. /\ updates' <= 1
          /\ \A k \in jobs' : k \in jobs \ {j} \/ \E i \in next : k = Asked(i)
      BY <1>u, <3>1, <3>2, <3>4, RunOK
    <3>6. \A k \in jobs' : k.kind \in Keys =>
             k = Asked(Job(StepWith(cached'), boot.run)) /\ k.kind = "route"
      BY <2>1, <3>2, <3>3, <3>5, AskedKeeps DEF JobOK, Keys
    <3> QED BY <1>n, <2>2, <3>3, <3>5, <3>6
  <2> QED BY <2>1, <2>3, <2>4 DEF Keys
<1>10. ASSUME NEW j \in jobs, NotPrimed(j)
       PROVE  LoadsShared'
  <2>1. j.kind \in Keys /\ \A k \in jobs : k.kind \in Keys => k = j
    BY <1>10, OneKeyJob DEF NotPrimed
  <2>2. jobs' = jobs \ {j} /\ updates' = updates /\ UNCHANGED cached
    BY <1>10, RunNone DEF NotPrimed
  <2> QED BY <1>u, <2>1, <2>2 DEF LoadsShared, Keys
<1>11. ASSUME NEW j \in jobs, Loaded(j) \/ Finish(j)
       PROVE  LoadsShared'
  <2>1. jobs' = jobs \ {j} /\ updates' = updates /\ UNCHANGED <<cached, boot>>
    BY <1>11, RunNone DEF Loaded, Finish
  <2> QED BY <1>k, <1>u, <2>1
<1>12. ASSUME NEW j \in jobs, GoOn(j)
       PROVE  LoadsShared'
  <2> DEFINE next == [j EXCEPT !.step = @ + 1, !.wrote = j.got]
  <2>1. next \in JobType /\ next.kind = j.kind
    BY <1>12, <1>j, NextJob DEF GoOn
  <2>2. Run({j}, {next}) /\ UNCHANGED <<cached, boot>> /\ j.kind \notin Keys
    BY <1>12 DEF GoOn, IsAct
  <2> HIDE DEF next
  <2>3. jobs' = (jobs \ {j}) \cup {Asked(next)} /\ updates' <= 1 /\ Asked(next).kind \notin Keys
    BY <1>u, <2>1, <2>2, RunOne, AskedKeeps
  <2> QED BY <1>k, <2>2, <2>3
<1>13. CASE RetryBoot
  <2> DEFINE next == Loading(<<>>, {}, boot.run + 1)
  <2>1. \A k \in jobs : k.kind \notin Keys
    BY <1>13 DEF RetryBoot, LoadsShared
  <2>2. /\ Run({}, next) /\ boot'.status # "error" /\ UNCHANGED <<route, server>>
        /\ cached' = <<>>
    BY <1>13 DEF RetryBoot, Boot
  <2>3. \A k \in next : JobOK(k) /\ k = Job("context", boot.run + 1) /\ k.kind = "context"
    <3>1. StepWith(<<>>) = "context"
      BY NoValues DEF StepWith
    <3> QED BY <1>i, <3>1, LoadingIsNext
  <2> HIDE DEF next
  <2>4. /\ updates' <= 1
        /\ \A k \in jobs' : k \in jobs \/ \E i \in next : k = Asked(i)
    BY <1>u, <2>2, <2>3, RunOK
  <2>5. \A k \in jobs' : k.kind \in Keys =>
          k = Asked(Job("context", boot.run + 1)) /\ k.kind = "context"
    BY <2>1, <2>3, <2>4, AskedKeeps DEF JobOK
  <2>6. "context" \notin DOMAIN cached'
    BY <2>2, NoValues
  <2> QED BY <1>n, <2>2, <2>4, <2>5, <2>6
<1>14. CASE BootReady
  <2>1. PICK asking : Run({}, asking) /\ asking \subseteq {Job("load", console.id + 1)}
    BY <1>14 DEF BootReady
  <2>2. \A k \in asking : JobOK(k) /\ k.kind = "load"
    BY <1>i, <2>1, NewJob
  <2>3. UNCHANGED <<route, server>> /\ boot'.status # "error"
        /\ DOMAIN cached' = DOMAIN cached \ {"route"}
    BY <1>14 DEF BootReady, Boot
  <2>4. updates' <= 1 /\ \A k \in jobs' : k \in jobs \/ \E i \in asking : k = Asked(i)
    BY <1>u, <2>1, <2>2, <2>3, RunOK
  <2>5. \A k \in jobs' : k.kind \in Keys => k \in jobs
    BY <2>2, <2>4, AskedKeeps DEF JobOK, Keys
  <2> QED BY <1>k, <2>3, <2>4, <2>5
<1>15. ASSUME RetryLoad \/ \E a \in Controls : Click(a)
       PROVE  LoadsShared'
  <2>1. PICK kind \in {"load"} \cup Controls : Run({}, {Job(kind, console.id)})
    BY <1>15 DEF RetryLoad, Click
  <2>2. JobOK(Job(kind, console.id)) /\ Job(kind, console.id).kind \notin Keys
    BY <1>i, <1>c, NewJob DEF Keys
  <2>3. /\ jobs' = jobs \cup {Asked(Job(kind, console.id))} /\ updates' <= 1
        /\ Asked(Job(kind, console.id)).kind \notin Keys
    BY <1>u, <2>1, <2>2, RunOne, AskedKeeps DEF JobOK
  <2>4. UNCHANGED <<cached, boot>>
    BY <1>15 DEF RetryLoad, Click
  <2> QED BY <1>k, <2>3, <2>4
<1>16. CASE UNCHANGED vars
  BY <1>16 DEF vars, LoadsShared
<1> QED BY <1>1, <1>2, <1>3, <1>5, <1>6, <1>8, <1>9, <1>10, <1>11, <1>12, <1>13, <1>14,
           <1>15, <1>16 DEF Next, Controls
-----------------------------------------------------------------------------
(* What the server is asked.                                               *)

LEMMA CallsOf ==
  ASSUME NEW j
  PROVE  /\ j.kind = "context" => Calls(j) = {"listViews"}
         /\ j.kind = "route" => Calls(j) = Warms(route, role)
         /\ j.kind = "load" => Calls(j) = Loads(route, role)
         /\ IsAct(j) /\ Writes(j) => Calls(j) = {Act(j).writes[j.step]}
         /\ IsAct(j) /\ ~Writes(j) =>
              Calls(j) = IF Act(j).reloads THEN Loads(route, role) ELSE Act(j).reads
BY DEF Calls, Writes, IsAct, Keys

(* A job sends nothing that the server refuses to a signed-in user.        *)
LEMMA CallsAccepted ==
  ASSUME TypeOK, BootSound, GatesPassed, role # NoRole, NEW j \in jobs
  PROVE  \A c \in Calls(j) : Accepts(role, c)
<1>1. role \in Roles /\ route \in ProductRoutes /\ CanAccess(route, role)
  BY PageOf DEF TypeOK, BootSound
<1>2. \A c \in Loads(route, role) : Accepts(role, c)
  BY <1>1, LoadsAccepted
<1>3. Accepts(role, "listViews") /\ Warms(route, role) = Loads(route, role)
  BY <1>1, ViewsAccepted, WarmsAreLoads
<1>4. ASSUME IsAct(j)
      PROVE  \A c \in Calls(j) : Accepts(role, c)
  <2>1. j.kind \in Controls /\ j.step \in 1 .. 3
    BY <1>4, JobsOK DEF IsAct, JobOK, JobType
  <2>2. Permitted(Act(j)) /\ HasRole(role, Act(j).gate)
    BY <1>4, <2>1, PageOf DEF Act, PageSound, Controls, GatesPassed
  <2>3. /\ \A i \in 1 .. Len(Act(j).writes) : Accepts(role, Act(j).writes[i])
        /\ \A c \in Act(j).reads : Accepts(role, c)
        /\ Len(Act(j).writes) \in 0 .. 2
    BY <1>1, <2>2 DEF Permitted
  <2>4. CASE Writes(j)
    <3>1. j.step \in 1 .. Len(Act(j).writes)
      <4> DEFINE n == Len(Act(j).writes)
      <4>1. n \in 0 .. 2 /\ j.step <= n
        BY <2>3, <2>4 DEF Writes
      <4> HIDE DEF n
      <4>2. j.step \in 1 .. n
        BY <2>1, <4>1
      <4> QED BY <4>2 DEF n
    <3> QED BY <1>4, <2>3, <2>4, <3>1, CallsOf
  <2>5. CASE ~Writes(j)
    BY <1>2, <1>4, <2>3, <2>5, CallsOf
  <2> QED BY <2>4, <2>5
<1>5. ASSUME ~IsAct(j)
      PROVE  \A c \in Calls(j) : Accepts(role, c)
  <2>1. j.kind = "context" \/ j.kind = "route" \/ j.kind = "load"
    BY <1>5 DEF IsAct, Keys
  <2> QED BY <1>2, <1>3, <2>1, CallsOf
<1> QED BY <1>4, <1>5

LEMMA GatesStep == TypeOK /\ BootSound /\ GatesPassed /\ [Next]_vars => GatesPassed'
<1> SUFFICES ASSUME TypeOK, BootSound, GatesPassed, [Next]_vars PROVE GatesPassed'
  OBVIOUS
<1>r. UNCHANGED route
  BY RouteStays
<1>j. \A j \in jobs : JobOK(j) /\ j \in JobType
  BY JobsOK DEF JobOK
<1>i. boot.run \in Nat /\ boot.run + 1 \in Nat /\ console.id \in Nat /\ console.id + 1 \in Nat
  BY DEF TypeOK, BootType, ConsoleType
(* Every job is one that ran already, or no control's.                     *)
<1>k. ASSUME UNCHANGED <<role, refused>>,
             \A j \in jobs' : j.kind \in Keys \cup {"load"} \/ \E i \in jobs : j.kind = i.kind
      PROVE  GatesPassed'
  <2>1. \A j, i : j.kind = i.kind => Act(j) = Act(i) /\ (IsAct(j) <=> IsAct(i))
    BY DEF Act, IsAct
  <2>2. \A j : IsAct(j) => j.kind \notin Keys \cup {"load"}
    BY DEF IsAct
  <2>3. \A j \in jobs' : IsAct(j) => HasRole(role, Act(j).gate)
    BY <1>k, <2>1, <2>2 DEF GatesPassed
  <2>4. \A j : (IsAct(j))' = IsAct(j) /\ (Act(j))' = Act(j)
    BY <1>r DEF IsAct, Act
  <2> QED BY <1>k, <2>3, <2>4 DEF GatesPassed
(* Jobs that are not of a control are started.                             *)
<1>w. ASSUME NEW ended, NEW asking, Run(ended, asking),
             \A j \in asking : JobOK(j) /\ j.kind \in Keys \cup {"load"},
             UNCHANGED <<server, role, refused>>
      PROVE  GatesPassed'
  <2>1. \A j \in jobs' : j \in jobs \/ \E i \in asking : j = Asked(i)
    BY <1>w, <1>r, RunOK
  <2>2. \A i \in asking : Asked(i).kind = i.kind
    BY <1>w, AskedKeeps DEF JobOK
  <2> QED BY <1>k, <1>w, <2>1, <2>2
<1>1. CASE PageLoad
  BY <1>1 DEF PageLoad, GatesPassed
<1>2. CASE SignedIn
  <2>1. jobs = {} /\ refused = FALSE /\ UNCHANGED refused
    BY <1>2 DEF SignedIn, BootSound, TypeOK
  <2>2. \A j \in jobs' : j.kind \in Keys \cup {"load"}
    BY <1>2, <2>1 DEF SignedIn, Job, Keys
  <2>3. \A j \in jobs' : ~(IsAct(j))'
    BY <2>2 DEF IsAct
  <2> QED BY <2>1, <2>3 DEF GatesPassed
<1>3. CASE NotSignedIn \/ Expire \/ Logout \/ RefreshFails
  <2>1. jobs' \subseteq jobs /\ UNCHANGED <<role, refused>>
    BY <1>3 DEF NotSignedIn, Expire, Logout, RefreshFails
  <2> QED BY <1>k, <2>1
<1>5. CASE Refreshed
  <2>1. \A j \in jobs : [j EXCEPT !.pc = "sent"].kind = j.kind
    BY <1>j DEF JobType
  <2>2. ASSUME NEW j \in jobs'
        PROVE  \/ j \in jobs \/ \E i \in jobs : j = [i EXCEPT !.pc = "sent"]
               \/ j = Job("load", console.id) \/ j \in Loading(cached, jobs, boot.run + 1)
    BY <1>5 DEF Refreshed
  <2>3. \A j \in Loading(cached, jobs, boot.run + 1) : j.kind \in Keys
    BY <1>i, LoadingIsNext
  <2>4. Job("load", console.id).kind = "load" /\ UNCHANGED <<role, refused>>
    BY <1>5 DEF Refreshed, Job
  <2> QED BY <1>k, <2>1, <2>2, <2>3, <2>4
<1>8. ASSUME NEW j \in jobs, Serve(j)
      PROVE  GatesPassed'
  <2>1. PICK ok \in BOOLEAN : jobs' =
          (jobs \ {j}) \cup {[j EXCEPT !.pc = "answered", !.ok = ok, !.got = server']}
    BY <1>8 DEF Serve
  <2>2. [j EXCEPT !.pc = "answered", !.ok = ok, !.got = server'].kind = j.kind
    BY <1>j DEF JobType
  <2>3. \A k \in jobs' : \E i \in jobs : k.kind = i.kind
    BY <2>1, <2>2
  <2>4. role = NoRole \/ refused' = refused
    BY <1>8, CallsAccepted DEF Serve, TypeOK
  <2>5. \A k, i : k.kind = i.kind => Act(k) = Act(i) /\ (IsAct(k) <=> IsAct(i))
    BY DEF Act, IsAct
  <2>6. \A k : (IsAct(k))' = IsAct(k) /\ (Act(k))' = Act(k)
    BY <1>r DEF IsAct, Act
  <2>7. role' = role
    BY <1>8 DEF Serve
  <2>8. \A k \in jobs' : IsAct(k) => HasRole(role, Act(k).gate)
    BY <2>3, <2>5 DEF GatesPassed
  <2> QED BY <2>4, <2>6, <2>7, <2>8 DEF GatesPassed
<1>9. ASSUME NEW j \in jobs, Primed(j)
      PROVE  GatesPassed'
  <2> DEFINE asking == IF j.kind = "context" THEN Loading(cached', jobs, boot.run) ELSE {}
  <2>1. Run({j}, asking) /\ UNCHANGED <<server, role, refused>>
    BY <1>9 DEF Primed
  <2>2. \A i \in asking : JobOK(i) /\ i.kind \in Keys \cup {"load"}
    BY <1>i, LoadingIsNext
  <2> HIDE DEF asking
  <2> QED BY <1>w, <2>1, <2>2
<1>10. ASSUME NEW j \in jobs, NotPrimed(j) \/ Loaded(j) \/ Finish(j)
       PROVE  GatesPassed'
  <2>1. jobs' \subseteq jobs /\ UNCHANGED <<role, refused>>
    BY <1>10, RunNone DEF NotPrimed, Loaded, Finish
  <2> QED BY <1>k, <2>1
<1>12. ASSUME NEW j \in jobs, GoOn(j)
       PROVE  GatesPassed'
  <2> DEFINE next == [j EXCEPT !.step = @ + 1, !.wrote = j.got]
  <2>1. next \in JobType /\ next.kind = j.kind
    BY <1>12, <1>j, NextJob DEF GoOn
  <2>2. Run({j}, {next}) /\ UNCHANGED <<role, refused>>
    BY <1>12 DEF GoOn
  <2> HIDE DEF next
  <2>3. jobs' = (jobs \ {j}) \cup {Asked(next)} /\ Asked(next).kind = j.kind
    BY <2>1, <2>2, RunOne, AskedKeeps
  <2> QED BY <1>k, <2>2, <2>3
<1>13. CASE RetryBoot
  <2>1. \A k \in Loading(<<>>, {}, boot.run + 1) : JobOK(k) /\ k.kind \in Keys
    BY <1>i, LoadingIsNext
  <2> QED BY <1>13, <1>w, <2>1 DEF RetryBoot
<1>14. CASE BootReady
  <2>1. PICK asking : Run({}, asking) /\ asking \subseteq {Job("load", console.id + 1)}
    BY <1>14 DEF BootReady
  <2>2. \A k \in asking : JobOK(k) /\ k.kind = "load"
    BY <1>i, <2>1, NewJob
  <2> QED BY <1>14, <1>w, <2>1, <2>2 DEF BootReady
<1>15. CASE RetryLoad
  <2>1. JobOK(Job("load", console.id)) /\ Job("load", console.id).kind = "load"
    BY <1>i, NewJob
  <2> QED BY <1>15, <1>w, <2>1 DEF RetryLoad
<1>16. ASSUME NEW a \in Controls, Click(a)
       PROVE  GatesPassed'
  <2>1. JobOK(Job(a, console.id)) /\ Job(a, console.id).kind = a
    BY <1>i, NewJob
  <2>2. /\ Run({}, {Job(a, console.id)}) /\ UNCHANGED <<role, refused>>
        /\ HasRole(role, ConsoleAt[route].acts[a].gate)
    BY <1>16 DEF Click, Offered
  <2>3. jobs' = jobs \cup {Asked(Job(a, console.id))} /\ Asked(Job(a, console.id)).kind = a
    BY <2>1, <2>2, RunOne, AskedKeeps DEF JobOK
  <2>4. \A k \in jobs' : IsAct(k) => HasRole(role, Act(k).gate)
    BY <2>2, <2>3 DEF GatesPassed, Act
  <2>5. \A k : (IsAct(k))' = IsAct(k) /\ (Act(k))' = Act(k)
    BY <1>r DEF IsAct, Act
  <2> QED BY <2>2, <2>4, <2>5 DEF GatesPassed
<1>17. CASE UNCHANGED vars
  BY <1>17, <1>k DEF vars
<1> QED BY <1>1, <1>2, <1>3, <1>5, <1>8, <1>9, <1>10, <1>12, <1>13, <1>14, <1>15, <1>16, <1>17
       DEF Next, Controls
-----------------------------------------------------------------------------
(* What a step does to what a console shows.                               *)

LEMMA WholeStep == TypeOK /\ BootSound /\ LoadedIsWhole /\ [Next]_vars => LoadedIsWhole'
<1> SUFFICES ASSUME TypeOK, BootSound, LoadedIsWhole, [Next]_vars PROVE LoadedIsWhole'
  OBVIOUS
<1>r. UNCHANGED route
  BY RouteStays
<1>c. console \in ConsoleType
  BY DEF TypeOK
(* The console is off the screen, or shows what it showed.                 *)
<1>n. ASSUME ~console'.shown
      PROVE  LoadedIsWhole'
  BY <1>n DEF LoadedIsWhole
<1>k. ASSUME UNCHANGED role, console'.shown = console.shown, console'.has = console.has,
             console'.state = "loaded" => console.state = "loaded"
      PROVE  LoadedIsWhole'
  BY <1>k, <1>r DEF LoadedIsWhole
<1>l. ASSUME UNCHANGED role, console'.has = Loads(route, role)
      PROVE  LoadedIsWhole'
  BY <1>l, <1>r DEF LoadedIsWhole
<1>1. CASE PageLoad
  BY <1>1, <1>n DEF PageLoad, NoConsole
<1>2. CASE SignedIn
  BY <1>2, <1>n DEF SignedIn, NoConsole, BootSound
<1>3. CASE RefreshFails \/ Logout
  BY <1>3, <1>n, <1>c DEF RefreshFails, Logout, Leave, ConsoleType
<1>4. CASE Refreshed
  <2>1. role' = role /\ (console' = console \/ console' = [console EXCEPT !.shown = FALSE])
    BY <1>4 DEF Refreshed
  <2> QED BY <1>n, <1>k, <1>c, <2>1 DEF ConsoleType
<1>5. CASE NotSignedIn \/ Expire \/ RetryBoot
  BY <1>5, <1>k DEF NotSignedIn, Expire, RetryBoot
<1>6. ASSUME NEW j \in jobs, Serve(j) \/ Primed(j) \/ NotPrimed(j)
      PROVE  LoadedIsWhole'
  BY <1>6, <1>k DEF Serve, Primed, NotPrimed
<1>7. ASSUME NEW j \in jobs, Loaded(j)
      PROVE  LoadedIsWhole'
  <2>1. /\ role' = role
        /\ \/ console' = console \/ console' = [console EXCEPT !.state = "error"]
           \/ console' = [console EXCEPT !.state = "loaded", !.has = Loads(route, role),
                                         !.seen = j.got]
    BY <1>7 DEF Loaded
  <2> QED BY <1>c, <1>k, <1>l, <2>1 DEF ConsoleType
<1>8. ASSUME NEW j \in jobs, GoOn(j)
      PROVE  LoadedIsWhole'
  <2>1. role' = role /\ (console' = console \/ console' = [console EXCEPT !.state = "loading"])
    BY <1>8 DEF GoOn
  <2> QED BY <1>c, <1>k, <2>1 DEF ConsoleType
<1>9. ASSUME NEW j \in jobs, Finish(j)
      PROVE  LoadedIsWhole'
  <2> DEFINE wrote == IF Writes(j) THEN j.got ELSE j.wrote
             freed == [console EXCEPT !.busy = @ \ {j.kind}]
             shown == [freed EXCEPT !.acked = IF wrote > @ THEN wrote ELSE @]
             Like(c) == DOMAIN c = DOMAIN console /\ c.shown = console.shown
                        /\ c.has = console.has /\ c.state = console.state
  <2>1. /\ role' = role
        /\ \/ console' = console \/ console' = freed \/ console' = [freed EXCEPT !.state = "error"]
           \/ console' = [shown EXCEPT !.state = "loaded", !.has = Loads(route, role),
                                       !.seen = j.got]
           \/ console' = [shown EXCEPT !.seen = IF wrote > @ THEN wrote ELSE @]
    BY <1>9 DEF Finish
  <2>2. Like(freed)
    BY <1>c DEF ConsoleType
  <2> HIDE DEF freed, wrote
  <2>3. Like(shown)
    BY <2>2
  <2> HIDE DEF shown
  <2>4. DOMAIN console =
          {"id", "shown", "state", "warm", "has", "seen", "acked", "busy"}
    BY <1>c DEF ConsoleType
  <2>5. /\ [freed EXCEPT !.state = "error"].state = "error"
        /\ [freed EXCEPT !.state = "error"].shown = console.shown
        /\ [freed EXCEPT !.state = "error"].has = console.has
        /\ [shown EXCEPT !.state = "loaded", !.has = Loads(route, role), !.seen = j.got].has
             = Loads(route, role)
        /\ Like([shown EXCEPT !.seen = IF wrote > @ THEN wrote ELSE @])
    BY <2>2, <2>3, <2>4
  <2> QED BY <1>k, <1>l, <2>1, <2>2, <2>5
<1>10. CASE BootReady
  <2> DEFINE warm == "route" \in DOMAIN cached
             seen == IF warm THEN cached["route"] ELSE 0
             own == Rereads(warm, seen)
  <2>1. /\ role' = role
        /\ console'.state = IF own THEN "loading" ELSE "loaded"
        /\ console'.has = IF warm THEN Warms(route, role) ELSE {}
    BY <1>10 DEF BootReady, NoConsole
  <2>2. Warms(route, role) = Loads(route, role)
    BY PageOf, WarmsAreLoads
  <2>3. ~own => warm \/ Loads(route, role) = {}
    BY DEF Rereads
  <2> HIDE DEF warm, seen, own
  <2>4. console'.state = "loaded" => Loads(route, role) \subseteq console'.has
    BY <2>1, <2>2, <2>3
  <2> QED BY <1>r, <2>1, <2>4 DEF LoadedIsWhole
<1>11. CASE RetryLoad
  <2>1. role' = role /\ console' = [console EXCEPT !.state = "loading"]
    BY <1>11 DEF RetryLoad
  <2> QED BY <1>c, <1>k, <2>1 DEF ConsoleType
<1>12. ASSUME NEW a \in Controls, Click(a)
       PROVE  LoadedIsWhole'
  <2>1. \E s \in {"loading", console.state} :
          console' = [console EXCEPT !.busy = console.busy \cup {a}, !.state = s]
    BY <1>12 DEF Click
  <2>2. role' = role /\ console'.shown = console.shown /\ console'.has = console.has
        /\ console'.state \in {"loading", console.state}
    BY <1>12, <1>c, <2>1 DEF Click, ConsoleType
  <2> QED BY <1>k, <2>2
<1>13. CASE UNCHANGED vars
  BY <1>13, <1>k DEF vars
<1> QED BY <1>1, <1>2, <1>3, <1>4, <1>5, <1>6, <1>7, <1>8, <1>9, <1>10, <1>11, <1>12, <1>13
       DEF Next, Controls
-----------------------------------------------------------------------------
(* What a step does to the jobs of the console.                            *)

(* OneAtATime, part by part.                                               *)
Older == \A j \in jobs : j.kind \notin Keys => j.owner <= console.id

SeesItsWrite == \A j \in jobs : j.pc = "answered" => j.wrote <= j.got

WritesNothing == route = "governance" => console.acked = 0 /\ \A j \in jobs : j.wrote = 0

(* What the console's own job says of the console.                         *)
Serves(j) ==
  /\ j.kind = "load" => console.state = "loading"
  /\ IsAct(j) => console.busy = {j.kind}
  /\ console.state # "error"
  /\ j.pc = "answered" => console.acked <= j.got

Alone == \A j \in jobs : Own(j) => Serves(j) /\ \A k \in jobs : Own(k) => k = j

Shown == console.shown /\ console.state = "loaded" => console.acked <= console.seen

LEMMA OneParts ==
  OneAtATime <=> Older /\ SeesItsWrite /\ WritesNothing /\ (Exclusive => Alone /\ Shown)
BY DEF OneAtATime, Older, SeesItsWrite, WritesNothing, Alone, Shown, Serves

(* A control of the governance page writes nothing.                        *)
LEMMA GovernanceReads ==
  ASSUME TypeOK, route = "governance", NEW j \in JobType
  PROVE  ~Writes(j)
<1>1. SUFFICES ASSUME Writes(j) PROVE FALSE
  OBVIOUS
<1>2. j.kind \in DOMAIN ConsoleAt["governance"].acts /\ j.step \in 1 .. 3
  BY <1>1 DEF Writes, IsAct, JobType, Controls
<1>3. Len(Act(j).writes) = 0
  BY <1>2, GovernanceSound DEF Act
<1> QED BY <1>1, <1>2, <1>3 DEF Writes

LEMMA OneStep ==
  TypeOK /\ BootSound /\ OneAtATime /\ [Next]_vars => OneAtATime'
<1> SUFFICES ASSUME TypeOK, BootSound, OneAtATime, [Next]_vars PROVE OneAtATime'
  OBVIOUS
<1> DEFINE Right(j) == /\ j.pc = "answered" => j.wrote <= j.got
                       /\ route = "governance" => j.wrote = 0
                       /\ j.kind \notin Keys => j.owner <= console'.id
<1>r. UNCHANGED route
  BY RouteStays
<1>p. Older /\ SeesItsWrite /\ WritesNothing /\ (Exclusive => Alone /\ Shown)
  BY OneParts
<1>j. \A j \in jobs : JobOK(j) /\ j \in JobType /\ j.owner \in Nat /\ j.wrote \in Nat /\ j.got \in Nat
  BY JobsOK DEF JobOK, JobType
<1>c. console \in ConsoleType /\ console.acked \in 0 .. server /\ console.seen \in 0 .. server
      /\ console.id \in Nat /\ console.acked \in Nat /\ console.seen \in Nat
  BY DEF TypeOK, ConsoleType
<1>i. boot.run \in Nat /\ boot.run + 1 \in Nat /\ console.id + 1 \in Nat /\ server \in Nat
  BY <1>c DEF TypeOK, BootType
<1>a. \A j : IsAct(j)' = IsAct(j) /\ Writes(j)' = Writes(j)
  BY <1>r DEF IsAct, Writes, Act
<1>e. Exclusive' = Exclusive
  BY <1>r DEF Exclusive, Controls
(* The parts again, after the step.                                        *)
<1>g. ASSUME \A j \in jobs' : Right(j), route = "governance" => console'.acked = 0,
             Exclusive => Alone' /\ Shown'
      PROVE  OneAtATime'
  <2>1. Older' /\ SeesItsWrite' /\ WritesNothing'
    BY <1>g, <1>r DEF Older, SeesItsWrite, WritesNothing
  <2> QED BY <1>g, <1>e, <2>1
       DEF OneAtATime, Older, SeesItsWrite, WritesNothing, Alone, Shown, Serves
<1>s. ASSUME NEW j \in jobs, console'.id >= console.id, console'.id \in Nat
      PROVE  Right(j)
  BY <1>s, <1>p, <1>j, <1>c DEF Older, SeesItsWrite, WritesNothing
(* A job that has just asked for a token, or has just been started.        *)
<1>n. ASSUME NEW j, JobOK(j), route = "governance" => j.wrote = 0,
             j.kind \notin Keys => j.owner <= console'.id
      PROVE  Right(Asked(j)) /\ Asked(j).pc # "answered"
  BY <1>n, AskedKeeps DEF JobOK
<1>m. ASSUME console'.id \in Nat
      PROVE  \A id \in Nat : /\ Right(Job("context", id))
                             /\ id <= console'.id => Right(Job("load", id))
  BY DEF Job, Keys
(* Without a console on the screen no job is the console's own.            *)
<1>o. ASSUME ~console'.shown
      PROVE  Alone' /\ Shown'
  BY <1>o DEF Alone, Shown, Own, OnScreen
<1> HIDE DEF Right
(* The console stays as it is, and no own job is added.                    *)
<1>k. ASSUME UNCHANGED console,
             \A j \in jobs' : j \in jobs \/ (Right(j) /\ ~Own(j))
      PROVE  OneAtATime'
  <2>1. \A j \in jobs' : Right(j)
    BY <1>k, <1>s, <1>c
  <2>2. route = "governance" => console'.acked = 0
    BY <1>k, <1>p DEF WritesNothing
  <2>3. ASSUME Exclusive PROVE Alone' /\ Shown'
    BY <2>3, <1>k, <1>p, <1>a DEF Alone, Shown, Serves, Own, OnScreen
  <2> QED BY <1>g, <2>1, <2>2, <2>3
(* The console leaves the screen.                                          *)
<1>h. ASSUME console' = [console EXCEPT !.shown = FALSE],
             \A j \in jobs' : j \in jobs \/ Right(j)
      PROVE  OneAtATime'
  <2>1. ~console'.shown /\ console'.id = console.id /\ console'.acked = console.acked
    BY <1>h, <1>c DEF ConsoleType
  <2>2. \A j \in jobs' : Right(j)
    BY <1>h, <1>s, <1>c, <2>1
  <2> QED BY <1>g, <1>o, <1>p, <2>1, <2>2 DEF WritesNothing
<1>1. CASE PageLoad
  BY <1>1, <1>g, <1>o DEF PageLoad, NoConsole
<1>2. CASE SignedIn
  <2>1. jobs = {} /\ ~console.shown
    BY <1>2 DEF SignedIn, BootSound
  <2>2. CASE CanAccess(route, role')
    <3>1. /\ console' = [NoConsole EXCEPT !.id = 1]
          /\ \A j \in jobs' : j = Job("context", 1) \/ j = Job("load", 1)
      BY <1>2, <2>2 DEF SignedIn
    <3>2. console'.id = 1 /\ ~console'.shown /\ console'.acked = 0
      BY <3>1 DEF NoConsole
    <3>3. \A j \in jobs' : Right(j)
      BY <1>m, <3>1, <3>2
    <3> QED BY <1>g, <1>o, <3>2, <3>3
  <2>3. CASE ~CanAccess(route, role')
    BY <1>2, <1>k, <2>3 DEF SignedIn
  <2> QED BY <2>2, <2>3
<1>3. CASE NotSignedIn \/ Expire
  BY <1>3, <1>k DEF NotSignedIn, Expire
<1>4. CASE RefreshFails \/ Logout
  <2>1. console' = [console EXCEPT !.shown = FALSE] /\ jobs' \subseteq jobs
    BY <1>4 DEF RefreshFails, Logout, Leave
  <2> QED BY <1>h, <2>1
<1>5. CASE Refreshed
  <2> DEFINE Sent(j) == IF j.pc = "wait" THEN [j EXCEPT !.pc = "sent"] ELSE j
  <2>1. \A j \in jobs : /\ Sent(j).kind = j.kind /\ Sent(j).owner = j.owner
                        /\ Sent(j).wrote = j.wrote /\ Sent(j).got = j.got
                        /\ Sent(j).pc = "answered" => j.pc = "answered"
    BY <1>j DEF JobType
  <2>2. \/ jobs' = {Sent(j) : j \in jobs} /\ console' = console
        \/ /\ console' = [console EXCEPT !.shown = FALSE]
           /\ \A j \in jobs' : \/ \E i \in jobs : j = Sent(i)
                               \/ j = Job("load", console.id)
                               \/ j \in Loading(cached, jobs, boot.run + 1)
    BY <1>5 DEF Refreshed
  <2>3. console'.id = console.id
    BY <1>c, <2>2 DEF ConsoleType
  <2> HIDE DEF Sent
  <2>4. \A i \in jobs : Right(Sent(i))
    <3> SUFFICES ASSUME NEW i \in jobs PROVE Right(Sent(i))
      OBVIOUS
    <3>1. Right(i)
      BY <1>s, <1>c, <2>3
    <3> QED BY <2>1, <3>1 DEF Right
  <2>5. \A j \in Loading(cached, jobs, boot.run + 1) : Right(j)
    <3>1. \A j \in Loading(cached, jobs, boot.run + 1) :
            j.kind \in Keys /\ \E kind : j = Job(kind, boot.run + 1)
      BY <1>i, LoadingIsNext
    <3> QED BY <3>1 DEF Right, Job
  <2>6. Right(Job("load", console.id))
    BY <1>m, <1>c, <2>3
  <2>7. CASE jobs' = {Sent(j) : j \in jobs} /\ console' = console
    <3>1. \A j \in jobs' : Right(j)
      BY <2>4, <2>7
    <3>2. ASSUME Exclusive PROVE Alone' /\ Shown'
      <4>1. \A i \in jobs : /\ Own(Sent(i)) <=> Own(i)
                            /\ Serves(i) => Serves(Sent(i))
        BY <2>1 DEF Own, OnScreen, Serves, IsAct
      <4>2. \A j \in jobs' : Own(j) => Serves(j) /\ \A k \in jobs' : Own(k) => k = j
        BY <1>p, <3>2, <2>7, <4>1 DEF Alone
      <4>3. \A j : Own(j)' = Own(j) /\ Serves(j)' = Serves(j)
        BY <2>7, <1>a DEF Own, OnScreen, Serves
      <4> QED BY <1>p, <3>2, <2>7, <4>2, <4>3 DEF Alone, Shown
    <3> QED BY <1>g, <1>p, <2>7, <3>1, <3>2 DEF WritesNothing
  <2>8. CASE /\ console' = [console EXCEPT !.shown = FALSE]
             /\ \A j \in jobs' : \/ \E i \in jobs : j = Sent(i)
                                 \/ j = Job("load", console.id)
                                 \/ j \in Loading(cached, jobs, boot.run + 1)
    BY <1>h, <2>4, <2>5, <2>6, <2>8
  <2> QED BY <2>2, <2>7, <2>8
<1>8. ASSUME NEW j \in jobs, Serve(j)
      PROVE  OneAtATime'
  <2>1. PICK ok \in BOOLEAN : jobs' =
          (jobs \ {j}) \cup {[j EXCEPT !.pc = "answered", !.ok = ok, !.got = server']}
    BY <1>8 DEF Serve
  <2> DEFINE n == [j EXCEPT !.pc = "answered", !.ok = ok, !.got = server']
  <2>2. /\ n.kind = j.kind /\ n.owner = j.owner /\ n.wrote = j.wrote
        /\ n.got = server' /\ n.pc = "answered"
    BY <1>j DEF JobType
  <2>3. jobs' = (jobs \ {j}) \cup {n}
    BY <2>1
  <2> HIDE DEF n
  <2>4. UNCHANGED console /\ server' \in Nat /\ server' >= server
    BY <1>8, <1>i DEF Serve
  <2>5. j.wrote <= server' /\ console.acked <= server'
    BY <1>c, <1>j, <1>i, <2>4 DEF JobOK
  <2>6. Right(n)
    <3>1. Right(j)
      BY <1>s, <1>c, <2>4
    <3> QED BY <2>2, <2>5, <3>1 DEF Right
  <2>7. \A k \in jobs' : Right(k)
    BY <1>s, <1>c, <2>3, <2>4, <2>6
  <2>8. ASSUME Exclusive PROVE Alone' /\ Shown'
    <3>1. (Own(n) <=> Own(j)) /\ (Serves(j) => Serves(n))
      BY <2>2, <2>5 DEF Own, OnScreen, Serves, IsAct
    <3>2. \A k \in jobs' : Own(k) => Serves(k) /\ \A l \in jobs' : Own(l) => l = k
      BY <1>p, <2>3, <2>8, <3>1 DEF Alone
    <3>3. \A k : Own(k)' = Own(k) /\ Serves(k)' = Serves(k)
      BY <2>4, <1>a DEF Own, OnScreen, Serves
    <3> QED BY <1>p, <2>4, <2>8, <3>2, <3>3 DEF Alone, Shown
  <2> QED BY <1>g, <1>p, <2>4, <2>7, <2>8 DEF WritesNothing
<1>9. ASSUME NEW j \in jobs, Primed(j)
      PROVE  OneAtATime'
  <2> DEFINE asking == IF j.kind = "context" THEN Loading(cached', jobs, boot.run) ELSE {}
  <2>1. Run({j}, asking) /\ UNCHANGED <<route, server, console>>
    BY <1>9 DEF Primed
  <2>2. \A i \in asking : JobOK(i) /\ i.kind \in Keys /\ \E kind : i = Job(kind, boot.run)
    BY <1>i, LoadingIsNext
  <2> HIDE DEF asking
  <2>3. \A k \in jobs' : k \in jobs \/ \E i \in asking : k = Asked(i)
    BY <2>1, <2>2, RunOK
  <2>4. \A i \in asking : Right(Asked(i)) /\ ~Own(Asked(i))
    <3> SUFFICES ASSUME NEW i \in asking PROVE Right(Asked(i)) /\ ~Own(Asked(i))
      OBVIOUS
    <3>1. JobOK(i) /\ i.kind \in Keys /\ i.wrote = 0
      BY <2>2 DEF Job
    <3>2. Asked(i).kind = i.kind
      BY <3>1, AskedKeeps DEF JobOK
    <3> QED BY <1>n, <3>1, <3>2 DEF Own
  <2> QED BY <1>k, <2>1, <2>3, <2>4
<1>10. ASSUME NEW j \in jobs, NotPrimed(j) \/ ((Loaded(j) \/ Finish(j)) /\ ~OnScreen(j))
       PROVE  OneAtATime'
  <2>1. jobs' \subseteq jobs /\ UNCHANGED console
    BY <1>10, RunNone DEF NotPrimed, Loaded, Finish
  <2> QED BY <1>k, <2>1
(* The own job of the console ends.                                        *)
<1>11. ASSUME NEW j \in jobs, Loaded(j) \/ Finish(j), OnScreen(j)
       PROVE  OneAtATime'
  <2> DEFINE wrote == IF Writes(j) THEN j.got ELSE j.wrote
             freed == [console EXCEPT !.busy = @ \ {j.kind}]
             shown == [freed EXCEPT !.acked = IF wrote > @ THEN wrote ELSE @]
  <2>1. jobs' = jobs \ {j} /\ j.pc = "answered" /\ j.kind \notin Keys
    <3>1. Run({j}, {}) /\ j.pc = "answered" /\ j.kind \notin Keys
      BY <1>11 DEF Loaded, Finish, IsAct, Keys
    <3> QED BY <3>1, RunNone
  <2>2. \/ console' = [console EXCEPT !.state = "error"]
        \/ Loaded(j) /\ console' = [console EXCEPT !.state = "loaded", !.has = Loads(route, role),
                                                   !.seen = j.got]
        \/ console' = freed \/ console' = [freed EXCEPT !.state = "error"]
        \/ Finish(j) /\ console' = [shown EXCEPT !.state = "loaded", !.has = Loads(route, role),
                                    !.seen = j.got]
        \/ Finish(j) /\ console' = [shown EXCEPT !.seen = IF wrote > @ THEN wrote ELSE @]
    BY <1>11 DEF Loaded, Finish
  <2>3. wrote \in Nat /\ wrote <= j.got /\ (route = "governance" => wrote = 0)
    BY <1>j, <1>p, <2>1, GovernanceReads DEF SeesItsWrite, WritesNothing
  <2>4. /\ freed.id = console.id /\ freed.acked = console.acked /\ freed.seen = console.seen
        /\ freed.state = console.state
        /\ DOMAIN freed = {"id", "shown", "state", "warm", "has", "seen", "acked", "busy"}
    BY <1>c DEF ConsoleType
  <2> HIDE DEF wrote, freed
  <2> DEFINE acked == IF wrote > console.acked THEN wrote ELSE console.acked
  <2>5. /\ shown.id = console.id /\ shown.acked = acked /\ shown.seen = console.seen
        /\ shown.state = console.state
        /\ DOMAIN shown = {"id", "shown", "state", "warm", "has", "seen", "acked", "busy"}
    BY <2>4
  <2> HIDE DEF shown
  <2>6. \/ console'.id = console.id /\ console'.acked = console.acked /\ console'.state = "error"
        \/ /\ console'.id = console.id /\ console'.acked = console.acked
           /\ console'.state = "loaded" /\ console'.seen = j.got
        \/ /\ console'.id = console.id /\ console'.acked = console.acked
           /\ console'.state = console.state /\ console'.seen = console.seen
        \/ /\ console'.id = console.id /\ console'.acked = acked
           /\ console'.state = "loaded" /\ console'.seen = j.got
        \/ /\ console'.id = console.id /\ console'.acked = acked
           /\ console'.state = console.state
           /\ console'.seen = IF wrote > console.seen THEN wrote ELSE console.seen
    <3>1. CASE console' = [console EXCEPT !.state = "error"]
      BY <1>c, <3>1 DEF ConsoleType
    <3>2. CASE console' = [console EXCEPT !.state = "loaded", !.has = Loads(route, role),
                                          !.seen = j.got]
      BY <1>c, <3>2 DEF ConsoleType
    <3>3. CASE console' = freed \/ console' = [freed EXCEPT !.state = "error"]
      BY <2>4, <3>3
    <3>4. CASE \/ console' = [shown EXCEPT !.state = "loaded", !.has = Loads(route, role),
                                           !.seen = j.got]
               \/ console' = [shown EXCEPT !.seen = IF wrote > @ THEN wrote ELSE @]
      BY <2>5, <3>4
    <3> QED BY <2>2, <3>1, <3>2, <3>3, <3>4
  <2>7. \A k \in jobs' : Right(k)
    BY <1>s, <1>c, <2>1, <2>6
  <2>8. route = "governance" => console'.acked = 0
    BY <1>p, <1>c, <2>3, <2>6 DEF WritesNothing
  <2>9. ASSUME Exclusive PROVE Alone' /\ Shown'
    <3>1. Own(j) /\ Alone /\ Shown
      BY <1>11, <1>p, <2>1, <2>9 DEF Own
    <3>2. console.acked <= j.got /\ \A k \in jobs' : ~Own(k)
      BY <2>1, <3>1 DEF Alone, Serves
    <3>3. \A k \in jobs' : ~Own(k)'
      <4>1. console.shown /\ console'.id = console.id
        BY <1>11, <2>6 DEF OnScreen
      <4> QED BY <3>2, <4>1 DEF Own, OnScreen
    <3>4. console.shown
      BY <1>11 DEF OnScreen
    <3>5. Shown'
      BY <1>c, <1>j, <2>3, <2>6, <3>1, <3>2, <3>4 DEF Shown
    <3> QED BY <3>3, <3>5 DEF Alone
  <2> QED BY <1>g, <2>7, <2>8, <2>9
<1>12. ASSUME NEW j \in jobs, GoOn(j)
       PROVE  OneAtATime'
  <2> DEFINE next == [j EXCEPT !.step = @ + 1, !.wrote = j.got]
  <2>0. PICK n : n = Asked(next)
    OBVIOUS
  <2>1. /\ next \in JobType /\ next.kind = j.kind /\ next.owner = j.owner
        /\ next.wrote = j.got /\ next.got = j.got
    BY <1>12, <1>j, NextJob DEF GoOn
  <2>2. /\ Run({j}, {next}) /\ UNCHANGED <<server>> /\ j.kind \notin Keys /\ Writes(j)
        /\ console' \in {console, [console EXCEPT !.state = "loading"]}
        /\ ~OnScreen(j) => console' = console
    BY <1>12 DEF GoOn, IsAct
  <2>3. /\ console'.id = console.id /\ console'.acked = console.acked
        /\ console'.shown = console.shown /\ console'.busy = console.busy
        /\ console'.seen = console.seen
        /\ console'.state \in {console.state, "loading"}
    BY <1>c, <2>2 DEF ConsoleType
  <2> HIDE DEF next
  <2>4. jobs' = (jobs \ {j}) \cup {n} /\ n.kind = j.kind /\ n.owner = j.owner
    BY <2>0, <2>1, <2>2, RunOne, AskedKeeps
  <2>5. Right(n) /\ n.pc # "answered"
    <3>1. JobOK(next)
      BY <1>j, <2>1 DEF JobOK
    <3>2. route # "governance"
      BY <2>2, <1>j, GovernanceReads
    <3>3. j.owner <= console'.id
      BY <1>p, <2>2, <2>3 DEF Older
    <3> QED BY <1>n, <2>0, <2>1, <3>1, <3>2, <3>3
  <2>6. \A k \in jobs' : Right(k)
    BY <1>s, <1>c, <2>3, <2>4, <2>5
  <2>7. ASSUME Exclusive PROVE Alone' /\ Shown'
    <3>1. /\ Own(n) <=> Own(j)
          /\ \A k : Own(k)' = Own(k)
          /\ IsAct(n) <=> IsAct(j)
      BY <2>3, <2>4 DEF Own, OnScreen, IsAct
    <3>2. CASE ~Own(j)
      <4>1. console' = console
        BY <2>2, <3>2 DEF Own
      <4>2. \A k \in jobs' : k \in jobs \/ (Right(k) /\ ~Own(k))
        BY <2>4, <2>5, <3>1, <3>2
      <4> QED BY <1>p, <1>a, <2>7, <4>1, <4>2 DEF Alone, Shown, Serves, Own, OnScreen
    <3>3. CASE Own(j)
      <4>1. Serves(j) /\ \A k \in jobs : Own(k) => k = j
        BY <1>p, <2>7, <3>3 DEF Alone
      <4>2. \A k \in jobs' : Own(k)' => k = n
        BY <2>4, <3>1, <4>1
      <4>3. Serves(n)'
        <5>1. n.kind # "load"
          BY <1>12, <2>4 DEF GoOn, IsAct
        <5>2. console'.busy = {n.kind} /\ console'.state # "error"
          BY <1>12, <2>3, <2>4, <4>1 DEF GoOn, Serves
        <5> QED BY <2>5, <5>1, <5>2 DEF Serves
      <4>4. Shown'
        BY <1>p, <2>3, <2>7 DEF Shown
      <4> QED BY <4>2, <4>3, <4>4 DEF Alone
    <3> QED BY <3>2, <3>3
  <2> QED BY <1>g, <1>p, <2>3, <2>6, <2>7 DEF WritesNothing
<1>13. CASE RetryBoot
  <2> DEFINE next == Loading(<<>>, {}, boot.run + 1)
  <2>1. Run({}, next) /\ UNCHANGED <<route, server, console>>
    BY <1>13 DEF RetryBoot
  <2>2. \A i \in next : JobOK(i) /\ i.kind \in Keys /\ \E kind : i = Job(kind, boot.run + 1)
    BY <1>i, LoadingIsNext
  <2> HIDE DEF next
  <2>3. \A k \in jobs' : k \in jobs \/ \E i \in next : k = Asked(i)
    BY <2>1, <2>2, RunOK
  <2>4. \A i \in next : Right(Asked(i)) /\ ~Own(Asked(i))
    <3> SUFFICES ASSUME NEW i \in next PROVE Right(Asked(i)) /\ ~Own(Asked(i))
      OBVIOUS
    <3>1. JobOK(i) /\ i.kind \in Keys /\ i.wrote = 0
      BY <2>2 DEF Job
    <3>2. Asked(i).kind = i.kind
      BY <3>1, AskedKeeps DEF JobOK
    <3> QED BY <1>n, <3>1, <3>2 DEF Own
  <2> QED BY <1>k, <2>1, <2>3, <2>4
<1>14. CASE BootReady
  <2> DEFINE warm == "route" \in DOMAIN cached
             seen == IF warm THEN cached["route"] ELSE 0
             own == Rereads(warm, seen)
             id == console.id + 1
  <2>1. /\ console'.id = id /\ console'.acked = 0 /\ console'.busy = {} /\ console'.shown
        /\ console'.state = IF own THEN "loading" ELSE "loaded"
        /\ console'.seen = seen
    BY <1>14 DEF BootReady, NoConsole
  <2>2. Run({}, IF own THEN {Job("load", id)} ELSE {}) /\ UNCHANGED <<route, server>>
    BY <1>14 DEF BootReady
  <2>3. seen >= 0
    BY DEF TypeOK
  <2> HIDE DEF warm, seen, own
  <2>0. PICK n : n = Asked(Job("load", id))
    OBVIOUS
  <2>4. /\ ~own => jobs' = jobs
        /\ own => jobs' = jobs \cup {n}
    BY <2>2, <2>0, RunNone, RunMore
  <2>5. /\ JobOK(Job("load", id)) /\ Job("load", id).kind = "load"
        /\ Job("load", id).owner = id /\ Job("load", id).wrote = 0
    BY <1>i, NewJob
  <2>6. /\ n.kind = "load" /\ n.owner = id
        /\ n.pc # "answered" /\ Right(n)
    <3>1. id <= console'.id
      BY <1>c, <2>1
    <3> QED BY <1>n, <2>0, <2>5, <3>1, AskedKeeps DEF JobOK
  <2>7. \A k \in jobs' : Right(k)
    BY <1>s, <1>c, <2>1, <2>4, <2>6
  <2>8. \A k \in jobs : ~Own(k)'
    BY <1>p, <1>c, <1>j, <2>1 DEF Older, Own, OnScreen
  <2>9. Alone' /\ Shown'
    <3>1. \A k \in jobs' : Own(k)' => own /\ k = n
      BY <2>4, <2>8
    <3>2. own => Serves(n)'
      BY <2>1, <2>6 DEF Serves, IsAct
    <3>3. Shown'
      BY <2>1, <2>3 DEF Shown
    <3> QED BY <3>1, <3>2, <3>3 DEF Alone
  <2> QED BY <1>g, <2>1, <2>7, <2>9
<1>15. CASE RetryLoad
  <2>0. PICK n : n = Asked(Job("load", console.id))
    OBVIOUS
  <2>1. /\ Run({}, {Job("load", console.id)}) /\ console.state = "error"
        /\ console' = [console EXCEPT !.state = "loading"]
    BY <1>15 DEF RetryLoad
  <2>2. /\ console'.id = console.id /\ console'.acked = console.acked
        /\ console'.shown = console.shown /\ console'.state = "loading"
    BY <1>c, <2>1 DEF ConsoleType
  <2>3. jobs' = jobs \cup {n}
    BY <2>0, <2>1, RunMore
  <2>4. /\ JobOK(Job("load", console.id)) /\ Job("load", console.id).kind = "load"
        /\ Job("load", console.id).owner = console.id /\ Job("load", console.id).wrote = 0
    BY <1>c, NewJob
  <2>5. n.kind = "load" /\ n.pc # "answered" /\ Right(n)
    <3>1. console.id <= console'.id
      BY <1>c, <2>2
    <3> QED BY <1>n, <2>0, <2>4, <3>1, AskedKeeps DEF JobOK
  <2>6. \A k \in jobs' : Right(k)
    BY <1>s, <1>c, <2>2, <2>3, <2>5
  <2>7. ASSUME Exclusive PROVE Alone' /\ Shown'
    <3>1. \A k \in jobs : ~Own(k)
      BY <1>p, <2>1, <2>7 DEF Alone, Serves
    <3>2. \A k \in jobs' : Own(k)' => k = n
      BY <2>2, <2>3, <3>1 DEF Own, OnScreen
    <3>3. Serves(n)'
      BY <2>2, <2>5 DEF Serves, IsAct
    <3>4. Shown'
      BY <2>2 DEF Shown
    <3> QED BY <3>2, <3>3, <3>4 DEF Alone
  <2> QED BY <1>g, <1>p, <2>2, <2>6, <2>7 DEF WritesNothing
<1>16. ASSUME NEW a \in Controls, Click(a)
       PROVE  OneAtATime'
  <2>0. PICK n : n = Asked(Job(a, console.id))
    OBVIOUS
  <2>1. /\ Run({}, {Job(a, console.id)})
        /\ \E s \in {"loading", console.state} :
             console' = [console EXCEPT !.busy = console.busy \cup {a}, !.state = s]
    BY <1>16 DEF Click
  <2>2. /\ console'.id = console.id /\ console'.acked = console.acked
        /\ console'.shown = console.shown /\ console'.seen = console.seen
        /\ console'.busy = console.busy \cup {a}
        /\ console'.state \in {"loading", console.state}
    BY <1>c, <2>1 DEF ConsoleType
  <2>3. jobs' = jobs \cup {n}
    BY <2>0, <2>1, RunMore
  <2>4. /\ JobOK(Job(a, console.id)) /\ Job(a, console.id).kind = a
        /\ Job(a, console.id).owner = console.id /\ Job(a, console.id).wrote = 0
    BY <1>c, NewJob
  <2>5. n.kind = a /\ n.pc # "answered" /\ Right(n)
    <3>1. console.id <= console'.id
      BY <1>c, <2>2
    <3> QED BY <1>n, <2>0, <2>4, <3>1, AskedKeeps DEF JobOK
  <2>6. \A k \in jobs' : Right(k)
    BY <1>s, <1>c, <2>2, <2>3, <2>5
  <2>7. ASSUME Exclusive PROVE Alone' /\ Shown'
    <3>1. console.busy = {} /\ console.state = "loaded" /\ a # "load"
      BY <1>16, <2>7, PageOf DEF Click, Offered, Exclusive, Controls
    <3>2. \A k \in jobs : ~Own(k)
      <4>1. \A k : Own(k) => k.kind = "load" \/ IsAct(k)
        BY DEF Own, IsAct
      <4> QED BY <1>p, <2>7, <3>1, <4>1 DEF Alone, Serves
    <3>3. \A k \in jobs' : Own(k)' => k = n
      BY <2>2, <2>3, <3>2 DEF Own, OnScreen
    <3>4. Serves(n)'
      BY <2>2, <2>5, <3>1 DEF Serves, IsAct
    <3>5. Shown'
      BY <1>p, <2>2, <2>7, <3>1 DEF Shown
    <3> QED BY <3>3, <3>4, <3>5 DEF Alone
  <2> QED BY <1>g, <1>p, <2>2, <2>6, <2>7 DEF WritesNothing
<1>17. CASE UNCHANGED vars
  BY <1>17, <1>k DEF vars
<1> QED BY <1>1, <1>2, <1>3, <1>4, <1>5, <1>8, <1>9, <1>10, <1>11, <1>12, <1>13, <1>14,
           <1>15, <1>16, <1>17 DEF Next, Controls
-----------------------------------------------------------------------------
(* The theorems.                                                           *)

LEMMA InvInit == Init => Inv
<1> SUFFICES ASSUME Init PROVE Inv
  OBVIOUS
<1>1. TypeOK
  BY InitTyped
<1>2. /\ jobs = {} /\ DOMAIN cached = {} /\ boot.status = "idle" /\ updates = 0 /\ ~refused
      /\ ~console.shown /\ console.acked = 0 /\ console.seen = 0
  BY NoValues DEF Init, Idle, Boot, NoConsole
<1>3. BootSound /\ LoadsShared /\ GatesPassed /\ LoadedIsWhole
  BY <1>2 DEF BootSound, LoadsShared, GatesPassed, LoadedIsWhole
<1>4. OneAtATime
  BY <1>2 DEF OneAtATime
<1> QED BY <1>1, <1>3, <1>4 DEF Inv

(* The invariant holds in every state of every tab: a tab of any page, for *)
(* a user of any role, however often the token expires, the user acts and  *)
(* the page is loaded again.                                               *)
THEOREM Invariance == Spec => []Inv
<1>1. Inv /\ [Next]_vars => Inv'
  BY TypeStep, BootStep, SharedStep, GatesStep, WholeStep, OneStep DEF Inv
<1> QED BY InvInit, <1>1, PTL DEF Spec

(* Every variable keeps its type, and what a job saw or a console shows is *)
(* never ahead of the server.                                              *)
THEOREM TypeCorrect == Spec => []TypeOK
<1>1. Inv => TypeOK
  BY DEF Inv
<1> QED BY Invariance, <1>1, PTL

(* However many callers find the token stale there is one updateToken call,*)
(* and however often a refresh restarts the boot there is one load per     *)
(* bootstrap key; the boot's error page never shows while one is on its    *)
(* way, so retry has none to forget.                                       *)
THEOREM WorkIsShared == Spec => []SharedOnce
<1>1. ASSUME Inv, NEW k \in Keys
      PROVE  Cardinality({j \in jobs : j.kind = k}) <= 1
  <2> DEFINE loads == {j \in jobs : j.kind = k}
  <2>1. CASE loads = {}
    <3>1. Cardinality({}) = 0
      BY FS_EmptySet
    <3> QED BY <2>1, <3>1
  <2>2. CASE loads # {}
    <3>1. PICK j : j \in loads
      BY <2>2
    <3>2. loads = {j}
      BY <1>1, <3>1 DEF Inv, LoadsShared
    <3>3. Cardinality({j}) = 1
      BY FS_Singleton
    <3> QED BY <3>2, <3>3
  <2> QED BY <2>1, <2>2
<1>2. Inv => SharedOnce
  BY <1>1 DEF Inv, SharedOnce, LoadsShared
<1> QED BY Invariance, <1>2, PTL

(* No gate of a control, no admin-only page and no load of the boot lets a *)
(* signed-in user send a call that the server's guards turn away, and      *)
(* every call that needs an Idempotency-Key carries one.                   *)
THEOREM GatesAgree == Spec => []NothingRefused
<1>1. Inv => NothingRefused
  BY DEF Inv, GatesPassed, NothingRefused
<1> QED BY Invariance, <1>1, PTL

(* A console that shows its page has everything its own load would have    *)
(* read, also when it took the value that the boot had read for it.        *)
THEOREM PagesAreWhole == Spec => []LoadedIsWhole
<1>1. Inv => LoadedIsWhole
  BY DEF Inv
<1> QED BY Invariance, <1>1, PTL

(* On a page whose controls exclude each other a control runs alone, so    *)
(* the load that ends it sees its write; the governance page writes        *)
(* nothing. Once no handler runs, the page shows the last write it was     *)
(* told had succeeded.                                                     *)
THEOREM WritesAreShown == Spec => []ReloadShowsWrite
<1>1. ASSUME Inv, console.shown, console.state = "loaded",
             \A a \in Controls : ~ConsoleAt[route].acts[a].overlaps
      PROVE  console.acked <= console.seen
  <2>1. CASE route = "governance"
    <3>1. console.acked = 0 /\ console.seen \in Nat
      BY <1>1, <2>1 DEF Inv, OneAtATime, TypeOK, ConsoleType
    <3> QED BY <3>1
  <2>2. CASE route # "governance"
    BY <1>1, <2>2 DEF Inv, OneAtATime, Exclusive
  <2> QED BY <2>1, <2>2
<1>2. Inv => ReloadShowsWrite
  BY <1>1 DEF ReloadShowsWrite, Controls
<1> QED BY Invariance, <1>2, PTL
=============================================================================
