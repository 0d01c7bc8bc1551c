------------------------------ MODULE Session ------------------------------
(***************************************************************************)
(* One browser tab: the Keycloak session of AuthProvider, the workspace    *)
(* boot of App, the bootstrap cache and the console of the route, all of   *)
(* them calling the API through a client that asks for the access token    *)
(* first.                                                                  *)
(*                                                                         *)
(* A job is a piece of asynchronous code between two awaits: it waits for  *)
(* a token refresh, its request is on its way to the server, or the answer *)
(* is on its way back.  A refresh gives the client a new identity, which   *)
(* restarts the boot and takes the console off the screen: the jobs it     *)
(* started go on, and what they set afterwards is set on nothing.          *)
(*                                                                         *)
(* The server's data is the number of writes it has applied; a read sees   *)
(* that number.  Navigation inside the product loads a page, so a page     *)
(* keeps its route.                                                        *)
(***************************************************************************)
EXTENDS Consoles, FiniteSets

CONSTANTS
  Routes,        \* the routes a page is opened at
  MaxExpiries,   \* bound: times the access token comes within the refresh skew
  MaxInputs      \* bound: controls used, error pages retried, pages loaded again

ASSUME RoutesAssumption == Routes \subseteq ProductRoutes
ASSUME BoundsAssumption == {MaxExpiries, MaxInputs} \subseteq Nat

VARIABLES
  route,     \* the route of the tab
  status,    \* AuthProvider's status
  role,      \* the role in the token's claims
  stale,     \* the token expires within the refresh skew
  updates,   \* updateToken calls without an answer
  boot,      \* the workspace boot: status, awaited promise, number of the run
  cached,    \* the resolved bootstrap values, by key
  console,   \* the console last mounted and what it shows
  jobs,      \* the asynchronous code that is running
  server,    \* writes the server has applied
  refused,   \* the server refused a call of this page for its role or key
  lost,      \* a write's handler ended with its console gone
  used       \* the bounds used up

vars == <<route, status, role, stale, updates, boot, cached, console, jobs,
          server, refused, lost, used>>

Keys == {"context", "route"}

Boot(state, step, run) == [status |-> state, step |-> step, run |-> run]
Idle == Boot("idle", "none", 0)
Awaits(step) == boot.status = "loading" /\ boot.step = step

NoConsole ==
  [id |-> 0, shown |-> FALSE, state |-> "loading", warm |-> FALSE, has |-> {},
   seen |-> 0, acked |-> 0, busy |-> {}]

Job(kind, owner) ==
  [kind |-> kind, owner |-> owner, step |-> 1, pc |-> "sent", got |-> 0,
   wrote |-> 0, ok |-> TRUE]

Act(j) == ConsoleAt[route].acts[j.kind]
IsAct(j) == j.kind \notin Keys \cup {"load"}
Writes(j) == IsAct(j) /\ j.step <= Len(Act(j).writes)

(* The calls of the job's request.                                         *)
Calls(j) ==
  CASE j.kind = "context" -> {"listViews"}
    [] j.kind = "route"   -> Warms(route, role)
    [] j.kind = "load"    -> Loads(route, role)
    [] Writes(j)          -> {Act(j).writes[j.step]}
    [] OTHER -> IF Act(j).reloads THEN Loads(route, role) ELSE Act(j).reads

OnScreen(j) == console.shown /\ console.id = j.owner

-----------------------------------------------------------------------------
(* authHeaders and getAccessToken: a job asks for the token before its     *)
(* request; while the token is stale it waits for the one refresh all      *)
(* callers share, which the first of them starts.                          *)
Waits(j) == stale /\ Calls(j) # {}

Asked(j) == [j EXCEPT !.pc = IF Waits(j) THEN "wait" ELSE "sent"]

(* Mutant: the callers await a refresh that none of them starts.           *)
UpdatesOfOthers(asking) == updates

UpdatesAfter(asking) ==
  IF updates = 0 /\ \E j \in asking : Waits(j) THEN 1 ELSE updates

(* The jobs "ended" stop and "asking" ask for a token.                     *)
Run(ended, asking) ==
  /\ jobs' = (jobs \ ended) \cup {Asked(j) : j \in asking}
  /\ updates' = UpdatesAfter(asking)

(* primeBootstrapValue: a value that is there or on its way is not loaded  *)
(* again.                                                                  *)
(* Mutant: the loads under way are not looked up.                          *)
PrimeAgain(key, values, running, run) ==
  IF key \in DOMAIN values THEN {} ELSE {Job(key, run)}

Prime(key, values, running, run) ==
  IF key \in DOMAIN values \/ \E j \in running : j.kind = key
    THEN {} ELSE {Job(key, run)}

(* The promise a run of the boot comes to with these values resolved.      *)
StepWith(values) ==
  IF "context" \notin DOMAIN values THEN "context"
  ELSE IF HasBootstrapKey(route) /\ "route" \notin DOMAIN values THEN "route"
  ELSE "finishing"

(* A run of the boot goes on to that promise.                              *)
Loading(values, running, run) ==
  IF StepWith(values) \in Keys THEN Prime(StepWith(values), values, running, run) ELSE {}

(* A console without a bootstrapped value loads by itself; the insights    *)
(* console does so in any case, and the ingestion console when the list it *)
(* was given is empty, which it is before the first ingestion.             *)
Rereads(warm, seen) ==
  /\ Loads(route, role) # {}
  /\ ~warm \/ route = "insights" \/ (route = "costs" /\ seen = 0)

-----------------------------------------------------------------------------
(* The user does something.                                                *)
Input ==
  /\ used.inputs < MaxInputs
  /\ used' = [used EXCEPT !.inputs = @ + 1]

(* A page is loaded: the tab starts over, and a write on its way may or    *)
(* may not still reach the server.                                         *)
PageLoad ==
  /\ Input
  /\ status' = "loading" /\ role' = NoRole /\ stale' = FALSE /\ updates' = 0
  /\ boot' = Idle /\ cached' = <<>> /\ console' = NoConsole /\ jobs' = {}
  /\ \/ UNCHANGED server
     \/ /\ \E j \in jobs : j.pc = "sent" /\ Writes(j)
        /\ server' = server + 1
  /\ refused' = FALSE /\ lost' = FALSE
  /\ UNCHANGED route

(* initialize ends with a session.  The render that follows still finds    *)
(* the boot idle, so it mounts the console, whose effect starts a load;    *)
(* then the boot's effect runs and takes the console off the screen.       *)
SignedIn ==
  /\ status = "loading"
  /\ status' = "authenticated"
  /\ role' \in Roles \cup {NoRole}
  /\ IF CanAccess(route, role')
       THEN /\ boot' = Boot("loading", "context", 1)
            /\ console' = [NoConsole EXCEPT !.id = 1]
            /\ jobs' = {Job("context", 1)} \cup
                 IF Loads(route, role') # {} THEN {Job("load", 1)} ELSE {}
       ELSE UNCHANGED <<boot, console, jobs>>
  /\ UNCHANGED <<route, stale, updates, cached, server, refused, lost, used>>

(* initialize ends without a session, or fails.                            *)
NotSignedIn ==
  /\ status = "loading"
  /\ status' \in {"unauthenticated", "error"}
  /\ UNCHANGED <<route, role, stale, updates, boot, cached, console, jobs, server,
                 refused, lost, used>>

(* Time passes: less than thirty seconds of the token are left.            *)
Expire ==
  /\ status = "authenticated" /\ ~stale
  /\ used.expiries < MaxExpiries
  /\ used' = [used EXCEPT !.expiries = @ + 1]
  /\ stale' = TRUE
  /\ UNCHANGED <<route, status, role, updates, boot, cached, console, jobs, server,
                 refused, lost>>

(* updateToken succeeds: the callers that waited send their requests, and  *)
(* the new token makes a new getAccessToken and so a new client.  The      *)
(* render with it first runs the effects of the console, then the boot     *)
(* starts again.                                                           *)
Refreshed ==
  /\ updates > 0
  /\ updates' = updates - 1
  /\ stale' = FALSE
  /\ LET sent == {IF j.pc = "wait" THEN [j EXCEPT !.pc = "sent"] ELSE j : j \in jobs}
         own  == IF console.shown /\ Rereads(console.warm, console.seen)
                   THEN {Job("load", console.id)} ELSE {}
     IN IF status = "authenticated" /\ CanAccess(route, role)
          THEN /\ boot' = Boot("loading", StepWith(cached), boot.run + 1)
               /\ console' = [console EXCEPT !.shown = FALSE]
               /\ jobs' = sent \cup own \cup Loading(cached, jobs, boot.run + 1)
          ELSE jobs' = sent /\ UNCHANGED <<boot, console>>
  /\ UNCHANGED <<route, status, role, cached, server, refused, lost, used>>

(* The tab has no session any more: the boot is idle and the sign-in page  *)
(* replaces the console.                                                   *)
Leave ==
  /\ status' = "unauthenticated"
  /\ boot' = Idle
  /\ console' = [console EXCEPT !.shown = FALSE]

(* updateToken fails: the session is cleared, and the callers that waited  *)
(* send their requests without a token, which the server turns away.       *)
RefreshFails ==
  /\ updates > 0
  /\ updates' = updates - 1
  /\ Leave
  /\ jobs' = {j \in jobs : j.pc # "wait"}
  /\ UNCHANGED <<route, role, stale, cached, server, refused, lost, used>>

Logout ==
  /\ status = "authenticated"
  /\ Leave
  /\ UNCHANGED <<route, role, stale, updates, cached, jobs, server, refused, lost, used>>

-----------------------------------------------------------------------------
(* The server handles a request: the guard and the handler's key check     *)
(* first, then the call itself, which may fail before or after a write is  *)
(* applied, or answer into a connection that is gone.                      *)
Serve(j) ==
  /\ j.pc = "sent"
  /\ LET accepted == \A c \in Calls(j) : Accepts(role, c)
     IN \E ok, applied \in BOOLEAN :
          /\ ok => applied
          /\ Calls(j) = {} => ok
          /\ applied => accepted
          /\ server' = IF applied /\ Writes(j) THEN server + 1 ELSE server
          /\ refused' = (refused \/ ~accepted)
          /\ jobs' = (jobs \ {j}) \cup
                       {[j EXCEPT !.pc = "answered", !.ok = ok, !.got = server']}
  /\ UNCHANGED <<route, status, role, stale, updates, boot, cached, console, lost, used>>

(* The answer to a bootstrap load: the value is kept, and the runs of the  *)
(* boot that await it, cancelled ones included, go on.                     *)
Primed(j) ==
  /\ j.kind \in Keys /\ j.pc = "answered" /\ j.ok
  /\ cached' = [k \in DOMAIN cached \cup {j.kind} |-> IF k = j.kind THEN j.got ELSE cached[k]]
  /\ Run({j}, IF j.kind = "context" THEN Loading(cached', jobs, boot.run) ELSE {})
  /\ boot' = IF Awaits(j.kind) THEN [boot EXCEPT !.step = StepWith(cached')] ELSE boot
  /\ UNCHANGED <<route, status, role, stale, console, server, refused, lost, used>>

NotPrimed(j) ==
  /\ j.kind \in Keys /\ j.pc = "answered" /\ ~j.ok
  /\ Run({j}, {})
  /\ boot' = IF Awaits(j.kind) THEN [boot EXCEPT !.status = "error"] ELSE boot
  /\ UNCHANGED <<route, status, role, stale, cached, console, server, refused, lost, used>>

(* retry: both values are dropped, resolved or on their way, and the boot  *)
(* starts again.                                                           *)
RetryBoot ==
  /\ boot.status = "error"
  /\ Input
  /\ cached' = <<>>
  /\ boot' = Boot("loading", "context", boot.run + 1)
  /\ Run({}, Loading(<<>>, {}, boot.run + 1))
  /\ UNCHANGED <<route, status, role, stale, console, server, refused, lost>>

(* finalize: the console is mounted and takes its bootstrapped value.      *)
BootReady ==
  /\ Awaits("finishing")
  /\ boot' = Boot("ready", "none", boot.run)
  /\ LET warm == "route" \in DOMAIN cached
         seen == IF warm THEN cached["route"] ELSE 0
         own  == Rereads(warm, seen)
         id   == console.id + 1
     IN /\ console' = [NoConsole EXCEPT !.id = id, !.shown = TRUE, !.warm = warm,
                         !.state = IF own THEN "loading" ELSE "loaded",
                         !.has = IF warm THEN Warms(route, role) ELSE {}, !.seen = seen]
        /\ Run({}, IF own THEN {Job("load", id)} ELSE {})
  /\ cached' = [k \in DOMAIN cached \ {"route"} |-> cached[k]]
  /\ UNCHANGED <<route, status, role, stale, server, refused, lost, used>>

-----------------------------------------------------------------------------
(* Mutant: a running control disables no other.                            *)
OfferedBeside(a) ==
  /\ console.shown
  /\ HasRole(role, ConsoleAt[route].acts[a].gate)
  /\ console.state = "loaded" \/ route = "governance"
  /\ a \notin console.busy

(* A control of the page is there to be used: the gate lets the role see   *)
(* it, the page shows its data (the export of the governance page is shown *)
(* in any case), and no running control disables it.                       *)
Offered(a) ==
  LET act == ConsoleAt[route].acts[a]
  IN /\ console.shown
     /\ HasRole(role, act.gate)
     /\ console.state = "loaded" \/ route = "governance"
     /\ a \notin console.busy
     /\ act.overlaps \/ console.busy = {}

Click(a) ==
  /\ Offered(a)
  /\ Input
  /\ LET j == Job(a, console.id)
     IN /\ Run({}, {j})
        /\ console' = [console EXCEPT !.busy = @ \cup {a},
                         !.state = IF Act(j).reloads /\ ~Writes(j) THEN "loading" ELSE @]
  /\ UNCHANGED <<route, status, role, stale, boot, cached, server, refused, lost>>

(* The error page's button runs the load again.                            *)
RetryLoad ==
  /\ console.shown /\ console.state = "error"
  /\ Input
  /\ Run({}, {Job("load", console.id)})
  /\ console' = [console EXCEPT !.state = "loading"]
  /\ UNCHANGED <<route, status, role, stale, boot, cached, server, refused, lost>>

(* The console's load answers.                                             *)
Loaded(j) ==
  /\ j.kind = "load" /\ j.pc = "answered"
  /\ Run({j}, {})
  /\ console' = IF ~OnScreen(j) THEN console
                ELSE IF j.ok THEN [console EXCEPT !.state = "loaded", !.has = Loads(route, role),
                                     !.seen = j.got]
                ELSE [console EXCEPT !.state = "error"]
  /\ UNCHANGED <<route, status, role, stale, boot, cached, server, refused, lost, used>>

(* A handler's request answers and the handler has another one to send.    *)
GoOn(j) ==
  LET next == [j EXCEPT !.step = @ + 1, !.wrote = j.got]
  IN /\ IsAct(j) /\ j.pc = "answered" /\ j.ok
     /\ Writes(j) /\ Calls(next) # {}
     /\ Run({j}, {next})
     /\ console' = IF OnScreen(j) /\ Act(j).reloads /\ ~Writes(next)
                     THEN [console EXCEPT !.state = "loading"] ELSE console
     /\ UNCHANGED <<route, status, role, stale, boot, cached, server, refused, lost, used>>

(* The handler ends: what it read or was answered is shown, or the error.  *)
Finish(j) ==
  /\ IsAct(j) /\ j.pc = "answered"
  /\ j.ok => ~Writes(j) \/ Calls([j EXCEPT !.step = @ + 1]) = {}
  /\ Run({j}, {})
  /\ LET wrote == IF Writes(j) THEN j.got ELSE j.wrote
         freed == [console EXCEPT !.busy = @ \ {j.kind}]
         shown == [freed EXCEPT !.acked = IF wrote > @ THEN wrote ELSE @]
     IN console' =
          IF ~OnScreen(j) THEN console
          ELSE IF ~j.ok
            THEN IF Act(j).inPlace THEN freed ELSE [freed EXCEPT !.state = "error"]
          ELSE IF Act(j).reloads
            THEN [shown EXCEPT !.state = "loaded", !.has = Loads(route, role), !.seen = j.got]
          ELSE [shown EXCEPT !.seen = IF wrote > @ THEN wrote ELSE @]
  /\ lost' = (lost \/ (~OnScreen(j) /\ status = "authenticated" /\ Act(j).writes # <<>>))
  /\ UNCHANGED <<route, status, role, stale, boot, cached, server, refused, used>>

-----------------------------------------------------------------------------
Init ==
  /\ route \in Routes
  /\ status = "loading" /\ role = NoRole /\ stale = FALSE /\ updates = 0
  /\ boot = Idle /\ cached = <<>> /\ console = NoConsole /\ jobs = {}
  /\ server = 0 /\ refused = FALSE /\ lost = FALSE
  /\ used = [expiries |-> 0, inputs |-> 0]

Answers == \E j \in jobs : Primed(j) \/ NotPrimed(j) \/ Loaded(j) \/ GoOn(j) \/ Finish(j)

Next ==
  \/ PageLoad \/ SignedIn \/ NotSignedIn \/ Expire
  \/ Refreshed \/ RefreshFails \/ Logout
  \/ \E j \in jobs : Serve(j)
  \/ \E j \in jobs : Primed(j)
  \/ \E j \in jobs : NotPrimed(j)
  \/ \E j \in jobs : Loaded(j)
  \/ \E j \in jobs : GoOn(j)
  \/ \E j \in jobs : Finish(j)
  \/ RetryBoot \/ BootReady \/ RetryLoad
  \/ \E a \in DOMAIN ConsoleAt[route].acts : Click(a)

(* The network answers, Keycloak answers, and the browser runs what became *)
(* runnable.  Nobody has to click, and no token has to expire.             *)
Fairness ==
  /\ WF_vars(\E j \in jobs : Serve(j))
  /\ WF_vars(Answers)
  /\ WF_vars(Refreshed \/ RefreshFails)
  /\ WF_vars(BootReady)

Spec == Init /\ [][Next]_vars /\ Fairness

-----------------------------------------------------------------------------
Controls == DOMAIN ConsoleAt[route].acts

JobType ==
  [kind : Keys \cup {"load"} \cup Controls, owner : Nat, step : 1 .. 3,
   pc : {"wait", "sent", "answered"}, got : Nat, wrote : Nat, ok : BOOLEAN]

BootType ==
  [status : {"idle", "loading", "ready", "error"},
   step : Keys \cup {"finishing", "none"}, run : Nat]

Handlers == UNION {c[r] : c \in Controllers, r \in Roles}

ConsoleType ==
  [id : Nat, shown : BOOLEAN, state : {"loading", "loaded", "error"}, warm : BOOLEAN,
   has : SUBSET Handlers, seen : Nat, acked : Nat, busy : SUBSET Controls]

(* Every variable has its type; and what a job saw, what a console shows   *)
(* and what was acknowledged to it are writes the server has applied.      *)
TypeOK ==
  /\ route \in Routes
  /\ status \in {"loading", "authenticated", "unauthenticated", "error"}
  /\ role \in Roles \cup {NoRole}
  /\ {stale, refused, lost} \subseteq BOOLEAN
  /\ updates \in Nat /\ server \in Nat
  /\ boot \in BootType /\ console \in ConsoleType /\ jobs \subseteq JobType
  /\ DOMAIN cached \subseteq Keys /\ cached \in [DOMAIN cached -> 0 .. server]
  /\ \A j \in jobs : {j.got, j.wrote} \subseteq 0 .. server
  /\ {console.seen, console.acked} \subseteq 0 .. server
  /\ used \in [expiries : Nat, inputs : Nat]

(* Work that is shared is done once: at most one updateToken call and at   *)
(* most one load per bootstrap key is unanswered, however many callers and *)
(* restarts of the boot there are (refreshPromiseRef and                   *)
(* inflightBootstrapValues). When the boot shows its error no bootstrap    *)
(* load is unanswered, so the retry, which forgets the loads under way,    *)
(* has none to forget and cannot start a second one beside it.             *)
SharedOnce ==
  /\ updates <= 1
  /\ \A k \in Keys : Cardinality({j \in jobs : j.kind = k}) <= 1
  /\ boot.status = "error" => \A j \in jobs : j.kind \notin Keys

(* No console and no boot sends a signed-in user's call that the server    *)
(* turns away for the user's role or for a missing Idempotency-Key: the    *)
(* gates of the controls and the boot agree with the controllers.          *)
NothingRefused == role # NoRole => ~refused

(* A console that shows its page has everything its own load would have    *)
(* read for this role, whether it loaded or took the boot's value.         *)
LoadedIsWhole ==
  console.shown /\ console.state = "loaded" => Loads(route, role) \subseteq console.has

(* A console whose controls exclude each other shows, once no handler      *)
(* runs, data at least as new as the last write it was told had succeeded: *)
(* the handlers load again after the write, or show its answer.            *)
ReloadShowsWrite ==
  /\ console.shown /\ console.state = "loaded" /\ console.busy = {}
  /\ \A a \in DOMAIN ConsoleAt[route].acts : ~ConsoleAt[route].acts[a].overlaps
  => console.acked <= console.seen

(* The boot ends: with the console, with its error page, or because the    *)
(* session ended.                                                          *)
BootEnds == boot.status = "loading" ~> boot.status # "loading"

(* What LOADING-AUDIT-REPORT.md claims: the route's data is not read by    *)
(* the workspace setup and by the console's own load as well.              *)
RouteReadOnce == boot.status = "loading" => \A j \in jobs : j.kind # "load"

(* What LOADING-INVENTORY.md claims: the console keeps its in-flight state *)
(* until the action completes, so a write's handler ends with its console  *)
(* on the screen of the signed-in user.                                    *)
OutcomeIsShown == ~lost
=============================================================================
