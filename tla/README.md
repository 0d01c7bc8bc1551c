# Costalyx in TLA+

Costalyx ingests cloud billing exports of many tenants into PostgreSQL,
normalises them, allocates the costs to stakeholders, finds anomalies and
savings in them, and mails the stakeholders billing statements that a person has
approved. A React frontend shows all of it. This directory models the parts in
which concurrent requests, a scheduler worker, failures and figures meet.
`PROJECT.json` names the lines behind every definition.

Paths below are relative to `src/backend/src` unless they say otherwise.

## The system

Two kinds of Node process run the same NestJS application over one PostgreSQL
database: the API (`main.ts`), which serves the frontend, and a worker
(`worker.ts`), which runs the scheduler. Processes share nothing but the
database. Within a process every `await` lets other requests run. Transactions
are `BEGIN ... COMMIT` at PostgreSQL's default isolation, READ COMMITTED, on a
pooled connection each; no code takes an explicit lock. Most mutating operations
carry an idempotency key, kept in one table per area.

| Component | State | Operations | Interacts with |
|---|---|---|---|
| Cost model store (`cost-model/`) | `ingestion_batches`, `cost_records`, `accounts` | `saveIngestion`; listing, summary, flow | called by ingestion; read by nearly all others |
| Ingestion (`ingestion/`) | none of its own | `createBatch`: find the connection, read its export, `saveIngestion`, record a run; readers and three adapters | governance, providers' storage, cost model |
| Scheduler (`ingestion/cloud-connection-scheduler.service.ts`) | `running` flag, the result of a pass | a pass: validate and ingest every connection, then the agent cycles | governance, ingestion, billing agent |
| Governance (`governance/`) | `tenants`, `accounts`, `account_groups` and members, `cloud_credentials`, `users` and roles, `views`, `cloud_connections`, `cloud_connection_runs`, `governance_idempotency` | register, validate, record a run; create, update and delete the others | provider probes, audit log |
| Onboarding (`governance/`) | none of its own; the runtime's environment | the guide of a connection, the secret guard, preflights; the readiness page (`operator/`) | provider probes, the customer's cloud |
| Audit log (in every repository) | `audit_log`, a hash chain per tenant | `appendAudit`, within the caller's transaction | every mutation |
| Billing agent: statements (`billing-agent/`) | `stakeholders`, `billing_scopes`, `statements`, `statement_line_items`, `billing_agent_idempotency`, `billing_agent_runs` | generate, approve, send, dispute, agent cycles | cost model, SMTP, narrative service |
| Billing agent: anomalies | `anomalies`, `anomaly_suppressions`, events | scan, give a verdict, suppress, announce | cost model |
| Allocation | `dimensions`, `dimension_tag_mappings`, `resource_tags`, `allocation_idempotency` | create, map, tag | cost model |
| Optimization | `recommendations`, `realized_savings` | sync, apply, dismiss, book a saving | cost model |
| Reporting, executive | none | reads and sums | cost model |
| Security, middleware | rate-limit windows in memory | verify a token, check a role, count requests | every request |
| Frontend (`src/frontend/src`) | session in `AuthProvider`, workspace boot, bootstrap cache, a console per route | sign in, refresh, log out; boot, retry; load, act, reload | API |

What is hard in this code, and what must hold nevertheless:

* **Check, then act.** Duplicates, idempotency keys, statement states, probes,
  suppressions, recommendations and the end of the audit chain are each read in
  one query and acted upon in a later one. What must hold: one answer per key,
  one stored row per fingerprint, no mail of unapproved content, no status
  without its run, no verdict or decision that a job overwrites.
* **Awaits on the outside world** between the read and the write: mail (a
  statement may be regenerated meanwhile), provider probes and export reads (a
  connection may be registered again meanwhile).
* **Two transactions for one operation**: mail and then UPDATE, batch and then
  run, anomalies and then events. A failure or a death of the process in between
  leaves half of it.
* **Retries** after an answer that was lost.
* **Locks** taken in the order of the rows of a file, or of a group and then its
  members, so that calls may wait for each other.
* **Progress**: one failing connection or statement must stop neither a pass
  nor a cycle; the `running` flag must always be reset; a page must not load for
  ever.
* **Figures** that are computed in several places, in cents here and in full
  precision there, and must agree.
* **Tables written twice**: what a console reads and what the boot warms for it,
  which role a button asks for and which role its endpoint asks for; what a guide
  makes a customer grant and what the probe and the reader need.

`PROJECT.json` lists each of these as a hazard at its line, with the properties
that cover it, or the reason why none does.

## The modules

| Module | Models | Proofs |
|---|---|---|
| `CostStore` | what the cost model promises: a batch is stored at once, once per key, without duplicates. The in-memory repository does this literally | |
| `SaveIngestion` | `PostgresCostModelRepository.saveIngestion`, one action per query; implements `CostStore` | `SaveIngestionProofs` |
| `CloudConnections` | connections, the scheduler, `createBatch`; instantiates `CostStore` for the rows they store | `CloudConnectionsProofs` |
| `CloudAccess` | guides, the customer who follows them, probes, preflights, readiness, and what a connection can then read | `CloudAccessProofs` |
| `Statements` | `BillingAgentService` and its PostgreSQL repository: scopes, statements, agent cycles | `StatementsProofs` |
| `AuditChain` | `appendAudit` of the PostgreSQL repositories | `GovernanceProofs` |
| `GovernanceStore` | what governance and allocation promise: their in-memory repositories, every call one step | |
| `Governance` | the PostgreSQL governance and allocation repositories, one action per query; implements `GovernanceStore` | `GovernanceProofs` |
| `Anomalies` | scans, verdicts, suppressions, events | `FiguresProofs` |
| `Optimization` | the sync of recommendations, their decision, the saving booked | `OptimizationProofs` |
| `Decimals` | money: scaled integers, cutting and rounding | |
| `BillingExports` | readers and adapters: which source and object is read, what its rows become, fingerprints | |
| `CostQueries` | listing, summary, explorer flow, reports, executive summary, saved views | |
| `StatementFigures` | selection, line items, totals, reconciliation, warnings, variance, narrative | |
| `AnomalyDetection` | the four detectors of a scan | |
| `BillingFigures` | deliveries and reads of exports; instantiates the five above on what is stored | `FiguresProofs` |
| `Consoles` | controllers, client methods and consoles as tables | |
| `Session` | one browser tab: session, token, boot, cache, console, over `Consoles` | `SessionProofs` |

`MC...` modules give the constants values for TLC. An operator called a
*Mutant* is a plausible mistake in the definition after it. No specification
uses it; it shows that a property would notice the mistake.

### CostStore and SaveIngestion

A billing row is its fingerprint: provider, account, service, resource, period
and cost are hashed into it, so it determines the row's account (`AccountOf`).
Each query of the transaction is an action, in the order of the code: look the
key up, insert the batch, and for each row upsert the account, look for a
duplicate, insert the row; then update the counters and COMMIT. What
PostgreSQL does is modelled by its effect on a transaction: an insert waits for
an open transaction that inserted the same unique key, an upsert waits for the
row's lock, a deadlock has a victim, READ COMMITTED shows what was committed
when a query runs. Any query may fail, any process die, and a COMMIT may take
effect without its answer arriving.

The refinement (`ImplementsCostStore`) maps the tables to themselves: the step
of `CostStore` is taken at COMMIT. Rows were classified one by one before it,
while other calls committed, and the property says that this made no difference.

### Statements

One tenant; its stakeholders' statements are rows keyed by stakeholder and
period, as the unique index has them. The *content* of a statement, its amounts,
line items and narrative, is named by the generation that computed it; how it is
computed is in `StatementFigures`. A handler's read, its mail and its
transaction are separate actions. The transaction is two: the lookup of the key,
and all its writes at COMMIT. The writes are one step because each of them locks
the rows it touches until COMMIT and reads nothing but them.

Agent cycles list the approved statements, cut the list at the cap and send one
after another; a cycle is not resumed when its worker dies. A
`DeliverUnconfirmed` step is a message that the mail server accepted and whose
call failed all the same. Delivery that is only audited (no SMTP host) counts as
a delivery.

Abstracted: the dispute's text, `sent_at`, the statuses `draft` and `void`, which
no code writes to a statement; anomaly lines, whose ids collide as scope lines
do; which of two equally old statements is listed first. The statement and its
lines are read in two queries, but what is mailed comes from the first.

### AuditChain

A transaction reads the latest entry's hash, stamps its own entry, inserts and
commits; other transactions do the same meanwhile. `validateCloudConnection` does
it twice before it commits (`SelectAgain`), for the run it records and for
itself, and its second read sees its own first entry; all other operations
append once. A hash covers the whole entry
with its random id, so ids stand for hashes; their order is the order in which
the database sorts uuids, which decides between entries of one millisecond.
So the second entry of a validation may come before the first one in that order,
and then the next operation follows the first one as well.
Time is one clock, advanced by `Tick`. One host runs the API and the worker in
the documented deployment; with clocks that differ the latest entry by time
stamp need not be the last one written.

### CloudConnections

Users register, validate and ingest; workers run passes. `saveIngestion` is one
step here, an action of `CostStore`, which `SaveIngestion` justifies. A
governance transaction updates its connection's row and then inserts its key,
always in this order, and holds both until COMMIT, so its writes are one step;
the provider probe, which is awaited *inside* the transaction, is a step of its
own before them. The lookup of the key and the read of the row are one step: a
transaction that commits between them and matters took the same key, and then
the later of the two fails on the key's primary key.

A pass is the loop of `runOnce`: listing, validation, ingestion of what was
*listed*, whatever is registered meanwhile, counters, and errors at every
`await`. The flag `running` is `pc[w] # "idle"`. The billing agent cycles at the
end are one step here and the subject of `Statements`.

Abstracted: what the readers accept is reduced to equality of export locations
(`BillingExports` has prefixes and the choice of an object); a provider
mismatch, a parse error and an empty export are all `FetchFails`; a batch's
source is the location asked for, not the object resolved from it; connections
may exist before the model starts, all with status `pending_validation`.

### CloudAccess

How a connection comes to read an export. An admin registers it (`Register`) and
loads its guide (`LoadOnboarding`); the customer deploys a copy of the guide,
perhaps long after the connection or the environment has changed (`Deploy`);
validation probes (`Validate`) and ingestion reads (`Readable`) with the
runtime's own identity; the operator restarts the API with another environment
(`Reconfigure`). A guide is what it asks for: a role with its trust and its
policy in the three forms that the code writes down (the policies, the
CloudFormation template, the Terraform module), or role assignments and IAM
bindings. Probes return the code that the program stores. The preflights of a
shell build their connection by themselves, so their operators do too.

The customers' clouds are external and modelled as far as the code relies on
them: a role is assumed if it has exactly the ARN and its trust names the
identity and the external ID; a role without a path replaces one of its name; a
policy covers a bucket and a prefix. Only AWS has an external ID.

Abstracted: a handler is one step, since `CloudConnections` has their
interleavings; commands, wording and files of a guide; trimming, letter case and
regions; a URI is what the parsers find in it, with the marks that the secret
guard looks for. The preflight does not run the secret guard.

### GovernanceStore and Governance

The operations of governance and allocation have four shapes: upserts by a
natural key (tenants, accounts, users, resource tags), inserts under a random id
(groups, credentials, views, dimensions, mappings), updates (a group, the
rotation of a credential) and one deletion (a group). `Governance` has one set of
actions for all of them, one action per query: look the key up, read the row
where the code reads it, write it, delete its parts and insert the new ones (the
members of a group, the roles of a user), store the answer, COMMIT. The tables
differ in their columns only, so a row is an owner and a value. Row locks, the
foreign keys from members to accounts and groups, the wait of an INSERT for an
open INSERT of the same key, deadlocks and lost connections are modelled by their
effect. A statement that deletes parts sees those committed when it starts, and
waits for other deletions of them, so `DeleteParts` and `PartsDeleted` are two
steps.

`ImplementsGovernanceStore` is a refinement to the atomic store, weakened in one
point that the code has: a PATCH of a group's members alone writes back the name
it read, so a name set in between is undone. `GovernanceStore` says so in its
variable `former`: the value that such an update leaves is one the row has had.

### Anomalies

A scan loads the records, then the suppressions, then works through its
candidates in one transaction (look up, insert, refresh while open, or pass
over), commits, and publishes an event for each anomaly it inserted. Users give
verdicts under a key; the verdict of false positive suppresses the fingerprint
in the same transaction. A scan whose conditional UPDATE finds the anomaly
reviewed meanwhile gets no row back and throws: `RefreshFindsNone`. Insertion
waits for an open insertion of the same id and then meets the primary key. A
scan may die at any point, also between the commit and the events.

### Optimization

Listing and updating recommendations first syncs them with the billing data:
every candidate is an upsert, and a transaction, of its own. An update reads the
row, sets the status, books the saving from what it *read*, stores its answer
and commits. `Ingest` changes the billing data at any time.

### BillingFigures and the modules it instantiates

The state is what the providers delivered, the records stored from it, and the
scopes of the stakeholders. A read picks an object, refuses an unregistered
source, refuses an export with an incomplete or broken row as a whole, and
stores the rows that are no duplicates. Everything else is computed: the modules
`BillingExports`, `CostQueries`, `StatementFigures` and `AnomalyDetection` are
pure operators, translated from the functions of the code, and `BillingFigures`
evaluates them in every reachable set of records, where one can be held against
another. A detector groups the records by provider, account and what else it
compares, so the same account number at two providers is two accounts. A
candidate carries the amounts that its explanation names, because the code reads
them out of the text again and throws when one is not found there. A negative
amount never is, and usage is negative where a provider corrects it: the whole
scan then finds nothing (`ScanThrows`, `ScanFinds`). `DetectionIsStable` has this
one exception; otherwise a finding of a past day neither goes away nor comes late.

`TotalsReconcile` is written for any number of stakeholders, since the overlap
that the code reports (each record that several have, once) is what the totals
count too often only while there are two of them. `FlowAgrees` adds what the
flow does not show because its link stays below the floor the user set.

Units are small: a rate is an integer in which a dollar has `RateUnit` units,
where the code has eight digits, and similarly for hours, pages, listings and
thresholds. Text is abstracted to the words or special characters the code looks
for. Doubles of the detectors are exact ratios, compared with regard to the sign
of what divides; of the amounts of an explanation only the signs matter.

Abstracted: time is a day and an hour; one currency, as in the code; the ids
that the code hashes are the tuples that are hashed; the language model of the
narrative (its text must pass the check of the fallback text).

### Consoles and Session

`Consoles` holds three tables: the handlers of the controllers with the role and
the key they ask for, the methods of the client with the key they send, and the
consoles with what they load, which controls they show to whom, what these write
in which order and whether they read the page again. Which calls the gates of the
billing agent's lists let through (`AnomalyGates`, `StatementGates`) is kept apart
from what the handlers then do, as in the code. `Session` moves one tab
over them: asynchronous code is a set of jobs, each waiting for a token refresh,
sent, or answered. A refreshed token gives the client a new identity, which
restarts the boot and takes the console off the screen while its jobs go on. Any
call may fail, before or after its write took effect. Navigation inside the
product loads a page (`PageLoad`), so that a page keeps its route.

Abstracted: what is displayed beside the data; the delay and minimum display
time of the loader; the effects of the portfolio page that follow a selection
(its summary and run list; the summary of its first load is an effect of its own
and counts as part of that load), preferences and the task list; React's StrictMode,
which only doubles effects in development; the values of idempotency keys. The
portfolio console makes its keys of the account and of the connection's id, so a
second registration or validation from it is answered with the first one's
answer; `PROJECT.json` lists this as a hazard.

## The runs

All bounds are values of constants in the `.cfg` files. Deadlock is checked
everywhere but in `figures`, where deliveries are used up, and in `session`,
where a signed-out tab stays signed out.

| Run | Instance | Shows |
|---|---|---|
| `save_ingestion` | two concurrent calls, two tenants, two keys, files of two and three rows that share a row and lock two accounts in opposite orders | no insert meets a duplicate, one answer per key, counters are exact, the refinement, calls end |
| `connection_calls` | two users of two tenants, one connection, one shared key each for governance and ingestion, one remote and one local export | a key applies once, runs name stored batches, remote rows were registered |
| `cloud_access` | two tenants in one AWS account, one of them registering again with another role and export, Azure and GCP, nine bodies of registrations of which one is refused; four environments; two registrations, guides and deployments and one restart | a guide that is ready suffices, no connection reaches what was not registered under its id, a preflight foretells validation |
| `connection_pass` | one user, one worker, two connections, one pass, live probes | each status has its run, a pass visits all, everything ends |
| `statements` | a user and an agent, two periods, one scope, two generations, cap of one | only approved contents are mailed, sent rows have an approver and true evidence, cycles keep to the cap, everything ends |
| `audit_chain` | three transactions of one or two entries, two tenants, three ids, two ticks | the chain forks only where transactions overlap or a random id misorders an entry |
| `governance` | two calls out of eight on a group, two accounts and a credential, keys shared by different calls, a second tenant that deletes the group | members are one call's, other tenants' rows are untouched, the refinement, calls end |
| `anomalies` | two scans that find the same two anomalies with changing evidence, a user with three verdicts, two of them under one key | an anomaly is announced once, verdicts stay, suppression and verdict come together, everything ends |
| `optimization` | two calls that list, apply or dismiss, two recommendations, figures that change | what is applied has its saving |
| `figures` | AWS and GCP with the same account number, three deliveries out of eleven contents, a spike, a restated charge, a credit, corrections with negative hours, incomplete and broken rows, two stakeholders, three queries and views | totals reconcile, statements follow the summary but for rounding, figures agree, views narrow, every charge of the newest delivery is stored, detections stay unless the scan throws |
| `session` | every route, every role and none, one token expiry, two uses of controls, retries or page loads | shared work is done once, nothing is refused, pages are whole and show writes, the boot ends |

Why these bounds: every property of the concurrent modules speaks of at most two
calls, two entries or two rows, and each race needs two actors, or an actor and
a worker. Two actors with one shared key, row or account meet in every order; a
third call of the same kind only repeats what the second can do to the first.
The audit chain has three transactions and three ids because a fork takes two
entries that follow a third one. Two periods are needed because line items are shared between them;
two connections because one may fail and the other must be visited; two
anomalies because their order decides about deadlock. In `figures` the charges
are chosen so that each rule of the code applies to one and not to another, and
the units so that every rounding case occurs. In `cloud_access` two of everything
let a guide of the first registration be deployed after the second, or beside
that of another tenant, before or after a restart. In `session` two inputs let a
handler run beside another, or a page be loaded under a handler. What the bounds
cannot show, unbounded sets of actors and data, is what the proofs are for.

The type invariants and inductive invariants are theorems and not checked again
in these runs. `PrevIsStored` of `AuditChain` and `DecidedIsFinal` of
`Optimization` hold in the instances of their runs as well; the runs leave them
to the theorems.

### Where the code differs from what it says

One run expects a violation. It checks a property that a document of the
repository states.

| Run | Property | Counterexample |
|---|---|---|
| `statements_unapproved` | `SentIsApproved` | a send reads an approved statement and mails it; a generation replaces the content; the send's UPDATE has no condition and marks the new, unapproved content sent |

Further configurations are kept beside them and not listed as runs. TLC finds
each of these properties violated too:

| Configuration | Property | Counterexample |
|---|---|---|
| `MCStatementsPeriods.cfg` | `GenerationNeverCollides` | the id of a line item does not depend on the period, so a second period's generation violates the primary key and rolls back (`src/13-BILLING-AGENT-SPEC.md:104` promises a statement per stakeholder per period) |
| `MCStatementsRetry.cfg` | `RetryIsAnswered` | an approval commits and its answer is lost; the retry with the same key meets the new status and gets 400 before the key is looked up (`src/07-FRONTEND-BACKEND-WIRING.md:42` promises the original response) |
| `MCBillingFiguresClaims.cfg` | `GenerationSucceeds`, `ScanSucceeds` | the largest variance is negative, or more of a day's usage is taken back than was used; the explanation names a negative amount, which the pattern for claims does not find, so the generation throws, or this scan and every later one (`-continue` shows both) |
| `MCAuditChainTie.cfg` | `ChainIsLinear` | no two transactions overlap; a validation's two entries share a millisecond, the second has the lower id, and the next operation follows the first. Two transactions that overlap fork the chain too, as they do in `MCAuditChain.cfg` |
| `MCOptimizationStale.cfg` | `BookedAsDecided` | a sync refreshes the figure between the read and the UPDATE of a decision, and the saving is booked at the figure that was read |
| `MCConnectionUnprobed.cfg` | `ValidatedIsProbed` | a registration during a probe changes the export, and the probe's result is then written to the new one |
| `MCConnectionUnrecorded.cfg` | `ScheduledIsRecorded` | the batch is stored and the transaction that records its run fails; the pass's key is never used again |
| `MCSessionDouble.cfg` | `RouteReadOnce` | after sign-in the console is mounted while the boot is still idle, so its own load and the boot both read the route's data |
| `MCSessionOutcome.cfg` | `OutcomeIsShown` | a token refresh during a write restarts the boot, the console is gone when the write is answered, and nobody learns of it |

`MCStatementsKeys.cfg` passes: two users share one key for any two calls, and
stored answers are final. It is covered by the theorem `AnswersFinal`.

What holds in spite of these is checked beside them: the mailed content was
always approved (`DeliveredWasApproved`), a sent row always names an approver
and true evidence, forks need an overlap or a shared millisecond
(`ForksNeedOverlapOrTie`), a scan that does not throw keeps what was found
(`DetectionIsStable`), what is applied has a saving, a status always has a run, and a page shows the writes it
reported (`ReloadShowsWrite`).

### Fairness

Liveness (`CallsEnd`, `ActorsEnd`, `BootEnds`) is checked under weak fairness of
the steps of a call, a cycle or a pass in progress: Node runs every ready
continuation, and PostgreSQL, the mail server and the provider SDKs answer or
fail. The last is an assumption: the probe has no timeout of its own in this
code. In `SaveIngestion`, `Governance` and `Anomalies`, where calls wait for
locks, fairness is strong, since PostgreSQL serves its lock queues in order, and
the deadlock detector is weakly fair; `Anomalies` needs no detector, because
scans lock anomalies in one order. In `Session` the network, Keycloak and the
browser are fair, the user is not. Nothing is assumed to call, to click, to
tick, to fail or to crash.

## The proofs

Every invariant and every action property that a run checks, and both
refinements, are theorems. TLAPS checks them for all values of the constants,
under the named `ASSUME`s of the modules only: actors of different kinds are
different, `None` is no value, bounds are numbers, `TenantOf`, `AccountOf` and
`OwnerOf` are functions of the right type, files are sequences of fingerprints,
a registration has the fields its parser asks for; of the exports, that an object
holds finitely many rows, that columns of numbers hold numbers, and that the
number of a row tells it from the others of its provider; of money, that a cent
is a positive even number of units; of a tenant, that its stakeholders are
finitely many. Each proof module shows `Init => TypeOK /\ Inv` and
`TypeOK /\ Inv /\ [Next]_vars => (TypeOK /\ Inv)'`, one lemma for each group of
actions, and derives its theorems from `Invariance`.

* `SaveIngestionProofs`. The argument is about locks: while a transaction is
  between the duplicate check and the insert it holds the account row of the
  fingerprint (`AccountsLocked`), open transactions hold different accounts
  (`LocksExclusive`), so what the check found is still true (`WritesAreNew`).
  Theorems: `NoFingerprintConflict`, `OneAnswerPerKey`, `LedgerAlwaysBalances`,
  `RecordsAlwaysHaveAccount`, and `Refinement`, for which `CountersExact` and
  `RowsCovered` say that the rows found new so far are those that are new at
  COMMIT.
* `StatementsProofs`. A send in progress holds an approved content
  (`SendsApproved`), and the row it will write keeps its approver, because a
  regeneration resets the status but not `approved_by`. Theorems:
  `NoSendWithoutApprover`, `OnlyApprovedIsDelivered`, `EvidenceIsReal`,
  `AnswersFinal`. For `CyclesWithinCap`, what a cycle has sent and what it still
  has to send never exceed the cap together (`CycleCapped`).
* `CloudConnectionsProofs`. A validation holds a row that still exists, a read
  of a remote export was of one registered for that connection (`CallsRead`),
  and a key is stored by the one call that applied it (`AppliedIsStored`).
  Theorems: `OnlyOneApplies`, `EveryStatusHasRun`, `EveryRunHasBatch`,
  `OnlyRegisteredIsIngested`. For `EveryPassVisitsAll`, a second invariant
  (`PassesCounted`): at each step of a pass the connections
  it listed are those it has counted and those it still has to visit, and each
  one counted has an outcome in the result, but for the one in hand.
* `GovernanceProofs`. What a call has written under its lock is at every later
  point what the atomic operation may do to the committed tables (`Written` in
  `CallOK`): the lock keeps the row and its parts as they were
  (`LocksExclusive`, `CallParts`), and the key is unused when the call commits
  (`KeysUnused`). Theorems: `Refinement`, `MembersAreOneCalls`,
  `OthersRowsSafe`. Its second part is about `AuditChain`: what a transaction
  selected stays the latest of the entries it knew, its own among them, whatever
  commits later (`TailsSound`), and an entry is stamped no earlier than the one it
  follows and never ahead of the clock (`StampsOrdered`). An entry that is known
  and still not the latest must then be ordered before the one it follows, by its
  id. Theorems: `EveryPrevIsStored`, `ForksExplained`.
* `OptimizationProofs`. An update that has set a status holds the row's lock, so
  no sync or other decision comes between the status and the saving
  (`HasWritten`, `LocksExclusive`). Theorems: `AppliedIsBooked`,
  `DecisionStays`.
* `CloudAccessProofs`. A role in a cloud can be followed to the guide it was made
  from, that is to an export registered under the id in its trust (`FromGuide`),
  and a row to its registration (`RowsAreRegistered`); the external ID
  contains the id, so whatever a connection may assume was granted for an export
  of its own. Theorem: `ReachStaysRegistered`. `GuidesSuffice` and
  `PreflightIsFaithful` follow a guide, provider by provider and form by form,
  through the deployment into the probe and the reader, and a preflight through
  the same probe.
* `SessionProofs`. `Inv` says that nothing runs and no console is shown for a
  user who is not known or may not see the page (`BootSound`), that each key of
  the boot has one load (`LoadsShared`), that the job of a control passed its gate
  (`GatesPassed`), that a console which shows its page has all of it
  (`LoadedIsWhole`), and that on a page whose controls exclude each other one job
  of the console runs, which saw no older data than the console was told of
  (`OneAtATime`). None of these follows from the property it serves: a page shows
  its writes because the load that ends a handler was sent after the write, and
  the tables of `Consoles` let nothing through because of what a gate implies at
  the time of the click. Theorems: `WorkIsShared`, `GatesAgree`,
  `PagesAreWhole`, `WritesAreShown`. The facts about the tables of `Consoles`
  are lemmas that go through their rows.
* `FiguresProofs`, of `Anomalies`. A scan only holds uncommitted rows of anomalies
  that were not reviewed, has inserted exactly those that did not exist
  (`ScanHolds`), and no two scans have the same anomaly to announce
  (`OneAnnounces`). Theorems: `AnnouncesOnce`, `VerdictsStay`,
  `VerdictSuppressed`.
* `FiguresProofs`, of `BillingFigures`. The invariant is `FiguresTypeOK`: stored
  records come from complete rows, are finitely many, and no two are one charge.
  `NewestAlwaysStored`: the object chosen is the last delivery, and of rows with
  one fingerprint the first is stored unless it was before. `DetectionsStay`: with
  charges of later days a group only grows at its end (`Continues`), so the days
  and windows before keep their figures and their candidates
  (`CandidatesStable`), those that make a scan throw included. `ViewsOnlyNarrow`. The rest are sums.

Sums. The community modules define the sum of a function over a set as a fold:
a recursive function on the subsets, each without an element that is chosen. The
first part of `FiguresProofs` proves that this fold exists and does not depend on
what is chosen (`SumWithout`), that sums go term by term (`SumPlus`, `SumAtMost`,
`SumTimes`, `SumOfPart`, `SumConstant`), and that counting by groups is counting
by members (`DoubleCount`). Induction is first-order there: a set of numbers
that has 0 and the successor of each of its members has them all, because
otherwise one missing number would be the least (`NumbersInduction`, from the
well-foundedness of the natural numbers), and finite sets are reached through
their cardinality (`SubsetsInduction`). On these rest three theorems:

* `StatementsReconcile`: by `DoubleCount` the totals count each record once for
  every stakeholder that has it, the first count of each is the allocated total
  and the others are what is counted again.
* `StatementsFollow`: truncation is bounded on both sides (`TruncateUp`,
  `TruncateDown`), so rounding one charge is off by half a cent at most, and one
  credit by one and a half, never in the tenant's favour (`RoundedCharge`,
  `RoundedCredit`); the bounds add up.
* `ViewsAgree`: every record of a page is in one invoice, and in one link of the
  flow unless that link is hidden (`Divides`), so the groups add up to the
  summary. A finite set of records has a dearest one (`HasGreatest`), and a
  resource is in a dimension or not, by its tags.

`TypeCorrect` is proved in each. The bounds (`MaxGenerations`, `MaxClock`,
`MaxPasses`, `MaxDeliveries`, those of `CloudAccess`) are parameters in the
proofs, so that they restrict nothing.

Only model-checked: liveness under fairness (`CallsEnd`, `ActorsEnd`,
`BootEnds`), which is beyond the prover; and the properties of the violated
runs, which are false.

## Not modelled

* The readiness checks of supporting services, which ask whether a variable is
  set; health and start-up; logging, error formats, CORS and headers. The rate
  limiter is one synchronous function per request.
* Answers that a controller gives before its service has: `deleteAccountGroup`
  neither returns nor awaits its promise, so 204 is answered before the group is
  deleted, and also if it then is not. `Governance` ends a call with its
  transaction.
* In-memory repositories, used without a database, where each operation is one
  synchronous step, except as the source of `CostStore` and `GovernanceStore`.
* More than one worker with the scheduler enabled: the deployment guide allows
  one. `Workers` is a set, but two passes are never given one millisecond.
* The pages of one listing under a concurrent ingestion: `BillingFigures`
  computes from the records of one moment.
* The verification of tokens, the language model, mail formats, PDF and CSV
  files, the estimate of a total cost of ownership (a product of its inputs).
* In the frontend: the portfolio's selection effects, preferences, the command
  palette, the task list, layout and wording. `api/schema.ts` is generated from
  the API description.
* Scripts, charts and deployment files.

## Plan

1. Lemmas towards the liveness properties: that the waits-for relation of
   `Anomalies` has no cycle, and that each call takes finitely many steps.
2. Paging over a changing table: a listing as one step per page, and what the
   statements promise when an ingestion comes between.
3. The portfolio's selection effects, with answers to an earlier selection that
   come after those to a later one.
4. A refinement from `Session` to a tab without a bootstrap cache.
5. The values of the consoles' idempotency keys in `Session`, composed with the
   replay of `CloudConnections`.
