-------------------------- MODULE CloudConnections --------------------------
(***************************************************************************)
(* Cloud connections, from registration to stored billing rows:            *)
(* GovernanceService over PostgreSQL (register, validate, record a run),   *)
(* IngestionService.createBatch, and the passes of the scheduler worker,   *)
(* which calls both for every connection. saveIngestion is one step here,  *)
(* a step of CostStore: SaveIngestion implements it, query by query.       *)
(*                                                                         *)
(* A governance transaction updates its connection's row before it inserts *)
(* its key, always in this order, and both stay locked until COMMIT: its   *)
(* writes are one step. The key and the row are read in one step as well:  *)
(* a transaction that commits in between and matters took the same key,    *)
(* and then this one rolls back.                                           *)
(***************************************************************************)
EXTENDS Naturals, Sequences, FiniteSets

CONSTANTS
  Users,        \* API calls that can be in progress at once
  Workers,      \* worker processes with the scheduler enabled
  Tenants,
  Connections,  \* ids of table cloud_connections
  TenantOf,     \* the tenant from which a connection's id is made
  Sources,      \* billing export locations
  Remote,       \* those in a customer's cloud; the others are local files
  Keys,         \* idempotency keys of API calls to governance
  BatchKeys,    \* idempotency keys of API calls that ingest
  OnceKey,      \* a validation key of one scheduler call only
  Fps, Files,   \* contents of billing exports, as in CostStore
  LiveProbes,   \* COSTALYX_LIVE_CLOUD_PROBES is enabled
  IngestionEnabled,  \* COSTALYX_CLOUD_SCHEDULER_INGESTION_ENABLED is
  MaxPasses,    \* bound: passes that are started
  None          \* no row, no export, no answer, no request

ASSUME TenantOfAssumption == TenantOf \in [Connections -> Tenants]

ASSUME ActorsAssumption == Users \cap Workers = {}

ASSUME FilesAssumption == Files \subseteq Seq(Fps)

ASSUME ConfigAssumption ==
  /\ LiveProbes \in BOOLEAN /\ IngestionEnabled \in BOOLEAN
  /\ MaxPasses \in Nat /\ Remote \subseteq Sources /\ OnceKey \notin Keys

Actors == Users \cup Workers

(* The scheduler's batch keys: the connection and the time of the pass. *)
PassKey == [pass : 1 .. MaxPasses, on : Connections]

BatchId == [tenant : Tenants, key : BatchKeys \cup PassKey, source : Sources]

Status == {"pending_validation", "ready_for_live_probe", "validated",
           "validation_failed"}

(* A connection: its billing export, if it has one, and its status. *)
Row == [export : Sources \cup {None}, status : Status]

Batch == [id : BatchId, ingested : Nat, duplicates : Nat]

(* The content of an export, as it was read. *)
Export == [file : Files]

(* The rows of cloud_connection_runs, by run type. The evidence of one is   *)
(* the status it gave the connection, of the other the batch it stored.     *)
Validation == [on : Connections, status : {"succeeded", "failed"},
               connectionStatus : Status \cup {None}]
Ingestion == [on : Connections, status : {"succeeded", "failed"},
              batch : Batch \cup {None}]

Request ==
  [op : {"create"}, tenant : Tenants, on : Connections,
   export : Sources \cup {None}, key : Keys]
    \cup [op : {"validate"}, tenant : Tenants, on : Connections,
          key : Keys \cup {OnceKey}]
    \cup [op : {"ingest"}, tenant : Tenants, on : Connections \cup {None},
          source : Sources, key : BatchKeys \cup PassKey]

Result == [scanned : Nat, validated : Nat, ingested : Nat, failed : Nat]

ASSUME NoneAssumption ==
  /\ None \notin Request \cup Row \cup Batch \cup Export
  /\ None \notin Sources \cup Connections

VARIABLES
  conns,      \* table cloud_connections, None where there is no row
  runs,       \* table cloud_connection_runs
  keys,       \* table governance_idempotency: (tenant, key) of the rows
  batches, records, served,  \* the cost model, as in CostStore
  pc,         \* the next step of each actor
  req,        \* the call each actor is executing
  seen,       \* what its handler holds: a connection, an export, a batch
  listed,     \* exports of the connections a pass has listed
  todo,       \* connections the pass has still to visit
  result,     \* the pass's CloudConnectionSchedulerResult
  passes,     \* passes started so far: the clock of their keys
  registered, \* history: the exports that each connection has had
  probed,     \* history: the export each connection's last validation probed
  applied     \* history: how often each key's operation was carried out

Store == INSTANCE CostStore WITH Keys <- BatchKeys \cup PassKey

governance == <<conns, runs, keys>>
costs == <<batches, records, served>>
scheduler == <<listed, todo, result, passes>>
history == <<registered, probed, applied>>
vars == <<governance, costs, pc, req, seen, scheduler, history>>

TypeOK ==
  /\ conns \in [Connections -> Row \cup {None}]
  /\ runs \subseteq Validation \cup Ingestion
  /\ keys \subseteq Tenants \X Keys
  /\ batches \subseteq Batch
  /\ pc \in [Actors -> {"idle", "begin", "probe", "write", "find", "fetch",
                        "save", "recordDone", "recordFailed", "returned",
                        "threw", "list", "pass", "recordInvalid", "cycles"}]
  /\ req \in [Actors -> Request \cup {None}]
  /\ seen \in [Actors -> Row \cup Export \cup Batch \cup {None}]
  /\ listed \in [Workers ->
       UNION {[S -> Sources \cup {None}] : S \in SUBSET Connections}]
  /\ todo \in [Workers -> SUBSET Connections]
  /\ result \in [Workers -> Result]
  /\ passes \in 0 .. MaxPasses
  /\ registered \subseteq Connections \X (Sources \cup {None})
  /\ probed \in [Connections -> Sources \cup {None}]
  /\ applied \in [Tenants \X Keys -> Nat]

NoResult == [scanned |-> 0, validated |-> 0, ingested |-> 0, failed |-> 0]

(* The rows of table cloud_connections. *)
Existing == {x \in Connections : conns[x] # None}

(* Connections may have been registered before, with keys of their own: as *)
(* many as a table can hold.                                               *)
Init ==
  /\ conns \in [Connections ->
       {None} \cup [export : Sources \cup {None}, status : {"pending_validation"}]]
  /\ IsFiniteSet(Existing)
  /\ runs = {}
  /\ keys = {}
  /\ Store!Init
  /\ pc = [c \in Actors |-> "idle"]
  /\ req = [c \in Actors |-> None]
  /\ seen = [c \in Actors |-> None]
  /\ listed = [w \in Workers |-> [x \in {} |-> None]]
  /\ todo = [w \in Workers |-> {}]
  /\ result = [w \in Workers |-> NoResult]
  /\ passes = 0
  /\ registered = {<<x, conns[x].export>> : x \in Existing}
  /\ probed = [x \in Connections |-> None]
  /\ applied = [k \in Tenants \X Keys |-> 0]
-----------------------------------------------------------------------------
Goto(c, step) == pc' = [pc EXCEPT ![c] = step]

StartCall(c, r) ==
  /\ req' = [req EXCEPT ![c] = r]
  /\ Goto(c, CASE r.op # "ingest" -> "begin"
               [] r.op = "ingest" /\ r.on # None -> "find"
               [] r.op = "ingest" /\ r.on = None -> "fetch")

(* A connection's id is made from its tenant: nobody registers another's. *)
Call(u) ==
  /\ pc[u] = "idle"
  /\ \E r \in Request :
       /\ r.key \in Keys \cup BatchKeys
       /\ r.op = "create" => r.tenant = TenantOf[r.on]
       /\ StartCall(u, r)
  /\ UNCHANGED <<governance, costs, seen, scheduler, history>>

(* The caller's answer; a scheduler looks at it before it goes on. *)
EndCall(c, outcome) ==
  /\ Goto(c, IF c \in Workers THEN outcome ELSE "idle")
  /\ seen' = [seen EXCEPT ![c] = None]
  /\ req' = IF c \in Workers THEN req ELSE [req EXCEPT ![c] = None]

Return(c) == EndCall(c, "returned")
Throw(c) == EndCall(c, "threw")

(* Mutant of Found: WHERE id = $1. *)
FoundOfAnyTenant(r) == conns[r.on] # None

(* WHERE id = $1 AND tenant_id = $2. *)
Found(r) == TenantOf[r.on] = r.tenant /\ conns[r.on] # None
-----------------------------------------------------------------------------
(* createCloudConnection and validateCloudConnection, in withIdempotency. *)

ScopedKey(c) == <<req[c].tenant, req[c].key>>

Replay(c) ==
  /\ pc[c] = "begin"
  /\ ScopedKey(c) \in keys
  /\ Return(c)
  /\ UNCHANGED <<governance, costs, scheduler, history>>

KeyNotFound(c) ==
  /\ pc[c] = "begin"
  /\ ScopedKey(c) \notin keys
  /\ CASE req[c].op = "create" -> Goto(c, "write") /\ UNCHANGED <<seen, req>>
       [] req[c].op = "validate" /\ Found(req[c]) ->
            /\ seen' = [seen EXCEPT ![c] = conns[req[c].on]]
            /\ Goto(c, "probe")
            /\ UNCHANGED req
       [] req[c].op = "validate" /\ ~Found(req[c]) -> Throw(c)
  /\ UNCHANGED <<governance, costs, scheduler, history>>

(* What a probe can find out: without live probes only the shape is checked; *)
(* with them, a connection without export fails, and so may any other.       *)
ProbeResults(row) ==
  {"validation_failed"}
    \cup (IF ~LiveProbes THEN {"ready_for_live_probe"}
          ELSE IF row.export # None THEN {"validated"} ELSE {})

(* probeCloudConnection, awaited inside the transaction. *)
Probe(c) ==
  /\ pc[c] = "probe"
  /\ \E status \in ProbeResults(seen[c]) :
       seen' = [seen EXCEPT ![c].status = status]
  /\ Goto(c, "write")
  /\ UNCHANGED <<governance, costs, req, scheduler, history>>

ValidationRun(on, status) ==
  [on |-> on, connectionStatus |-> status,
   status |-> IF status = "validation_failed" THEN "failed" ELSE "succeeded"]

(* Mutant of SaveValidation: the run shows the status before the UPDATE. *)
SaveValidationOldStatus(c) ==
  LET on == req[c].on
  IN  /\ conns' = [conns EXCEPT ![on].status = seen[c].status]
      /\ runs' = runs \cup {ValidationRun(on, conns[on].status)}
      /\ probed' = [probed EXCEPT ![on] = seen[c].export]
      /\ UNCHANGED registered

(* The UPDATE writes the probe's result to the row as it is by now; its    *)
(* WHERE names only the row.                                               *)
SaveValidation(c) ==
  LET on == req[c].on
  IN  /\ conns' = [conns EXCEPT ![on].status = seen[c].status]
      /\ runs' = runs \cup {ValidationRun(on, seen[c].status)}
      /\ probed' = [probed EXCEPT ![on] = seen[c].export]
      /\ UNCHANGED registered

(* INSERT ... ON CONFLICT DO UPDATE: a new configuration is not validated. *)
SaveConnection(c) ==
  LET on == req[c].on
  IN  /\ conns' = [conns EXCEPT ![on] =
                     [export |-> req[c].export, status |-> "pending_validation"]]
      /\ registered' = registered \cup {<<on, req[c].export>>}
      /\ UNCHANGED <<runs, probed>>

(* Mutant of StoreKey: ON CONFLICT DO NOTHING, as the billing agent has it. *)
StoreKeyOrNothing(c) ==
  IF req[c].key \in Keys
  THEN /\ keys' = keys \cup {ScopedKey(c)}
       /\ applied' = [applied EXCEPT ![ScopedKey(c)] = @ + 1]
  ELSE UNCHANGED <<keys, applied>>

(* INSERT INTO governance_idempotency. A scheduler's key is nobody else's. *)
StoreKey(c) ==
  IF req[c].key \in Keys
  THEN /\ ScopedKey(c) \notin keys
       /\ keys' = keys \cup {ScopedKey(c)}
       /\ applied' = [applied EXCEPT ![ScopedKey(c)] = @ + 1]
  ELSE UNCHANGED <<keys, applied>>

Commit(c) ==
  /\ pc[c] = "write"
  /\ IF req[c].op = "create" THEN SaveConnection(c) ELSE SaveValidation(c)
  /\ StoreKey(c)
  /\ Return(c)
  /\ UNCHANGED <<costs, scheduler>>

(* A call with the same key has committed since: the INSERT fails. *)
KeyTaken(c) ==
  /\ pc[c] = "write"
  /\ ScopedKey(c) \in keys
  /\ Throw(c)
  /\ UNCHANGED <<governance, costs, scheduler, history>>
-----------------------------------------------------------------------------
(* IngestionService.createBatch. *)

FindConnection(c) ==
  /\ pc[c] = "find"
  /\ IF Found(req[c])
     THEN /\ seen' = [seen EXCEPT ![c] = conns[req[c].on]]
          /\ Goto(c, "fetch")
          /\ UNCHANGED req
     ELSE Throw(c)
  /\ UNCHANGED <<governance, costs, scheduler, history>>

(* Mutant of Readable: any export can be read through any connection. *)
ReadableAnywhere(r, row) == r.source \in Remote => row # None

(* An export in a customer's cloud is read only through a connection, as   *)
(* the one it has registered.                                              *)
Readable(r, row) == r.source \in Remote => row # None /\ row.export = r.source

Fetch(c) ==
  /\ pc[c] = "fetch"
  /\ Readable(req[c], seen[c])
  /\ \E read \in Export : seen' = [seen EXCEPT ![c] = read]
  /\ Goto(c, "save")
  /\ UNCHANGED <<governance, costs, req, scheduler, history>>

(* The catch clause: a failed run is recorded if there is a connection. *)
IngestionFails(c) ==
  IF req[c].on # None
  THEN /\ Goto(c, "recordFailed")
       /\ seen' = [seen EXCEPT ![c] = None]
       /\ UNCHANGED req
  ELSE Throw(c)

(* The export is refused, or cannot be read or parsed. *)
FetchFails(c) ==
  /\ pc[c] = "fetch"
  /\ IngestionFails(c)
  /\ UNCHANGED <<governance, costs, scheduler, history>>

IdOf(r) == [tenant |-> r.tenant, key |-> r.key, source |-> r.source]

(* createBatch holds the batch that saveIngestion returned. *)
Holds(c, b) ==
  IF req[c].on = None THEN Return(c)
  ELSE seen' = [seen EXCEPT ![c] = b] /\ Goto(c, "recordDone") /\ UNCHANGED req

Save(c) ==
  /\ pc[c] = "save"
  /\ Store!IngestAndServe(IdOf(req[c]), seen[c].file)
  /\ \E b \in batches' : b.id = IdOf(req[c]) /\ Holds(c, b)
  /\ UNCHANGED <<governance, scheduler, history>>

(* saveIngestion finds the tenant's batch of this key. *)
SaveReplayed(c) ==
  /\ pc[c] = "save"
  /\ \E b \in batches :
       /\ b.id.tenant = req[c].tenant /\ b.id.key = req[c].key
       /\ Store!Serve(b)
       /\ Holds(c, b)
  /\ UNCHANGED <<governance, scheduler, history>>

(* The batch is stored, and the answer to its COMMIT is lost. *)
SaveUnconfirmed(c) ==
  /\ pc[c] = "save"
  /\ Store!IngestUnanswered(IdOf(req[c]), seen[c].file)
  /\ IngestionFails(c)
  /\ UNCHANGED <<governance, scheduler, history>>

SaveFails(c) ==
  /\ pc[c] = "save"
  /\ IngestionFails(c)
  /\ UNCHANGED <<governance, costs, scheduler, history>>

IngestionRun(on, status, batch) ==
  [on |-> on, status |-> status, batch |-> batch]

(* recordCloudConnectionRun, a transaction of its own. Connections are not *)
(* deleted: its own check that the tenant has this one holds.              *)
RecordDone(c) ==
  /\ pc[c] = "recordDone"
  /\ Found(req[c])
  /\ runs' = runs \cup {IngestionRun(req[c].on, "succeeded", seen[c])}
  /\ Return(c)
  /\ UNCHANGED <<conns, keys, costs, scheduler, history>>

RecordFailed(c) ==
  /\ pc[c] = "recordFailed"
  /\ Found(req[c])
  /\ runs' = runs \cup {IngestionRun(req[c].on, "failed", None)}
  /\ Throw(c)
  /\ UNCHANGED <<conns, keys, costs, scheduler, history>>

(* A query fails: what the transaction did is rolled back. *)
QueryFails(c) ==
  /\ pc[c] \in {"begin", "write", "find", "recordDone", "recordFailed"}
  /\ Throw(c)
  /\ UNCHANGED <<governance, costs, scheduler, history>>
-----------------------------------------------------------------------------
(* CloudConnectionSchedulerService. The flag running is pc[w] # "idle": a  *)
(* tick that finds it set returns at once and changes nothing.             *)

Tick(w) ==
  /\ pc[w] = "idle"
  /\ passes < MaxPasses
  /\ passes' = passes + 1
  /\ result' = [result EXCEPT ![w] = NoResult]
  /\ Goto(w, "list")
  /\ UNCHANGED <<governance, costs, req, seen, listed, todo, history>>

ListConnections(w) ==
  /\ pc[w] = "list"
  /\ listed' = [listed EXCEPT ![w] = [x \in Existing |-> conns[x].export]]
  /\ todo' = [todo EXCEPT ![w] = Existing]
  /\ Goto(w, "pass")
  /\ UNCHANGED <<governance, costs, req, seen, result, passes, history>>

(* Mutant of EndPass: running is reset only when a pass succeeds. *)
EndPassWithoutFinally(w, ok) == Goto(w, IF ok THEN "idle" ELSE "running")

(* The finally clause: running is reset whatever happened. *)
EndPass(w, ok) == Goto(w, "idle")

ListFails(w) ==
  /\ pc[w] = "list"
  /\ EndPass(w, FALSE)
  /\ UNCHANGED <<governance, costs, req, seen, scheduler, history>>

Count(w, field) == result' = [result EXCEPT ![w][field] = @ + 1]

(* The loop over the connections: validate first. *)
NextConnection(w) ==
  /\ pc[w] = "pass"
  /\ \E x \in todo[w] :
       /\ todo' = [todo EXCEPT ![w] = @ \ {x}]
       /\ StartCall(w, [op |-> "validate", tenant |-> TenantOf[x], on |-> x,
                        key |-> OnceKey])
  /\ Count(w, "scanned")
  /\ UNCHANGED <<governance, costs, seen, listed, passes, history>>

(* On to the next connection. *)
NextOfPass(w) == Goto(w, "pass") /\ req' = [req EXCEPT ![w] = None]

(* Then ingest what was listed, whether or not the validation succeeded. *)
IngestNext(w) ==
  LET x == req[w].on
  IN  IF IngestionEnabled /\ listed[w][x] # None
      THEN StartCall(w, [op |-> "ingest", tenant |-> TenantOf[x], on |-> x,
                         source |-> listed[w][x],
                         key |-> [pass |-> passes, on |-> x]])
      ELSE NextOfPass(w)

Validated(w) ==
  /\ pc[w] = "returned" /\ req[w].op = "validate"
  /\ Count(w, "validated")
  /\ IngestNext(w)
  /\ UNCHANGED <<governance, costs, seen, listed, todo, passes, history>>

ValidationThrew(w) ==
  /\ pc[w] = "threw" /\ req[w].op = "validate"
  /\ Goto(w, "recordInvalid")
  /\ UNCHANGED <<governance, costs, req, seen, scheduler, history>>

RecordInvalid(w) ==
  /\ pc[w] = "recordInvalid"
  /\ Found(req[w])
  /\ runs' = runs \cup {[on |-> req[w].on, status |-> "failed",
                         connectionStatus |-> None]}
  /\ Count(w, "failed")
  /\ IngestNext(w)
  /\ UNCHANGED <<conns, keys, costs, seen, listed, todo, passes, history>>

(* Mutant of RecordInvalidFails: the exception ends the pass. *)
RecordInvalidEndsPass(w) ==
  /\ pc[w] = "recordInvalid"
  /\ Goto(w, "cycles") /\ req' = [req EXCEPT ![w] = None]
  /\ todo' = [todo EXCEPT ![w] = {}]
  /\ Count(w, "failed")
  /\ UNCHANGED <<governance, costs, seen, listed, passes, history>>

(* The catch clause of the loop: this connection is skipped. *)
RecordInvalidFails(w) ==
  /\ pc[w] = "recordInvalid"
  /\ NextOfPass(w)
  /\ Count(w, "failed")
  /\ UNCHANGED <<governance, costs, seen, listed, todo, passes, history>>

Ingested(w) ==
  /\ pc[w] \in {"returned", "threw"} /\ req[w].op = "ingest"
  /\ Count(w, IF pc[w] = "returned" THEN "ingested" ELSE "failed")
  /\ NextOfPass(w)
  /\ UNCHANGED <<governance, costs, seen, listed, todo, passes, history>>

(* runBillingAgentCycles, for every tenant of the list: it never throws.   *)
RunCycles(w) ==
  /\ pc[w] = "pass" /\ todo[w] = {}
  /\ Goto(w, "cycles")
  /\ UNCHANGED <<governance, costs, req, seen, scheduler, history>>

FinishPass(w) ==
  /\ pc[w] = "cycles"
  /\ EndPass(w, TRUE)
  /\ UNCHANGED <<governance, costs, req, seen, scheduler, history>>

(* The process dies; a new worker starts its first pass at once. *)
Crash(c) ==
  /\ pc[c] # "idle"
  /\ Goto(c, "idle")
  /\ req' = [req EXCEPT ![c] = None]
  /\ seen' = [seen EXCEPT ![c] = None]
  /\ todo' = IF c \in Workers THEN [todo EXCEPT ![c] = {}] ELSE todo
  /\ UNCHANGED <<governance, costs, listed, result, passes, history>>
-----------------------------------------------------------------------------
CallStep(c) ==
  \/ Replay(c) \/ KeyNotFound(c) \/ Probe(c) \/ Commit(c) \/ KeyTaken(c)
  \/ FindConnection(c) \/ Fetch(c) \/ FetchFails(c)
  \/ Save(c) \/ SaveReplayed(c) \/ RecordDone(c) \/ RecordFailed(c)

Fault(c) == SaveUnconfirmed(c) \/ SaveFails(c) \/ QueryFails(c)

PassStep(w) ==
  \/ ListConnections(w) \/ ListFails(w) \/ NextConnection(w) \/ Validated(w)
  \/ ValidationThrew(w) \/ RecordInvalid(w) \/ RecordInvalidFails(w)
  \/ Ingested(w) \/ RunCycles(w) \/ FinishPass(w)

Next ==
  \/ \E u \in Users : Call(u)
  \/ \E w \in Workers : Tick(w) \/ PassStep(w)
  \/ \E c \in Actors : CallStep(c) \/ Fault(c) \/ Crash(c)

Spec == Init /\ [][Next]_vars

(***************************************************************************)
(* Queries, provider probes and export reads are answered, one way or the  *)
(* other: whatever is in progress takes its next step. Nothing makes       *)
(* callers call or the timer fire.                                         *)
(***************************************************************************)
Fairness ==
  /\ \A c \in Actors : WF_vars(CallStep(c))
  /\ \A w \in Workers : WF_vars(PassStep(w))

FairSpec == Spec /\ Fairness
-----------------------------------------------------------------------------
(* A key's operation is carried out once, also when two calls looked the    *)
(* key up before either of them stored it: one of them is rolled back.      *)
KeyAppliesOnce == \A k \in Tenants \X Keys : applied[k] <= 1

(* A connection's status is always explained by a run in the ledger: the    *)
(* two are written together, whatever is registered or fails in between.    *)
StatusHasRun ==
  \A x \in Connections :
    conns[x] # None /\ conns[x].status # "pending_validation" =>
      ValidationRun(x, conns[x].status) \in runs

(* A run that says it succeeded names a stored batch of its own tenant,     *)
(* with the counts that batch has.                                          *)
RunHasBatch ==
  \A run \in runs \cap Ingestion : run.status = "succeeded" =>
    run.batch \in batches /\ run.batch.id.tenant = TenantOf[run.on]

(* Rows from a customer's cloud come from an export that some connection of *)
(* the same tenant had registered, though connections are re-registered     *)
(* while their exports are read.                                            *)
IngestedWasRegistered ==
  \A b \in batches : b.id.source \in Remote =>
    \E x \in Connections :
      TenantOf[x] = b.id.tenant /\ <<x, b.id.source>> \in registered

(* One connection's failure does not hide another: a pass that gets to its  *)
(* end has visited every connection it listed and counted what became of it. *)
PassVisitsAll ==
  \A w \in Workers : pc[w] = "cycles" =>
    LET r == result[w]
    IN  /\ r.scanned = Cardinality(DOMAIN listed[w])
        /\ r.scanned <= r.validated + r.failed
        /\ r.validated + r.ingested + r.failed <= 2 * r.scanned

(* Every call and every pass ends, whatever fails in it: the scheduler's    *)
(* running flag is always reset.                                            *)
ActorsEnd == \A c \in Actors : pc[c] # "idle" ~> pc[c] = "idle"

(***************************************************************************)
(* What a call or pass in progress relies on, and the inductive invariant  *)
(* of which the properties above are parts.                                *)
(***************************************************************************)

(* A call has a request of the kind its step is for; only a scheduler waits *)
(* for the end of a call, and only for calls on connections it listed.      *)
CallsFormed ==
  \A c \in Actors :
    /\ pc[c] \in {"begin", "probe", "write", "find", "fetch", "save",
                  "recordDone", "recordFailed", "returned", "threw",
                  "recordInvalid"} => req[c] \in Request
    /\ pc[c] \in {"begin", "write"} => req[c].op \in {"create", "validate"}
    /\ pc[c] = "probe" => req[c].op = "validate"
    /\ pc[c] \in {"find", "fetch", "save", "recordDone", "recordFailed"} =>
         req[c].op = "ingest"
    /\ pc[c] \in {"find", "recordDone", "recordFailed"} => req[c].on # None
    /\ pc[c] \in {"returned", "threw", "recordInvalid", "list", "pass", "cycles"} =>
         c \in Workers
    /\ pc[c] = "recordInvalid" => req[c].op = "validate"

PassesFormed ==
  \A w \in Workers :
    /\ todo[w] \subseteq DOMAIN listed[w]
    /\ pc[w] # "idle" => passes # 0
    /\ pc[w] \notin {"idle", "list", "pass", "cycles"} =>
         req[w].op # "create" /\ req[w].on \in DOMAIN listed[w]

(* What a call has read: connections stay, and so do their registrations.   *)
CallsRead ==
  \A c \in Actors :
    /\ c \in Users /\ pc[c] = "idle" => seen[c] = None
    /\ pc[c] = "probe" \/ (pc[c] = "write" /\ req[c].op = "validate") =>
         seen[c] \in Row /\ conns[req[c].on] # None
    /\ pc[c] = "fetch" /\ req[c].on = None => seen[c] = None
    /\ pc[c] \in {"fetch", "save", "recordDone"} /\ req[c].on # None =>
         TenantOf[req[c].on] = req[c].tenant
    /\ pc[c] = "fetch" /\ req[c].on # None =>
         seen[c] \in Row /\ <<req[c].on, seen[c].export>> \in registered
    /\ pc[c] = "save" =>
         /\ seen[c] \in Export
         /\ req[c].source \in Remote =>
              req[c].on # None /\ <<req[c].on, req[c].source>> \in registered
    /\ pc[c] = "recordDone" =>
         seen[c] \in batches /\ seen[c].id.tenant = req[c].tenant

(* The registered export of a connection is one it had registered.          *)
RowsRegistered ==
  \A x \in Connections : conns[x] # None => <<x, conns[x].export>> \in registered

(* A key is stored by the one call that carried it out.                     *)
AppliedIsStored ==
  \A k \in Tenants \X Keys : applied[k] = IF k \in keys THEN 1 ELSE 0

Inv ==
  /\ CallsFormed /\ PassesFormed /\ CallsRead /\ RowsRegistered
  /\ AppliedIsStored /\ StatusHasRun /\ RunHasBatch /\ IngestedWasRegistered

(* The call that a pass makes for the connection it is at. *)
InCall(w, op) ==
  pc[w] \notin {"idle", "list", "pass", "cycles"} /\ req[w].op = op

(* A pass has counted an outcome of each validation that has ended, and    *)
(* one or two for each connection it is done with.                         *)
PassCounted(w) ==
  LET r == result[w]
      validating == IF InCall(w, "validate") THEN 1 ELSE 0
      ingesting == IF InCall(w, "ingest") THEN 1 ELSE 0
  IN  /\ pc[w] = "list" => r = NoResult
      /\ pc[w] \notin {"idle", "list"} =>
           /\ IsFiniteSet(DOMAIN listed[w])
           /\ r.scanned + Cardinality(todo[w]) = Cardinality(DOMAIN listed[w])
           /\ r.scanned <= r.validated + r.failed + validating
           /\ r.validated + r.ingested + r.failed + 2 * validating + ingesting
                <= 2 * r.scanned
      /\ pc[w] = "cycles" => todo[w] = {}

PassesCounted == IsFiniteSet(Existing) /\ \A w \in Workers : PassCounted(w)

(* A validated connection has been probed as it is registered. *)
ValidatedIsProbed ==
  \A x \in Connections :
    conns[x] # None /\ conns[x].status = "validated" =>
      probed[x] = conns[x].export

(* All work of the scheduler is in the ledger by the time its pass ends.    *)
ScheduledIsRecorded ==
  (\E w \in Workers : pc[w] = "cycles") =>
    \A b \in batches : b.id.key \in PassKey =>
      IngestionRun(b.id.key.on, "succeeded", b) \in runs
=============================================================================
