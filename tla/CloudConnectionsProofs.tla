----------------------- MODULE CloudConnectionsProofs -----------------------
(***************************************************************************)
(* TLAPS proofs of CloudConnections: for any number of callers, workers,   *)
(* tenants, connections, exports and keys, and any bound on passes.        *)
(***************************************************************************)
EXTENDS CloudConnections, FiniteSetTheorems, TLAPS

USE TenantOfAssumption, ActorsAssumption, FilesAssumption, ConfigAssumption,
    NoneAssumption

LEMMA RequestFacts ==
  ASSUME NEW r \in Request
  PROVE  /\ r.op \in {"create", "validate", "ingest"} /\ r.tenant \in Tenants
         /\ r.op = "create" =>
              /\ r.on \in Connections /\ r.export \in Sources \cup {None}
              /\ r.key \in Keys
         /\ r.op = "validate" => r.on \in Connections /\ r.key \in Keys \cup {OnceKey}
         /\ r.op = "ingest" =>
              /\ r.on \in Connections \cup {None} /\ r.source \in Sources
              /\ r.key \in BatchKeys \cup PassKey
BY DEF Request

LEMMA NoneIsNoRow == \A row \in Row : row # None
OBVIOUS

LEMMA NoneIsNoConnection == \A x \in Connections : x # None
OBVIOUS

Steps == {"idle", "begin", "probe", "write", "find", "fetch", "save",
          "recordDone", "recordFailed", "returned", "threw", "list", "pass",
          "recordInvalid", "cycles"}

LEMMA InvInit == Init => TypeOK /\ Inv
<1> SUFFICES ASSUME Init PROVE TypeOK /\ Inv
  OBVIOUS
<1>1. TypeOK
  <2>1. conns \in [Connections -> Row \cup {None}]
    BY DEF Init, Row, Status
  <2>2. registered \subseteq Connections \X (Sources \cup {None})
    BY <2>1 DEF Init, Row, Existing
  <2>3. \A w \in Workers : listed[w] \in [{} -> Sources \cup {None}]
    BY DEF Init
  <2>4. result \in [Workers -> Result]
    BY DEF Init, NoResult, Result
  <2>5. batches = {}
    BY DEF Init, Store!Init
  <2>6. listed \in [Workers ->
          UNION {[S -> Sources \cup {None}] : S \in SUBSET Connections}]
    BY <2>3 DEF Init
  <2>7. probed \in [Connections -> Sources \cup {None}] /\ passes \in 0 .. MaxPasses
    BY DEF Init
  <2>8. /\ pc \in [Actors -> Steps] /\ req \in [Actors -> Request \cup {None}]
        /\ seen \in [Actors -> Row \cup Export \cup Batch \cup {None}]
        /\ todo \in [Workers -> SUBSET Connections]
        /\ applied \in [Tenants \X Keys -> Nat]
    BY DEF Init, Steps
  <2>9. runs \subseteq Validation \cup Ingestion /\ keys \subseteq Tenants \X Keys
    BY DEF Init
  <2> QED BY <2>1, <2>2, <2>4, <2>5, <2>6, <2>7, <2>8, <2>9 DEF TypeOK, Steps
<1>2. CallsFormed /\ PassesFormed /\ CallsRead
  <2>1. \A c \in Actors : pc[c] = "idle" /\ seen[c] = None
    BY DEF Init
  <2>2. \A w \in Workers : w \in Actors /\ todo[w] = {}
    BY DEF Init, Actors
  <2> QED BY <2>1, <2>2 DEF CallsFormed, PassesFormed, CallsRead
<1>3. RowsRegistered
  BY DEF Init, RowsRegistered, Existing
<1>4. AppliedIsStored
  BY DEF Init, AppliedIsStored
<1>5. StatusHasRun
  <2>1. \A x \in Connections : conns[x] # None => conns[x].status = "pending_validation"
    BY DEF Init
  <2> QED BY <2>1 DEF StatusHasRun
<1>6. RunHasBatch /\ IngestedWasRegistered
  BY DEF Init, Store!Init, RunHasBatch, IngestedWasRegistered
<1> QED BY <1>1, <1>2, <1>3, <1>4, <1>5, <1>6 DEF Inv
-----------------------------------------------------------------------------
(* What a call that starts, or ends, does to its own state. *)
LEMMA StartCallEffect ==
  ASSUME TypeOK, NEW c \in Actors, NEW r \in Request, StartCall(c, r)
  PROVE  /\ pc' \in [Actors -> Steps] /\ req' \in [Actors -> Request \cup {None}]
         /\ req'[c] = r
         /\ pc'[c] = CASE r.op # "ingest" -> "begin"
                       [] r.op = "ingest" /\ r.on # None -> "find"
                       [] r.op = "ingest" /\ r.on = None -> "fetch"
         /\ \A d \in Actors \ {c} : pc'[d] = pc[d] /\ req'[d] = req[d]
BY RequestFacts DEF StartCall, Goto, TypeOK, Steps

LEMMA EndCallEffect ==
  ASSUME TypeOK, NEW c \in Actors,
         NEW outcome \in {"returned", "threw"}, EndCall(c, outcome)
  PROVE  /\ pc' \in [Actors -> Steps] /\ req' \in [Actors -> Request \cup {None}]
         /\ seen' \in [Actors -> Row \cup Export \cup Batch \cup {None}]
         /\ pc'[c] = IF c \in Workers THEN outcome ELSE "idle"
         /\ c \in Workers => req'[c] = req[c]
         /\ seen'[c] = None
         /\ \A d \in Actors \ {c} :
              pc'[d] = pc[d] /\ req'[d] = req[d] /\ seen'[d] = seen[d]
BY DEF EndCall, Goto, TypeOK, Steps

(* The batch that a new ingestion stores. *)
LEMMA StoreCardinality == \A S : Store!Cardinality(S) = Cardinality(S)
BY Zenon DEF Store!Cardinality, Cardinality, Store!IsFiniteSet, IsFiniteSet

LEMMA FreshCounts ==
  ASSUME NEW t, NEW file \in Files
  PROVE  /\ Cardinality(Store!Fresh(t, file)) \in Nat
         /\ Len(file) - Cardinality(Store!Fresh(t, file)) \in Nat
<1>1. file \in Seq(Fps) /\ Len(file) \in Nat /\ DOMAIN file = 1 .. Len(file)
  OBVIOUS
<1> DEFINE n == Len(file)
           rowsOf == Store!RowsOf(file)
           f == [i \in 1 .. n |-> file[i]]
<1>2. f \in Surjection(1 .. n, rowsOf)
  BY <1>1 DEF Surjection, Store!RowsOf
<1>3. IsFiniteSet(1 .. n) /\ Cardinality(1 .. n) = n
  <2>1. 1 \in Int /\ n \in Int /\ n >= 0
    BY <1>1
  <2>2. /\ IsFiniteSet(1 .. n)
        /\ Cardinality(1 .. n) = IF 1 > n THEN 0 ELSE n - 1 + 1
    BY <2>1, FS_Interval, Zenon
  <2> QED BY <2>1, <2>2
<1>4. IsFiniteSet(rowsOf) /\ Cardinality(rowsOf) <= n
  BY <1>2, <1>3, FS_Surjection
<1>5. Store!Fresh(t, file) \in SUBSET rowsOf
  BY DEF Store!Fresh
<1>6. /\ IsFiniteSet(Store!Fresh(t, file))
      /\ Cardinality(Store!Fresh(t, file)) <= Cardinality(rowsOf)
  BY <1>4, <1>5, FS_Subset
<1>7. /\ Cardinality(Store!Fresh(t, file)) \in Nat
      /\ Cardinality(rowsOf) \in Nat
  BY <1>4, <1>6, FS_CardinalityType
<1> QED BY <1>1, <1>4, <1>6, <1>7

LEMMA IngestFacts ==
  ASSUME TypeOK, NEW id \in BatchId, NEW file \in Files, Store!Ingest(id, file)
  PROVE  /\ batches' \subseteq Batch /\ batches \subseteq batches'
         /\ \A b \in batches' \ batches : b.id = id
<1> DEFINE n == Cardinality(Store!Fresh(id.tenant, file))
           new == [id |-> id, ingested |-> n, duplicates |-> Len(file) - n]
<1>1. batches' = batches \cup {new}
  BY StoreCardinality DEF Store!Ingest
<1>2. new \in Batch
  BY FreshCounts DEF Batch
<1> QED BY <1>1, <1>2 DEF TypeOK
-----------------------------------------------------------------------------
LEMMA StoreKeyType ==
  ASSUME TypeOK, NEW c \in Actors, req[c] \in Request,
         req[c].op \in {"create", "validate"}, StoreKey(c)
  PROVE  keys' \subseteq Tenants \X Keys /\ applied' \in [Tenants \X Keys -> Nat]
<1>1. req[c].key \in Keys => ScopedKey(c) \in Tenants \X Keys
  BY RequestFacts DEF ScopedKey
<1> QED BY <1>1 DEF StoreKey, TypeOK

LEMMA CommitType ==
  ASSUME TypeOK, Inv, NEW c \in Actors, Commit(c)
  PROVE  TypeOK'
<1> DEFINE on == req[c].on
<1>1. /\ pc[c] = "write" /\ req[c] \in Request
      /\ req[c].op \in {"create", "validate"} /\ on \in Connections
      /\ req[c].tenant \in Tenants
      /\ req[c].op = "validate" => seen[c] \in Row /\ conns[on] \in Row
  <2>1. /\ pc[c] = "write" /\ req[c] \in Request
        /\ req[c].op \in {"create", "validate"}
        /\ req[c].op = "validate" => seen[c] \in Row /\ conns[on] # None
    BY DEF Commit, Inv, CallsFormed, CallsRead
  <2>2. on \in Connections /\ req[c].tenant \in Tenants
    BY <2>1, RequestFacts
  <2> QED BY <2>1, <2>2 DEF TypeOK
<1>2. CASE req[c].op = "create"
  <2>1. req[c].export \in Sources \cup {None}
    BY <1>1, <1>2, RequestFacts
  <2>2. SaveConnection(c)
    BY <1>2 DEF Commit
  <2>3. [export |-> req[c].export, status |-> "pending_validation"] \in Row
    BY <2>1 DEF Row, Status
  <2>4. conns' \in [Connections -> Row \cup {None}]
    BY <1>1, <2>2, <2>3 DEF SaveConnection, TypeOK
  <2>5. registered' \subseteq Connections \X (Sources \cup {None})
    BY <1>1, <2>1, <2>2 DEF SaveConnection, TypeOK
  <2> QED BY <1>1, <2>2, <2>4, <2>5, StoreKeyType, EndCallEffect
          DEF Commit, SaveConnection, Return, TypeOK, costs, scheduler, Steps
<1>3. CASE req[c].op = "validate"
  <2>1. SaveValidation(c)
    BY <1>3 DEF Commit
  <2>2. seen[c] \in Row /\ conns[on] \in Row
    BY <1>1, <1>3
  <2>3. [conns[on] EXCEPT !.status = seen[c].status] \in Row
    BY <2>2 DEF Row
  <2>4. conns' \in [Connections -> Row \cup {None}]
    BY <1>1, <2>1, <2>3 DEF SaveValidation, TypeOK
  <2>5. ValidationRun(on, seen[c].status) \in Validation
    BY <1>1, <2>2 DEF ValidationRun, Validation, Row
  <2>6. runs' \subseteq Validation \cup Ingestion
    BY <2>1, <2>5 DEF SaveValidation, TypeOK
  <2>7. probed' \in [Connections -> Sources \cup {None}]
    BY <1>1, <2>1, <2>2 DEF SaveValidation, TypeOK, Row
  <2> QED BY <1>1, <2>1, <2>4, <2>6, <2>7, StoreKeyType, EndCallEffect
          DEF Commit, SaveValidation, Return, TypeOK, costs, scheduler, Steps
<1> QED BY <1>1, <1>2, <1>3

LEMMA IngestFailsEffect ==
  ASSUME TypeOK, NEW c \in Actors, IngestionFails(c)
  PROVE  /\ pc' \in [Actors -> Steps] /\ req' \in [Actors -> Request \cup {None}]
         /\ seen' \in [Actors -> Row \cup Export \cup Batch \cup {None}]
         /\ req[c].on # None => pc'[c] = "recordFailed" /\ req'[c] = req[c]
         /\ req[c].on = None => pc'[c] = IF c \in Workers THEN "threw" ELSE "idle"
         /\ c \in Workers => req'[c] = req[c]
         /\ \A d \in Actors \ {c} :
              pc'[d] = pc[d] /\ req'[d] = req[d] /\ seen'[d] = seen[d]
<1>1. CASE req[c].on # None
  BY <1>1 DEF IngestionFails, Goto, TypeOK, Steps
<1>2. CASE req[c].on = None
  BY <1>2, EndCallEffect DEF IngestionFails, Throw
<1> QED BY <1>1, <1>2

LEMMA HoldsEffect ==
  ASSUME TypeOK, NEW c \in Actors, NEW b \in Batch, Holds(c, b)
  PROVE  /\ pc' \in [Actors -> Steps] /\ req' \in [Actors -> Request \cup {None}]
         /\ seen' \in [Actors -> Row \cup Export \cup Batch \cup {None}]
         /\ req[c].on # None =>
              pc'[c] = "recordDone" /\ req'[c] = req[c] /\ seen'[c] = b
         /\ req[c].on = None => pc'[c] = IF c \in Workers THEN "returned" ELSE "idle"
         /\ c \in Workers => req'[c] = req[c]
         /\ \A d \in Actors \ {c} :
              pc'[d] = pc[d] /\ req'[d] = req[d] /\ seen'[d] = seen[d]
<1>1. CASE req[c].on # None
  <2>1. /\ seen' = [seen EXCEPT ![c] = b] /\ req' = req
        /\ pc' = [pc EXCEPT ![c] = "recordDone"]
    BY <1>1 DEF Holds, Goto
  <2>2. seen' \in [Actors -> Row \cup Export \cup Batch \cup {None}]
    BY <2>1 DEF TypeOK
  <2> QED BY <1>1, <2>1, <2>2 DEF TypeOK, Steps
<1>2. CASE req[c].on = None
  BY <1>2, EndCallEffect DEF Holds, Return
<1> QED BY <1>1, <1>2

LEMMA SaveFacts ==
  ASSUME TypeOK, Inv, NEW c \in Actors, pc[c] = "save"
  PROVE  /\ req[c] \in Request /\ req[c].op = "ingest"
         /\ IdOf(req[c]) \in BatchId /\ seen[c].file \in Files
<1>1. /\ req[c] \in Request /\ req[c].op = "ingest" /\ seen[c] \in Export
  BY DEF Inv, CallsFormed, CallsRead
<1> QED BY <1>1, RequestFacts DEF IdOf, BatchId, Export
-----------------------------------------------------------------------------
(* A step that changes no more than the state of its call. *)
LEMMA LocalType ==
  ASSUME TypeOK, UNCHANGED <<governance, batches, scheduler, history>>,
         pc' \in [Actors -> Steps], req' \in [Actors -> Request \cup {None}],
         seen' \in [Actors -> Row \cup Export \cup Batch \cup {None}]
  PROVE  TypeOK'
BY DEF TypeOK, governance, scheduler, history, Steps

LEMMA CallType ==
  ASSUME TypeOK, Inv, NEW c \in Actors, CallStep(c) \/ Fault(c)
  PROVE  TypeOK'
<1> USE DEF costs
<1>1. CASE Replay(c) \/ KeyTaken(c) \/ QueryFails(c)
  BY <1>1, EndCallEffect, LocalType DEF Replay, KeyTaken, QueryFails, Return, Throw
<1>2. CASE KeyNotFound(c)
  <2>1. CASE req[c].op = "create"
    BY <1>2, <2>1, LocalType DEF KeyNotFound, Goto, TypeOK, Steps
  <2>2. CASE req[c].op = "validate" /\ Found(req[c])
    <3>1. req[c].on \in Connections
      BY <1>2, <2>2, RequestFacts DEF KeyNotFound, Inv, CallsFormed
    <3>2. conns[req[c].on] \in Row
      BY <2>2, <3>1 DEF Found, TypeOK
    <3> QED BY <1>2, <2>2, <3>2, LocalType DEF KeyNotFound, Goto, TypeOK, Steps
  <2>3. CASE req[c].op = "validate" /\ ~Found(req[c])
    BY <1>2, <2>3, EndCallEffect, LocalType DEF KeyNotFound, Throw
  <2>4. req[c].op \in {"create", "validate"}
    BY <1>2 DEF KeyNotFound, Inv, CallsFormed
  <2> QED BY <2>1, <2>2, <2>3, <2>4
<1>3. CASE Probe(c)
  <2>1. seen[c] \in Row
    BY <1>3 DEF Probe, Inv, CallsRead
  <2>2. PICK status \in ProbeResults(seen[c]) : seen' = [seen EXCEPT ![c].status = status]
    BY <1>3 DEF Probe
  <2>3. status \in Status
    BY <2>2 DEF ProbeResults, Status
  <2>4. [seen[c] EXCEPT !.status = status] \in Row
    BY <2>1, <2>3 DEF Row
  <2>5. seen' \in [Actors -> Row \cup Export \cup Batch \cup {None}]
    BY <2>2, <2>4 DEF TypeOK
  <2> QED BY <1>3, <2>5, LocalType DEF Probe, Goto, TypeOK, Steps
<1>4. CASE Commit(c)
  BY <1>4, CommitType
<1>5. CASE FindConnection(c)
  <2>1. CASE Found(req[c])
    <3>1. req[c].on \in Connections
      BY <1>5, RequestFacts DEF FindConnection, Inv, CallsFormed
    <3>2. conns[req[c].on] \in Row
      BY <2>1, <3>1 DEF Found, TypeOK
    <3> QED BY <1>5, <2>1, <3>2, LocalType DEF FindConnection, Goto, TypeOK, Steps
  <2>2. CASE ~Found(req[c])
    BY <1>5, <2>2, EndCallEffect, LocalType DEF FindConnection, Throw
  <2> QED BY <2>1, <2>2
<1>6. CASE Fetch(c)
  BY <1>6, LocalType DEF Fetch, Goto, TypeOK, Steps
<1>7. CASE FetchFails(c) \/ SaveFails(c)
  BY <1>7, IngestFailsEffect, LocalType DEF FetchFails, SaveFails
<1>8. CASE Save(c)
  <2>1. batches' \subseteq Batch
    BY <1>8, SaveFacts, IngestFacts DEF Save, Store!IngestAndServe
  <2>2. PICK b \in batches' : Holds(c, b)
    BY <1>8 DEF Save
  <2> QED BY <1>8, <2>1, <2>2, HoldsEffect
          DEF Save, TypeOK, Steps, governance, scheduler, history
<1>9. CASE SaveReplayed(c)
  <2>1. PICK b \in batches : Store!Serve(b) /\ Holds(c, b)
    BY <1>9 DEF SaveReplayed
  <2>2. b \in Batch /\ batches' = batches
    BY <2>1 DEF TypeOK, Store!Serve
  <2> QED BY <1>9, <2>1, <2>2, HoldsEffect, LocalType DEF SaveReplayed
<1>10. CASE SaveUnconfirmed(c)
  <2>1. batches' \subseteq Batch
    BY <1>10, SaveFacts, IngestFacts DEF SaveUnconfirmed, Store!IngestUnanswered
  <2> QED BY <1>10, <2>1, IngestFailsEffect
          DEF SaveUnconfirmed, TypeOK, Steps, governance, scheduler, history
<1>11. CASE RecordDone(c)
  <2>1. /\ req[c].on \in Connections /\ seen[c] \in Batch
    BY <1>11, RequestFacts DEF RecordDone, Inv, CallsFormed, CallsRead, TypeOK
  <2>2. IngestionRun(req[c].on, "succeeded", seen[c]) \in Ingestion
    BY <2>1 DEF IngestionRun, Ingestion
  <2> QED BY <1>11, <2>2, EndCallEffect
          DEF RecordDone, Return, TypeOK, Steps, scheduler, history
<1>12. CASE RecordFailed(c)
  <2>1. req[c].on \in Connections
    BY <1>12, RequestFacts DEF RecordFailed, Inv, CallsFormed
  <2>2. IngestionRun(req[c].on, "failed", None) \in Ingestion
    BY <2>1 DEF IngestionRun, Ingestion
  <2> QED BY <1>12, <2>2, EndCallEffect
          DEF RecordFailed, Throw, TypeOK, Steps, scheduler, history
<1> QED
  BY <1>1, <1>2, <1>3, <1>4, <1>5, <1>6, <1>7, <1>8, <1>9, <1>10, <1>11, <1>12
  DEF CallStep, Fault

LEMMA CountType ==
  ASSUME TypeOK, NEW w \in Workers,
         NEW field \in {"scanned", "validated", "ingested", "failed"}, Count(w, field)
  PROVE  result' \in [Workers -> Result]
<1>1. PICK r \in Result : r = result[w]
  BY DEF TypeOK
<1>2. [r EXCEPT ![field] = @ + 1] \in Result
  <2>1. CASE field = "scanned"
    BY <2>1 DEF Result
  <2>2. CASE field = "validated"
    BY <2>2 DEF Result
  <2>3. CASE field = "ingested"
    BY <2>3 DEF Result
  <2>4. CASE field = "failed"
    BY <2>4 DEF Result
  <2> QED BY <2>1, <2>2, <2>3, <2>4
<1>3. result' = [result EXCEPT ![w] = [r EXCEPT ![field] = @ + 1]]
  BY <1>1 DEF Count
<1> QED BY <1>2, <1>3 DEF TypeOK

(* After a validation, a pass ingests or goes on to the next connection. *)
LEMMA IngestNextEffect ==
  ASSUME TypeOK, Inv, NEW w \in Workers, req[w].on \in DOMAIN listed[w],
         pc[w] # "idle", IngestNext(w)
  PROVE  /\ pc' \in [Actors -> Steps] /\ req' \in [Actors -> Request \cup {None}]
         /\ \A d \in Actors \ {w} : pc'[d] = pc[d] /\ req'[d] = req[d]
         /\ \/ pc'[w] = "pass"
            \/ /\ pc'[w] = "find" /\ req'[w] \in Request /\ req'[w].op = "ingest"
               /\ req'[w].on = req[w].on /\ req[w].on # None
<1> DEFINE x == req[w].on
           r == [op |-> "ingest", tenant |-> TenantOf[x], on |-> x,
                 source |-> listed[w][x], key |-> [pass |-> passes, on |-> x]]
<1>1. w \in Actors
  BY DEF Actors
<1>2. x \in Connections /\ listed[w][x] \in Sources \cup {None}
  BY DEF TypeOK
<1>3. passes \in 1 .. MaxPasses
  BY DEF TypeOK, Inv, PassesFormed
<1>4. CASE IngestionEnabled /\ listed[w][x] # None
  <2>1. r \in Request
    BY <1>2, <1>3, <1>4 DEF Request, PassKey
  <2>2. StartCall(w, r)
    BY <1>4 DEF IngestNext
  <2> QED BY <1>1, <1>2, <2>1, <2>2, StartCallEffect
<1>5. CASE ~(IngestionEnabled /\ listed[w][x] # None)
  BY <1>1, <1>5 DEF IngestNext, NextOfPass, Goto, TypeOK, Steps
<1> QED BY <1>4, <1>5

LEMMA PassType ==
  ASSUME TypeOK, Inv, NEW w \in Workers, Tick(w) \/ PassStep(w)
  PROVE  TypeOK'
<1> USE DEF costs
<1>1. w \in Actors
  BY DEF Actors
<1>2. CASE Tick(w)
  <2>1. result' \in [Workers -> Result] /\ passes' \in 0 .. MaxPasses
    BY <1>2 DEF Tick, TypeOK, NoResult, Result
  <2> QED BY <1>1, <1>2, <2>1 DEF Tick, Goto, TypeOK, governance, history
<1>3. CASE ListConnections(w)
  <2> DEFINE new == [x \in Existing |-> conns[x].export]
             Lists == UNION {[S -> Sources \cup {None}] : S \in SUBSET Connections}
  <2>1. \A x \in Existing : conns[x].export \in Sources \cup {None}
    BY DEF TypeOK, Row, Existing
  <2>2. new \in [Existing -> Sources \cup {None}] /\ Existing \in SUBSET Connections
    BY <2>1 DEF Existing
  <2>3. listed' = [listed EXCEPT ![w] = new] /\ todo' = [todo EXCEPT ![w] = Existing]
    BY <1>3 DEF ListConnections
  <2>4. listed' \in [Workers -> Lists]
    <3>1. new \in Lists
      BY <2>2
    <3>2. listed \in [Workers -> Lists]
      BY DEF TypeOK
    <3> HIDE DEF new, Lists
    <3> QED BY <2>3, <3>1, <3>2
  <2>5. todo' \in [Workers -> SUBSET Connections]
    BY <2>2, <2>3 DEF TypeOK
  <2> QED BY <1>1, <1>3, <2>4, <2>5
          DEF ListConnections, Goto, TypeOK, governance, history
<1>4. CASE ListFails(w) \/ RunCycles(w) \/ FinishPass(w) \/ ValidationThrew(w)
  BY <1>1, <1>4, LocalType
  DEF ListFails, RunCycles, FinishPass, ValidationThrew, EndPass, Goto, TypeOK, Steps
<1>5. CASE NextConnection(w)
  <2>1. PICK x \in todo[w] :
          /\ todo' = [todo EXCEPT ![w] = @ \ {x}]
          /\ StartCall(w, [op |-> "validate", tenant |-> TenantOf[x], on |-> x,
                           key |-> OnceKey])
    BY <1>5 DEF NextConnection
  <2>2. x \in Connections
    BY DEF TypeOK
  <2>3. [op |-> "validate", tenant |-> TenantOf[x], on |-> x, key |-> OnceKey]
          \in Request
    BY <2>2 DEF Request
  <2>4. todo' \in [Workers -> SUBSET Connections]
    BY <2>1 DEF TypeOK
  <2>5. result' \in [Workers -> Result]
    BY <1>5, CountType DEF NextConnection
  <2> QED BY <1>1, <1>5, <2>1, <2>3, <2>4, <2>5, StartCallEffect
          DEF NextConnection, TypeOK, Steps, governance, history
<1>6. CASE Validated(w)
  <2>1. req[w].on \in DOMAIN listed[w] /\ result' \in [Workers -> Result]
    BY <1>6, CountType DEF Validated, Inv, PassesFormed
  <2> QED BY <1>6, <2>1, IngestNextEffect
          DEF Validated, TypeOK, Steps, governance, history
<1>7. CASE RecordInvalid(w)
  <2>1. req[w].on \in DOMAIN listed[w] /\ result' \in [Workers -> Result]
    BY <1>7, CountType DEF RecordInvalid, Inv, PassesFormed
  <2>2. req[w].on \in Connections
    BY <2>1 DEF TypeOK
  <2>3. runs' \subseteq Validation \cup Ingestion
    BY <1>7, <2>2 DEF RecordInvalid, TypeOK, Validation
  <2> QED BY <1>7, <2>1, <2>3, IngestNextEffect DEF RecordInvalid, TypeOK, Steps, history
<1>8. CASE RecordInvalidFails(w)
  <2>1. result' \in [Workers -> Result]
    BY <1>8, CountType DEF RecordInvalidFails
  <2> QED BY <1>1, <1>8, <2>1
          DEF RecordInvalidFails, NextOfPass, Goto, TypeOK, governance, history
<1>9. CASE Ingested(w)
  <2>1. result' \in [Workers -> Result]
    BY <1>9, CountType DEF Ingested
  <2> QED BY <1>1, <1>9, <2>1
          DEF Ingested, NextOfPass, Goto, TypeOK, governance, history
<1> QED
  BY <1>2, <1>3, <1>4, <1>5, <1>6, <1>7, <1>8, <1>9 DEF PassStep

LEMMA TypeStep == TypeOK /\ Inv /\ [Next]_vars => TypeOK'
<1> SUFFICES ASSUME TypeOK, Inv, [Next]_vars PROVE TypeOK'
  OBVIOUS
<1>1. ASSUME NEW u \in Users, Call(u) PROVE TypeOK'
  <2>1. PICK r \in Request : StartCall(u, r)
    BY <1>1 DEF Call
  <2> QED BY <1>1, <2>1, StartCallEffect, LocalType DEF Call, costs, TypeOK, Actors
<1>2. ASSUME NEW c \in Actors, Crash(c) PROVE TypeOK'
  BY <1>2 DEF Crash, Goto, TypeOK, governance, costs, history
<1>3. CASE UNCHANGED vars
  BY <1>3, LocalType DEF vars, costs, TypeOK, Steps
<1> QED
  BY <1>1, <1>2, <1>3, CallType, PassType DEF Next
-----------------------------------------------------------------------------
(* The invariant, seen from one call, from one pass and from the tables. *)
CallFormed(c) ==
  /\ pc[c] \in {"begin", "probe", "write", "find", "fetch", "save",
                "recordDone", "recordFailed", "returned", "threw",
                "recordInvalid"} => req[c] \in Request
  /\ pc[c] \in {"begin", "write"} => req[c].op \in {"create", "validate"}
  /\ pc[c] = "probe" => req[c].op = "validate"
  /\ pc[c] \in {"find", "fetch", "save", "recordDone", "recordFailed"} =>
       req[c].op = "ingest"
  /\ pc[c] \in {"find", "recordDone", "recordFailed"} => req[c].on # None
  /\ pc[c] \in {"returned", "threw", "recordInvalid", "list", "pass", "cycles"} =>
       c \in Workers
  /\ pc[c] = "recordInvalid" => req[c].op = "validate"

CallRead(c) ==
  /\ c \in Users /\ pc[c] = "idle" => seen[c] = None
  /\ pc[c] = "probe" \/ (pc[c] = "write" /\ req[c].op = "validate") =>
       seen[c] \in Row /\ conns[req[c].on] # None
  /\ pc[c] = "fetch" /\ req[c].on = None => seen[c] = None
  /\ pc[c] \in {"fetch", "save", "recordDone"} /\ req[c].on # None =>
       TenantOf[req[c].on] = req[c].tenant
  /\ pc[c] = "fetch" /\ req[c].on # None =>
       seen[c] \in Row /\ <<req[c].on, seen[c].export>> \in registered
  /\ pc[c] = "save" =>
       /\ seen[c] \in Export
       /\ req[c].source \in Remote =>
            req[c].on # None /\ <<req[c].on, req[c].source>> \in registered
  /\ pc[c] = "recordDone" =>
       seen[c] \in batches /\ seen[c].id.tenant = req[c].tenant

CallOK(c) == CallFormed(c) /\ CallRead(c)

PassOK(w) ==
  /\ todo[w] \subseteq DOMAIN listed[w]
  /\ pc[w] # "idle" => passes # 0
  /\ pc[w] \notin {"idle", "list", "pass", "cycles"} =>
       req[w].op # "create" /\ req[w].on \in DOMAIN listed[w]

LedgerOK ==
  /\ RowsRegistered /\ AppliedIsStored /\ StatusHasRun
  /\ RunHasBatch /\ IngestedWasRegistered

LEMMA InvIs ==
  Inv <=> /\ \A c \in Actors : CallOK(c)
          /\ \A w \in Workers : PassOK(w)
          /\ LedgerOK
BY DEF Inv, CallsFormed, CallsRead, PassesFormed, CallOK, CallFormed, CallRead,
       PassOK, LedgerOK

(* A step of one actor. Calls rely on rows, registrations and batches only  *)
(* as far as these stay.                                                    *)
LEMMA OneActor ==
  ASSUME TypeOK, Inv, NEW c \in Actors, CallOK(c)', c \in Workers => PassOK(c)',
         \A d \in Actors \ {c} :
           pc'[d] = pc[d] /\ req'[d] = req[d] /\ seen'[d] = seen[d],
         \A w \in Workers \ {c} : todo'[w] = todo[w] /\ listed'[w] = listed[w],
         passes # 0 => passes' # 0,
         \A x \in Connections : conns[x] # None => conns'[x] # None,
         registered \subseteq registered', batches \subseteq batches', LedgerOK'
  PROVE  Inv'
<1>1. ASSUME NEW d \in Actors \ {c} PROVE CallOK(d)'
  <2>1. CallOK(d)
    BY InvIs
  <2>2. CallFormed(d)'
    BY <2>1 DEF CallOK, CallFormed
  <2>3. pc[d] = "probe" \/ pc[d] = "write" => req[d].on \in Connections
    BY <2>1, RequestFacts DEF CallOK, CallFormed
  <2>4. CallRead(d)'
    BY <2>1, <2>3 DEF CallOK, CallRead
  <2> QED BY <2>2, <2>4 DEF CallOK
<1>2. ASSUME NEW w \in Workers \ {c} PROVE PassOK(w)'
  BY InvIs DEF PassOK, Actors
<1>3. (\A d \in Actors : CallOK(d)') /\ (\A w \in Workers : PassOK(w)')
  BY <1>1, <1>2
<1> QED
  BY <1>3
  DEF Inv, CallsFormed, CallsRead, PassesFormed, CallOK, CallFormed, CallRead,
      PassOK, LedgerOK

(* A step that leaves tables and history alone. *)
LEMMA OneActorOnly ==
  ASSUME TypeOK, Inv, NEW c \in Actors, CallOK(c)', c \in Workers => PassOK(c)',
         \A d \in Actors \ {c} :
           pc'[d] = pc[d] /\ req'[d] = req[d] /\ seen'[d] = seen[d],
         \A w \in Workers \ {c} : todo'[w] = todo[w] /\ listed'[w] = listed[w],
         passes # 0 => passes' # 0, UNCHANGED <<governance, batches, history>>
  PROVE  Inv'
<1>1. LedgerOK'
  BY InvIs
  DEF LedgerOK, RowsRegistered, AppliedIsStored, StatusHasRun, RunHasBatch,
      IngestedWasRegistered, governance, history
<1> QED BY <1>1, OneActor DEF governance, history
-----------------------------------------------------------------------------
CallSteps == {"begin", "probe", "write", "find", "fetch", "save", "recordDone",
              "recordFailed"}

LEMMA EndedOK ==
  ASSUME TypeOK, Inv, NEW c \in Actors, NEW outcome \in {"returned", "threw"},
         EndCall(c, outcome), pc[c] \in CallSteps, UNCHANGED scheduler
  PROVE  CallOK(c)' /\ (c \in Workers => PassOK(c)')
<1>1. CallOK(c) /\ (c \in Workers => PassOK(c))
  BY InvIs
<1>2. CASE c \in Workers
  <2>1. req'[c] = req[c] /\ pc'[c] \in {"returned", "threw"}
    BY <1>2, EndCallEffect
  <2>2. CallOK(c)'
    BY <1>1, <1>2, <2>1 DEF CallOK, CallFormed, CallRead, CallSteps
  <2>3. PassOK(c)'
    BY <1>1, <1>2, <2>1 DEF PassOK, CallSteps, scheduler
  <2> QED BY <2>2, <2>3
<1>3. CASE c \notin Workers
  <2>1. pc'[c] = "idle" /\ seen'[c] = None
    BY <1>3, EndCallEffect
  <2> QED BY <1>3, <2>1 DEF CallOK, CallFormed, CallRead
<1> QED BY <1>2, <1>3

LEMMA EndInv ==
  ASSUME TypeOK, Inv, NEW c \in Actors, NEW outcome \in {"returned", "threw"},
         EndCall(c, outcome), pc[c] \in CallSteps,
         UNCHANGED <<governance, batches, scheduler, history>>
  PROVE  Inv'
<1>1. CallOK(c)' /\ (c \in Workers => PassOK(c)')
  BY EndedOK
<1> QED BY <1>1, EndCallEffect, OneActorOnly DEF scheduler

(* A call that goes on to its next step. *)
LEMMA MovedPassOK ==
  ASSUME Inv, NEW c \in Actors, pc[c] \in CallSteps, pc'[c] \in CallSteps,
         req'[c] = req[c], UNCHANGED scheduler
  PROVE  c \in Workers => PassOK(c)'
BY InvIs DEF PassOK, CallSteps, scheduler

LEMMA MoveInv ==
  ASSUME TypeOK, Inv, NEW c \in Actors, pc[c] \in CallSteps,
         NEW step \in CallSteps, Goto(c, step), req' = req, CallOK(c)',
         \A d \in Actors \ {c} : seen'[d] = seen[d],
         UNCHANGED <<governance, batches, scheduler, history>>
  PROVE  Inv'
<1>1. pc'[c] = step /\ \A d \in Actors \ {c} : pc'[d] = pc[d] /\ req'[d] = req[d]
  BY DEF Goto, TypeOK
<1>2. c \in Workers => PassOK(c)'
  BY <1>1, MovedPassOK
<1> QED BY <1>1, <1>2, OneActorOnly DEF scheduler

LEMMA ReadInv ==
  ASSUME TypeOK, Inv, NEW c \in Actors,
         KeyNotFound(c) \/ Probe(c) \/ FindConnection(c) \/ Fetch(c)
  PROVE  Inv'
<1> USE DEF costs
<1>1. CallOK(c)
  BY InvIs
<1>2. CASE KeyNotFound(c)
  <2>1. pc[c] = "begin" /\ req[c] \in Request /\ req[c].op \in {"create", "validate"}
    BY <1>1, <1>2 DEF KeyNotFound, CallOK, CallFormed
  <2>2. CASE req[c].op = "create"
    <3>1. Goto(c, "write") /\ UNCHANGED <<seen, req>>
      BY <1>2, <2>2 DEF KeyNotFound
    <3>2. CallOK(c)'
      BY <2>1, <2>2, <3>1 DEF Goto, TypeOK, CallOK, CallFormed, CallRead
    <3> QED BY <1>2, <2>1, <3>1, <3>2, MoveInv DEF KeyNotFound, CallSteps
  <2>3. CASE req[c].op = "validate" /\ Found(req[c])
    <3>1. req[c].on \in Connections
      BY <2>1, <2>3, RequestFacts
    <3>2. conns[req[c].on] \in Row
      BY <2>3, <3>1 DEF Found, TypeOK
    <3>3. /\ seen' = [seen EXCEPT ![c] = conns[req[c].on]] /\ req' = req
          /\ Goto(c, "probe") /\ conns' = conns
      BY <1>2, <2>3 DEF KeyNotFound, governance
    <3>4. CallOK(c)'
      BY <2>1, <2>3, <3>2, <3>3, NoneIsNoRow
      DEF Goto, TypeOK, CallOK, CallFormed, CallRead
    <3> QED BY <1>2, <2>1, <3>3, <3>4, MoveInv DEF KeyNotFound, CallSteps, TypeOK
  <2>4. CASE req[c].op = "validate" /\ ~Found(req[c])
    BY <1>2, <2>1, <2>4, EndInv DEF KeyNotFound, Throw, CallSteps
  <2> QED BY <2>1, <2>2, <2>3, <2>4
<1>3. CASE Probe(c)
  <2>1. /\ pc[c] = "probe" /\ req[c] \in Request /\ req[c].op = "validate"
        /\ seen[c] \in Row /\ conns[req[c].on] # None
    BY <1>1, <1>3 DEF Probe, CallOK, CallFormed, CallRead
  <2>2. PICK status \in ProbeResults(seen[c]) :
          seen' = [seen EXCEPT ![c].status = status]
    BY <1>3 DEF Probe
  <2>3. [seen[c] EXCEPT !.status = status] \in Row
    BY <2>1, <2>2 DEF ProbeResults, Row, Status
  <2>4. seen'[c] \in Row /\ \A d \in Actors \ {c} : seen'[d] = seen[d]
    BY <2>2, <2>3 DEF TypeOK
  <2>5. Goto(c, "write") /\ req' = req /\ conns' = conns
    BY <1>3 DEF Probe, governance
  <2>6. CallOK(c)'
    BY <2>1, <2>4, <2>5 DEF Goto, TypeOK, CallOK, CallFormed, CallRead
  <2> QED BY <1>3, <2>1, <2>4, <2>5, <2>6, MoveInv DEF Probe, CallSteps
<1>4. CASE FindConnection(c)
  <2>1. /\ pc[c] = "find" /\ req[c] \in Request /\ req[c].op = "ingest"
        /\ req[c].on # None
    BY <1>1, <1>4 DEF FindConnection, CallOK, CallFormed
  <2>2. CASE Found(req[c])
    <3>1. req[c].on \in Connections
      BY <2>1, RequestFacts
    <3>2. /\ conns[req[c].on] \in Row /\ TenantOf[req[c].on] = req[c].tenant
          /\ <<req[c].on, conns[req[c].on].export>> \in registered
      BY <2>2, <3>1 DEF Found, TypeOK, Inv, RowsRegistered
    <3>3. /\ seen' = [seen EXCEPT ![c] = conns[req[c].on]] /\ req' = req
          /\ Goto(c, "fetch") /\ registered' = registered
      BY <1>4, <2>2 DEF FindConnection, history
    <3>4. CallOK(c)'
      BY <2>1, <3>2, <3>3 DEF Goto, TypeOK, CallOK, CallFormed, CallRead
    <3> QED BY <1>4, <2>1, <3>3, <3>4, MoveInv DEF FindConnection, CallSteps, TypeOK
  <2>3. CASE ~Found(req[c])
    BY <1>4, <2>1, <2>3, EndInv DEF FindConnection, Throw, CallSteps
  <2> QED BY <2>2, <2>3
<1>5. CASE Fetch(c)
  <2>1. /\ pc[c] = "fetch" /\ req[c] \in Request /\ req[c].op = "ingest"
        /\ Readable(req[c], seen[c])
    BY <1>1, <1>5 DEF Fetch, CallOK, CallFormed
  <2>2. PICK read \in Export : seen' = [seen EXCEPT ![c] = read]
    BY <1>5 DEF Fetch
  <2>3. Goto(c, "save") /\ req' = req /\ registered' = registered
    BY <1>5 DEF Fetch, history
  <2>4. req[c].source \in Remote =>
          req[c].on # None /\ <<req[c].on, req[c].source>> \in registered
    BY <1>1, <2>1 DEF Readable, CallOK, CallRead
  <2>5. req[c].on # None => TenantOf[req[c].on] = req[c].tenant
    BY <1>1, <2>1 DEF CallOK, CallRead
  <2>6. CallOK(c)'
    BY <2>1, <2>2, <2>3, <2>4, <2>5 DEF Goto, TypeOK, CallOK, CallFormed, CallRead
  <2> QED BY <1>5, <2>1, <2>2, <2>3, <2>6, MoveInv DEF Fetch, CallSteps, TypeOK
<1> QED BY <1>2, <1>3, <1>4, <1>5
-----------------------------------------------------------------------------
LEMMA StoreKeyApplied ==
  ASSUME TypeOK, Inv, NEW c \in Actors, req[c] \in Request,
         req[c].op \in {"create", "validate"}, StoreKey(c)
  PROVE  AppliedIsStored'
<1>1. AppliedIsStored
  BY DEF Inv
<1>2. req[c].key \in Keys => ScopedKey(c) \in Tenants \X Keys
  BY RequestFacts DEF ScopedKey
<1>3. CASE req[c].key \in Keys
  <2>1. PICK k \in Tenants \X Keys : k = ScopedKey(c)
    BY <1>2, <1>3
  <2>2. /\ k \notin keys /\ keys' = keys \cup {k}
        /\ applied' = [applied EXCEPT ![k] = @ + 1]
    BY <1>3, <2>1 DEF StoreKey
  <2> QED BY <1>1, <2>2 DEF AppliedIsStored, TypeOK
<1>4. CASE req[c].key \notin Keys
  BY <1>1, <1>4 DEF StoreKey, AppliedIsStored
<1> QED BY <1>3, <1>4

LEMMA ValidationIsNoIngestion ==
  ASSUME NEW x, NEW status PROVE ValidationRun(x, status) \notin Ingestion
BY DEF ValidationRun, Ingestion

LEMMA CommitInv ==
  ASSUME TypeOK, Inv, NEW c \in Actors, Commit(c)
  PROVE  Inv'
<1> DEFINE on == req[c].on
<1>1. /\ pc[c] = "write" /\ req[c] \in Request
      /\ req[c].op \in {"create", "validate"}
      /\ req[c].op = "validate" => seen[c] \in Row /\ conns[on] # None
  BY InvIs DEF Commit, CallOK, CallFormed, CallRead
<1>2. on \in Connections
  BY <1>1, RequestFacts
<1>3. LedgerOK
  BY InvIs
<1>4. /\ EndCall(c, "returned") /\ UNCHANGED <<batches, scheduler>>
      /\ AppliedIsStored'
  BY <1>1, StoreKeyApplied DEF Commit, Return, costs
<1>5. CallOK(c)' /\ (c \in Workers => PassOK(c)')
  BY <1>1, <1>4, EndedOK DEF CallSteps
<1>6. CASE req[c].op = "create"
  <2> DEFINE row == [export |-> req[c].export, status |-> "pending_validation"]
  <2>1. /\ conns' = [conns EXCEPT ![on] = row] /\ runs' = runs
        /\ registered' = registered \cup {<<on, req[c].export>>}
    BY <1>6 DEF Commit, SaveConnection
  <2>2. req[c].export \in Sources \cup {None}
    BY <1>1, <1>6, RequestFacts
  <2>3. row \in Row /\ row # None
    BY <2>2, NoneIsNoRow DEF Row, Status
  <2>4. /\ conns'[on] = row
        /\ \A x \in Connections \ {on} : conns'[x] = conns[x]
    BY <1>2, <2>1 DEF TypeOK
  <2>5. RowsRegistered'
    BY <1>3, <2>1, <2>4 DEF LedgerOK, RowsRegistered
  <2>6. StatusHasRun'
    BY <1>3, <2>1, <2>4 DEF LedgerOK, StatusHasRun
  <2>7. RunHasBatch' /\ IngestedWasRegistered'
    BY <1>3, <1>4, <2>1 DEF LedgerOK, RunHasBatch, IngestedWasRegistered
  <2>8. LedgerOK'
    BY <1>4, <2>5, <2>6, <2>7 DEF LedgerOK
  <2>9. \A x \in Connections : conns[x] # None => conns'[x] # None
    BY <2>3, <2>4
  <2>10. registered \subseteq registered'
    BY <2>1
  <2> QED BY <1>4, <1>5, <2>8, <2>9, <2>10, EndCallEffect, OneActor DEF scheduler
<1>7. CASE req[c].op = "validate"
  <2> DEFINE row == [conns[on] EXCEPT !.status = seen[c].status]
  <2>1. /\ conns' = [conns EXCEPT ![on] = row] /\ registered' = registered
        /\ runs' = runs \cup {ValidationRun(on, seen[c].status)}
    BY <1>7 DEF Commit, SaveValidation
  <2>2. seen[c] \in Row /\ conns[on] \in Row
    BY <1>1, <1>2, <1>7 DEF TypeOK
  <2>3. /\ row \in Row /\ row # None /\ row.status = seen[c].status
        /\ row.export = conns[on].export
    BY <2>2, NoneIsNoRow DEF Row
  <2>4. /\ conns'[on] = row
        /\ \A x \in Connections \ {on} : conns'[x] = conns[x]
    BY <1>2, <2>1 DEF TypeOK
  <2>5. RowsRegistered'
    BY <1>1, <1>3, <1>7, <2>1, <2>3, <2>4 DEF LedgerOK, RowsRegistered
  <2>6. StatusHasRun'
    BY <1>3, <2>1, <2>3, <2>4 DEF LedgerOK, StatusHasRun, ValidationRun
  <2>7. RunHasBatch'
    <3>1. runs' \cap Ingestion = runs \cap Ingestion
      BY <2>1, ValidationIsNoIngestion
    <3> QED BY <1>3, <1>4, <3>1 DEF LedgerOK, RunHasBatch
  <2>8. IngestedWasRegistered'
    BY <1>3, <1>4, <2>1 DEF LedgerOK, IngestedWasRegistered
  <2>9. LedgerOK'
    BY <1>4, <2>5, <2>6, <2>7, <2>8 DEF LedgerOK
  <2>10. \A x \in Connections : conns[x] # None => conns'[x] # None
    BY <2>3, <2>4
  <2> QED BY <1>4, <1>5, <2>1, <2>9, <2>10, EndCallEffect, OneActor DEF scheduler
<1> QED BY <1>1, <1>6, <1>7
-----------------------------------------------------------------------------
(* A new batch: its rows come from where its call was allowed to read. *)
LEMMA IngestLedger ==
  ASSUME TypeOK, Inv, NEW c \in Actors, pc[c] = "save",
         Store!Ingest(IdOf(req[c]), seen[c].file), UNCHANGED <<governance, history>>
  PROVE  batches' \subseteq Batch /\ batches \subseteq batches' /\ LedgerOK'
<1>1. /\ req[c] \in Request /\ req[c].op = "ingest"
      /\ req[c].source \in Remote =>
           /\ req[c].on # None /\ <<req[c].on, req[c].source>> \in registered
           /\ TenantOf[req[c].on] = req[c].tenant
  BY InvIs DEF CallOK, CallFormed, CallRead
<1>2. req[c].on # None => req[c].on \in Connections
  BY <1>1, RequestFacts
<1>3. /\ batches' \subseteq Batch /\ batches \subseteq batches'
      /\ \A b \in batches' \ batches : b.id = IdOf(req[c])
  BY SaveFacts, IngestFacts
<1>4. LedgerOK
  BY InvIs
<1>5. IngestedWasRegistered'
  <2> SUFFICES ASSUME NEW b \in batches', b.id.source \in Remote
               PROVE  \E x \in Connections :
                        TenantOf[x] = b.id.tenant /\ <<x, b.id.source>> \in registered
    BY DEF IngestedWasRegistered, history
  <2>1. CASE b \in batches
    BY <1>4, <2>1 DEF LedgerOK, IngestedWasRegistered
  <2>2. CASE b \notin batches
    <3>1. b.id.source = req[c].source /\ b.id.tenant = req[c].tenant
      BY <1>3, <2>2 DEF IdOf
    <3> QED BY <1>1, <1>2, <3>1
  <2> QED BY <2>1, <2>2
<1>6. RunHasBatch'
  BY <1>3, <1>4 DEF LedgerOK, RunHasBatch, governance
<1>7. RowsRegistered' /\ AppliedIsStored' /\ StatusHasRun'
  BY <1>4 DEF LedgerOK, RowsRegistered, AppliedIsStored, StatusHasRun,
              governance, history
<1> QED BY <1>3, <1>5, <1>6, <1>7 DEF LedgerOK

LEMMA HoldsOK ==
  ASSUME TypeOK, Inv, NEW c \in Actors, pc[c] = "save", NEW b \in Batch,
         Holds(c, b), b.id.tenant = req[c].tenant, b \in batches',
         UNCHANGED scheduler
  PROVE  CallOK(c)' /\ (c \in Workers => PassOK(c)')
<1>1. CallOK(c)
  BY InvIs
<1>2. CASE req[c].on # None
  <2>1. pc'[c] = "recordDone" /\ req'[c] = req[c] /\ seen'[c] = b
    BY <1>2, HoldsEffect
  <2>2. CallOK(c)'
    BY <1>1, <1>2, <2>1 DEF CallOK, CallFormed, CallRead
  <2> QED BY <2>1, <2>2, MovedPassOK DEF CallSteps
<1>3. CASE req[c].on = None
  BY <1>3, EndedOK DEF Holds, Return, CallSteps
<1> QED BY <1>2, <1>3

LEMMA FailedOK ==
  ASSUME TypeOK, Inv, NEW c \in Actors, pc[c] \in {"fetch", "save"},
         IngestionFails(c), UNCHANGED scheduler
  PROVE  CallOK(c)' /\ (c \in Workers => PassOK(c)')
<1>1. CallOK(c)
  BY InvIs
<1>2. CASE req[c].on # None
  <2>1. pc'[c] = "recordFailed" /\ req'[c] = req[c]
    BY <1>2, IngestFailsEffect
  <2>2. CallOK(c)'
    BY <1>1, <1>2, <2>1 DEF CallOK, CallFormed, CallRead
  <2> QED BY <2>1, <2>2, MovedPassOK DEF CallSteps
<1>3. CASE req[c].on = None
  BY <1>3, EndedOK DEF IngestionFails, Throw, CallSteps
<1> QED BY <1>2, <1>3

LEMMA SaveInv ==
  ASSUME TypeOK, Inv, NEW c \in Actors,
         Save(c) \/ SaveReplayed(c) \/ SaveUnconfirmed(c) \/ SaveFails(c)
           \/ FetchFails(c)
  PROVE  Inv'
<1> USE DEF costs
<1>1. CASE Save(c)
  <2>1. batches' \subseteq Batch /\ batches \subseteq batches' /\ LedgerOK'
    BY <1>1, IngestLedger DEF Save, Store!IngestAndServe
  <2>2. PICK b \in batches' : b.id = IdOf(req[c]) /\ Holds(c, b)
    BY <1>1 DEF Save
  <2>3. b \in Batch /\ b.id.tenant = req[c].tenant
    BY <2>1, <2>2 DEF IdOf
  <2>4. CallOK(c)' /\ (c \in Workers => PassOK(c)')
    BY <1>1, <2>2, <2>3, HoldsOK DEF Save
  <2> QED BY <1>1, <2>1, <2>2, <2>3, <2>4, HoldsEffect, OneActor
          DEF Save, governance, scheduler, history
<1>2. CASE SaveReplayed(c)
  <2>1. PICK b \in batches :
          b.id.tenant = req[c].tenant /\ Store!Serve(b) /\ Holds(c, b)
    BY <1>2 DEF SaveReplayed
  <2>2. b \in Batch /\ batches' = batches /\ b \in batches'
    BY <2>1 DEF TypeOK, Store!Serve
  <2>3. CallOK(c)' /\ (c \in Workers => PassOK(c)')
    BY <1>2, <2>1, <2>2, HoldsOK DEF SaveReplayed
  <2> QED BY <1>2, <2>1, <2>2, <2>3, HoldsEffect, OneActorOnly
          DEF SaveReplayed, scheduler
<1>3. CASE SaveUnconfirmed(c)
  <2>1. batches \subseteq batches' /\ LedgerOK'
    BY <1>3, IngestLedger DEF SaveUnconfirmed, Store!IngestUnanswered
  <2>2. CallOK(c)' /\ (c \in Workers => PassOK(c)')
    BY <1>3, FailedOK DEF SaveUnconfirmed
  <2> QED BY <1>3, <2>1, <2>2, IngestFailsEffect, OneActor
          DEF SaveUnconfirmed, governance, scheduler, history
<1>4. CASE SaveFails(c) \/ FetchFails(c)
  <2>1. CallOK(c)' /\ (c \in Workers => PassOK(c)')
    BY <1>4, FailedOK DEF SaveFails, FetchFails
  <2> QED BY <1>4, <2>1, IngestFailsEffect, OneActorOnly
          DEF SaveFails, FetchFails, scheduler
<1> QED BY <1>1, <1>2, <1>3, <1>4

LEMMA RecordInv ==
  ASSUME TypeOK, Inv, NEW c \in Actors, RecordDone(c) \/ RecordFailed(c)
  PROVE  Inv'
<1>1. CallOK(c) /\ LedgerOK
  BY InvIs
<1>2. /\ pc[c] \in CallSteps /\ UNCHANGED <<conns, keys, batches, history, scheduler>>
      /\ EndCall(c, "returned") \/ EndCall(c, "threw")
  BY DEF RecordDone, RecordFailed, Return, Throw, CallSteps, costs
<1>3. CallOK(c)' /\ (c \in Workers => PassOK(c)')
  BY <1>2, EndedOK
<1>4. PICK run : /\ runs' = runs \cup {run}
                 /\ run \in Ingestion /\ run.status = "succeeded" =>
                      run.batch \in batches /\ run.batch.id.tenant = TenantOf[run.on]
  <2>1. CASE RecordDone(c)
    <3>1. /\ req[c] \in Request /\ req[c].on # None /\ pc[c] = "recordDone"
          /\ seen[c] \in batches /\ seen[c].id.tenant = TenantOf[req[c].on]
      BY <1>1, <2>1 DEF RecordDone, CallOK, CallFormed, CallRead
    <3>2. runs' = runs \cup {IngestionRun(req[c].on, "succeeded", seen[c])}
      BY <2>1 DEF RecordDone
    <3> DEFINE new == [on |-> req[c].on, status |-> "succeeded", batch |-> seen[c]]
    <3>3. new.batch \in batches /\ new.batch.id.tenant = TenantOf[new.on]
      BY <3>1
    <3>4. runs' = runs \cup {new}
      BY <3>2 DEF IngestionRun
    <3> HIDE DEF new
    <3> QED BY <3>3, <3>4
  <2>2. CASE RecordFailed(c)
    <3> DEFINE new == [on |-> req[c].on, status |-> "failed", batch |-> None]
    <3>1. runs' = runs \cup {new} /\ new.status # "succeeded"
      BY <2>2 DEF RecordFailed, IngestionRun
    <3> HIDE DEF new
    <3> QED BY <3>1
  <2> QED BY <2>1, <2>2
<1>5. LedgerOK'
  <2>1. RunHasBatch'
    BY <1>1, <1>2, <1>4 DEF LedgerOK, RunHasBatch
  <2>2. StatusHasRun'
    BY <1>1, <1>2, <1>4 DEF LedgerOK, StatusHasRun
  <2>3. RowsRegistered' /\ AppliedIsStored' /\ IngestedWasRegistered'
    BY <1>1, <1>2 DEF LedgerOK, RowsRegistered, AppliedIsStored,
                      IngestedWasRegistered, history
  <2> QED BY <2>1, <2>2, <2>3 DEF LedgerOK
<1> QED BY <1>2, <1>3, <1>5, EndCallEffect, OneActor DEF scheduler, history
-----------------------------------------------------------------------------
(* The steps of a pass, and a call that starts or dies. *)
LEMMA StartedOK ==
  ASSUME TypeOK, NEW c \in Actors, NEW r \in Request, StartCall(c, r),
         r.op = "ingest" /\ r.on = None => seen'[c] = None
  PROVE  CallOK(c)'
<1>1. /\ req'[c] = r /\ r.op \in {"create", "validate", "ingest"}
      /\ pc'[c] = CASE r.op # "ingest" -> "begin"
                    [] r.op = "ingest" /\ r.on # None -> "find"
                    [] r.op = "ingest" /\ r.on = None -> "fetch"
  BY StartCallEffect, RequestFacts
<1> QED BY <1>1 DEF CallOK, CallFormed, CallRead

LEMMA IngestNextOK ==
  ASSUME TypeOK, Inv, NEW w \in Workers, req[w].on \in DOMAIN listed[w],
         pc[w] # "idle", IngestNext(w), UNCHANGED <<listed, todo, passes>>
  PROVE  CallOK(w)' /\ PassOK(w)'
<1>1. PassOK(w)
  BY InvIs
<1>2. CASE pc'[w] = "pass"
  BY <1>1, <1>2 DEF CallOK, CallFormed, CallRead, PassOK
<1>3. CASE /\ pc'[w] = "find" /\ req'[w] \in Request /\ req'[w].op = "ingest"
           /\ req'[w].on = req[w].on /\ req[w].on # None
  BY <1>1, <1>3 DEF CallOK, CallFormed, CallRead, PassOK
<1> QED BY <1>2, <1>3, IngestNextEffect

LEMMA PassInv ==
  ASSUME TypeOK, Inv, NEW w \in Workers, Tick(w) \/ PassStep(w)
  PROVE  Inv'
<1> USE DEF costs
<1>1. w \in Actors /\ CallOK(w) /\ PassOK(w)
  BY InvIs DEF Actors
<1>2. CASE \/ Tick(w) \/ ListConnections(w) \/ ListFails(w) \/ RunCycles(w)
           \/ FinishPass(w)
  <2>1. /\ pc'[w] \in {"idle", "list", "pass", "cycles"}
        /\ pc'[w] # "idle" => passes' # 0
        /\ passes # 0 => passes' # 0
        /\ todo'[w] \subseteq DOMAIN listed'[w]
        /\ \A d \in Actors \ {w} : pc'[d] = pc[d]
        /\ \A v \in Workers \ {w} : todo'[v] = todo[v] /\ listed'[v] = listed[v]
        /\ UNCHANGED <<governance, batches, history, req, seen>>
    <3>1. CASE Tick(w)
      BY <1>1, <3>1 DEF Tick, Goto, TypeOK, PassOK
    <3>2. CASE ListConnections(w)
      BY <1>1, <3>2 DEF ListConnections, Goto, TypeOK, PassOK
    <3>3. CASE ListFails(w) \/ RunCycles(w) \/ FinishPass(w)
      BY <1>1, <3>3
      DEF ListFails, RunCycles, FinishPass, EndPass, Goto, TypeOK, PassOK, scheduler
    <3> QED BY <1>2, <3>1, <3>2, <3>3
  <2>2. CallOK(w)' /\ PassOK(w)'
    BY <2>1 DEF CallOK, CallFormed, CallRead, PassOK
  <2> QED BY <1>1, <2>1, <2>2, OneActorOnly
<1>3. CASE NextConnection(w)
  <2> DEFINE r(x) == [op |-> "validate", tenant |-> TenantOf[x], on |-> x,
                      key |-> OnceKey]
  <2>1. PICK x \in todo[w] :
          todo' = [todo EXCEPT ![w] = @ \ {x}] /\ StartCall(w, r(x))
    BY <1>3 DEF NextConnection
  <2>2. x \in Connections /\ x \in DOMAIN listed[w]
    BY <1>1 DEF TypeOK, PassOK
  <2>3. r(x) \in Request /\ r(x).op = "validate" /\ r(x).on = x
    BY <2>2 DEF Request
  <2>4. req'[w] = r(x) /\ pc'[w] = "begin" /\ CallOK(w)'
    BY <1>1, <2>1, <2>3, StartCallEffect, StartedOK
  <2>5. /\ \A v \in Workers \ {w} : todo'[v] = todo[v]
        /\ todo'[w] \subseteq todo[w]
    BY <2>1 DEF TypeOK
  <2>6. PassOK(w)'
    BY <1>1, <1>3, <2>2, <2>3, <2>4, <2>5 DEF NextConnection, PassOK
  <2>7. \A d \in Actors \ {w} : pc'[d] = pc[d] /\ req'[d] = req[d]
    BY <1>1, <2>1, <2>3, StartCallEffect
  <2> QED BY <1>1, <1>3, <2>4, <2>5, <2>6, <2>7, OneActorOnly DEF NextConnection
<1>4. CASE Validated(w)
  <2>1. req[w].on \in DOMAIN listed[w]
    BY <1>1, <1>4 DEF Validated, PassOK
  <2>2. CallOK(w)' /\ PassOK(w)'
    BY <1>4, <2>1, IngestNextOK DEF Validated
  <2> QED BY <1>1, <1>4, <2>1, <2>2, IngestNextEffect, OneActorOnly DEF Validated
<1>5. CASE ValidationThrew(w)
  <2>1. /\ pc'[w] = "recordInvalid" /\ UNCHANGED <<req, seen, scheduler>>
        /\ pc[w] = "threw" /\ req[w].op = "validate"
        /\ \A d \in Actors \ {w} : pc'[d] = pc[d]
    BY <1>1, <1>5 DEF ValidationThrew, Goto, TypeOK
  <2>2. CallOK(w)' /\ PassOK(w)'
    BY <1>1, <2>1 DEF CallOK, CallFormed, CallRead, PassOK, scheduler
  <2> QED BY <1>1, <1>5, <2>1, <2>2, OneActorOnly DEF ValidationThrew, scheduler
<1>6. CASE RecordInvalid(w)
  <2>1. req[w].on \in DOMAIN listed[w]
    BY <1>1, <1>6 DEF RecordInvalid, PassOK
  <2>2. CallOK(w)' /\ PassOK(w)'
    BY <1>6, <2>1, IngestNextOK DEF RecordInvalid
  <2> DEFINE run == [on |-> req[w].on, status |-> "failed", connectionStatus |-> None]
  <2>3. runs' = runs \cup {run} /\ run \notin Ingestion
    BY <1>6 DEF RecordInvalid, Ingestion
  <2>4. UNCHANGED <<conns, keys, batches, history>>
    BY <1>6 DEF RecordInvalid
  <2> HIDE DEF run
  <2>5. LedgerOK'
    BY <2>3, <2>4, InvIs
    DEF LedgerOK, RowsRegistered, AppliedIsStored, StatusHasRun, RunHasBatch,
        IngestedWasRegistered, history
  <2> QED BY <1>1, <1>6, <2>1, <2>2, <2>4, <2>5, IngestNextEffect, OneActor
          DEF RecordInvalid, history
<1>7. CASE RecordInvalidFails(w) \/ Ingested(w)
  <2>1. /\ pc'[w] = "pass" /\ UNCHANGED <<seen, listed, todo, passes>>
        /\ \A d \in Actors \ {w} : pc'[d] = pc[d] /\ req'[d] = req[d]
        /\ UNCHANGED <<governance, batches, history>> /\ pc[w] # "idle"
    BY <1>1, <1>7 DEF RecordInvalidFails, Ingested, NextOfPass, Goto, TypeOK
  <2>2. CallOK(w)' /\ PassOK(w)'
    BY <1>1, <2>1 DEF CallOK, CallFormed, CallRead, PassOK
  <2> QED BY <1>1, <2>1, <2>2, OneActorOnly
<1> QED
  BY <1>2, <1>3, <1>4, <1>5, <1>6, <1>7 DEF PassStep

LEMMA CallInv ==
  ASSUME TypeOK, Inv, NEW u \in Users, Call(u)
  PROVE  Inv'
<1>1. PICK r \in Request : StartCall(u, r)
  BY DEF Call
<1>2. u \in Actors /\ u \notin Workers /\ pc[u] = "idle"
  BY DEF Actors, Call
<1>3. UNCHANGED <<governance, batches, history, scheduler, seen>>
  BY DEF Call, costs
<1>4. seen[u] = None
  BY <1>2, InvIs DEF CallOK, CallRead
<1>5. CallOK(u)'
  BY <1>1, <1>2, <1>3, <1>4, StartedOK
<1> QED BY <1>1, <1>2, <1>3, <1>5, StartCallEffect, OneActorOnly DEF scheduler

LEMMA CrashInv ==
  ASSUME TypeOK, Inv, NEW c \in Actors, Crash(c)
  PROVE  Inv'
<1>1. /\ pc'[c] = "idle" /\ seen'[c] = None
      /\ UNCHANGED <<governance, batches, history, listed, passes>>
      /\ \A d \in Actors \ {c} :
           pc'[d] = pc[d] /\ req'[d] = req[d] /\ seen'[d] = seen[d]
      /\ \A w \in Workers \ {c} : todo'[w] = todo[w]
      /\ c \in Workers => todo'[c] = {}
  BY DEF Crash, Goto, TypeOK, costs
<1>2. CallOK(c)' /\ (c \in Workers => PassOK(c)')
  BY <1>1 DEF CallOK, CallFormed, CallRead, PassOK
<1> QED BY <1>1, <1>2, OneActorOnly

LEMMA InvStep == TypeOK /\ Inv /\ [Next]_vars => Inv'
<1> SUFFICES ASSUME TypeOK, Inv, [Next]_vars PROVE Inv'
  OBVIOUS
<1>1. ASSUME NEW c \in Actors, Replay(c) \/ KeyTaken(c) \/ QueryFails(c)
      PROVE  Inv'
  BY <1>1, EndInv
  DEF Replay, KeyTaken, QueryFails, Return, Throw, CallSteps, costs
<1>2. CASE UNCHANGED vars
  BY <1>2
  DEF vars, governance, costs, scheduler, history, Inv, CallsFormed, CallsRead,
      PassesFormed, RowsRegistered, AppliedIsStored, StatusHasRun, RunHasBatch,
      IngestedWasRegistered
<1> QED
  BY <1>1, <1>2, ReadInv, CommitInv, SaveInv, RecordInv, PassInv, CallInv, CrashInv
  DEF Next, CallStep, Fault
-----------------------------------------------------------------------------
(* Types and the invariant together are inductive: what a call has read of  *)
(* its connection stays true enough for what it will write.                 *)
THEOREM Invariance == Spec => [](TypeOK /\ Inv)
<1>1. Init => TypeOK /\ Inv
  BY InvInit
<1>2. TypeOK /\ Inv /\ [Next]_vars => (TypeOK /\ Inv)'
  BY TypeStep, InvStep
<1> QED BY <1>1, <1>2, PTL DEF Spec

(* Every state of the tables, the calls and the passes is well typed.       *)
THEOREM TypeCorrect == Spec => []TypeOK
BY Invariance, PTL

(* Calls that share an idempotency key carry its operation out once, though *)
(* they look the key up long before they store it.                          *)
THEOREM OnlyOneApplies == Spec => []KeyAppliesOnce
<1>1. Inv => KeyAppliesOnce
  BY DEF Inv, AppliedIsStored, KeyAppliesOnce
<1> QED BY <1>1, Invariance, PTL

(* The status of a connection is always that of a run in the ledger.        *)
THEOREM EveryStatusHasRun == Spec => []StatusHasRun
<1>1. Inv => StatusHasRun
  BY DEF Inv
<1> QED BY <1>1, Invariance, PTL

(* A succeeded ingestion run names a batch that is stored, of its tenant.   *)
THEOREM EveryRunHasBatch == Spec => []RunHasBatch
<1>1. Inv => RunHasBatch
  BY DEF Inv
<1> QED BY <1>1, Invariance, PTL

(* No row from a customer's cloud is stored for a tenant that never had its *)
(* export registered.                                                       *)
THEOREM OnlyRegisteredIsIngested == Spec => []IngestedWasRegistered
<1>1. Inv => IngestedWasRegistered
  BY DEF Inv
<1> QED BY <1>1, Invariance, PTL
-----------------------------------------------------------------------------
(* What a pass counts. The table of connections is finite, so what a pass   *)
(* lists can be counted.                                                    *)
HIDE FilesAssumption
HIDE ConfigAssumption

LEMMA CountEffect ==
  ASSUME TypeOK, NEW w \in Workers,
         NEW field \in {"scanned", "validated", "ingested", "failed"}, Count(w, field)
  PROVE  /\ \A f \in {"scanned", "validated", "ingested", "failed"} :
              result'[w][f] = IF f = field THEN result[w][f] + 1 ELSE result[w][f]
         /\ \A v \in Workers \ {w} : result'[v] = result[v]
<1>1. PICK r \in Result : r = result[w]
  BY DEF TypeOK
<1>2. result' = [result EXCEPT ![w] = [r EXCEPT ![field] = r[field] + 1]]
  BY <1>1 DEF Count
<1>3. result'[w] = [r EXCEPT ![field] = r[field] + 1]
  BY <1>2 DEF TypeOK
<1>4. \A f \in {"scanned", "validated", "ingested", "failed"} :
        result'[w][f] = IF f = field THEN r[f] + 1 ELSE r[f]
  BY <1>3 DEF Result
<1> QED BY <1>1, <1>2, <1>4 DEF TypeOK

LEMMA ResultType ==
  ASSUME TypeOK, NEW w \in Workers
  PROVE  /\ result[w].scanned \in Nat /\ result[w].validated \in Nat
         /\ result[w].ingested \in Nat /\ result[w].failed \in Nat
BY DEF TypeOK, Result

LEMMA CountedInit == Init => PassesCounted
<1> SUFFICES ASSUME Init PROVE PassesCounted
  OBVIOUS
<1>1. \A w \in Workers : pc[w] = "idle"
  BY DEF Init, Actors
<1> QED BY <1>1 DEF Init, PassesCounted, PassCounted

(* A step of another actor, and one that leaves the pass where it is. *)
LEMMA CountKept ==
  ASSUME NEW w \in Workers, PassCounted(w), listed'[w] = listed[w],
         todo'[w] = todo[w], result'[w] = result[w],
         \/ pc'[w] = pc[w]
         \/ {pc[w], pc'[w]} \cap {"idle", "list", "pass", "cycles"} = {},
         req'[w] = req[w]
  PROVE  PassCounted(w)'
BY DEF PassCounted, InCall

(* A call of a pass stays the same call until the pass looks at its answer. *)
LEMMA CallCounted ==
  ASSUME TypeOK, Inv, NEW c \in Actors, CallStep(c) \/ Fault(c)
  PROVE  /\ UNCHANGED scheduler
         /\ \A w \in Workers \ {c} : pc'[w] = pc[w] /\ req'[w] = req[w]
         /\ c \in Workers =>
              /\ req'[c] = req[c]
              /\ {pc[c], pc'[c]} \cap {"idle", "list", "pass", "cycles"} = {}
         /\ \E x : Existing' \subseteq Existing \cup {x}
<1> USE DEF Actors
<1>1. ASSUME NEW outcome \in {"returned", "threw"}, EndCall(c, outcome)
      PROVE  /\ \A w \in Workers \ {c} : pc'[w] = pc[w] /\ req'[w] = req[w]
             /\ c \in Workers => req'[c] = req[c] /\ pc'[c] \in {"returned", "threw"}
  BY <1>1, EndCallEffect
<1>2. ASSUME conns' = conns PROVE \E x : Existing' \subseteq Existing \cup {x}
  BY <1>2 DEF Existing
<1>3. CASE Replay(c) \/ KeyTaken(c) \/ QueryFails(c)
  BY <1>1, <1>2, <1>3 DEF Replay, KeyTaken, QueryFails, Return, Throw, governance
<1>4. CASE Commit(c)
  <2>1. Existing' \subseteq Existing \cup {req[c].on}
    BY <1>4 DEF Commit, SaveConnection, SaveValidation, Existing, TypeOK
  <2> QED BY <1>1, <1>4, <2>1 DEF Commit, Return
<1>5. CASE KeyNotFound(c)
  <2>1. req[c].op \in {"create", "validate"}
    BY <1>5 DEF KeyNotFound, Inv, CallsFormed
  <2>2. CASE req[c].op = "validate" /\ ~Found(req[c])
    BY <1>1, <1>2, <1>5, <2>2 DEF KeyNotFound, Throw, governance
  <2>3. CASE req[c].op = "create" \/ Found(req[c])
    <3>1. /\ pc[c] = "begin" /\ UNCHANGED <<req, scheduler, conns>>
          /\ Goto(c, "write") \/ Goto(c, "probe")
      BY <1>5, <2>1, <2>3 DEF KeyNotFound, governance
    <3> QED BY <1>2, <3>1 DEF Goto, TypeOK
  <2> QED BY <2>1, <2>2, <2>3
<1>6. CASE FindConnection(c)
  <2>1. CASE ~Found(req[c])
    BY <1>1, <1>2, <1>6, <2>1 DEF FindConnection, Throw, governance
  <2>2. CASE Found(req[c])
    BY <1>2, <1>6, <2>2 DEF FindConnection, Goto, TypeOK, governance
  <2> QED BY <2>1, <2>2
<1>7. CASE Probe(c) \/ Fetch(c)
  BY <1>2, <1>7 DEF Probe, Fetch, Goto, TypeOK, governance
<1>8. CASE FetchFails(c) \/ SaveFails(c) \/ SaveUnconfirmed(c)
  <2>1. IngestionFails(c) /\ UNCHANGED <<governance, scheduler>>
        /\ pc[c] \in {"fetch", "save"}
    BY <1>8 DEF FetchFails, SaveFails, SaveUnconfirmed
  <2> QED BY <1>2, <2>1, IngestFailsEffect DEF governance
<1>9. CASE Save(c) \/ SaveReplayed(c)
  <2>1. PICK b \in Batch : Holds(c, b)
    <3>1. CASE Save(c)
      <4>1. batches' \subseteq Batch
        BY <1>9, <3>1, SaveFacts, IngestFacts DEF Save, Store!IngestAndServe
      <4> QED BY <3>1, <4>1 DEF Save
    <3>2. CASE SaveReplayed(c)
      BY <3>2 DEF SaveReplayed, TypeOK
    <3> QED BY <1>9, <3>1, <3>2
  <2> QED BY <1>2, <1>9, <2>1, HoldsEffect DEF Save, SaveReplayed, governance
<1>10. CASE RecordDone(c) \/ RecordFailed(c)
  BY <1>1, <1>2, <1>10 DEF RecordDone, RecordFailed, Return, Throw
<1> QED BY <1>3, <1>4, <1>5, <1>6, <1>7, <1>8, <1>9, <1>10 DEF CallStep, Fault

LEMMA ExistingFinite ==
  ASSUME IsFiniteSet(Existing), NEW x, Existing' \subseteq Existing \cup {x}
  PROVE  IsFiniteSet(Existing')
<1>1. IsFiniteSet(Existing \cup {x})
  BY FS_AddElement
<1> QED BY <1>1, FS_Subset

(* After a validation, the pass is in an ingestion, or done with the        *)
(* connection.                                                              *)
LEMMA IngestNextCounted ==
  ASSUME TypeOK, Inv, NEW w \in Workers, PassCounted(w), IngestNext(w),
         InCall(w, "validate"), UNCHANGED <<listed, todo>>,
         NEW field \in {"validated", "failed"}, Count(w, field)
  PROVE  PassCounted(w)'
<1>1. req[w].on \in DOMAIN listed[w] /\ pc[w] # "idle" /\ ~InCall(w, "ingest")
  BY InvIs DEF PassOK, InCall
<1>2. \/ pc'[w] = "pass"
      \/ pc'[w] = "find" /\ req'[w].op = "ingest"
  BY <1>1, IngestNextEffect
<1>3. ~InCall(w, "validate")' /\ pc'[w] \notin {"idle", "list", "cycles"}
  BY <1>2 DEF InCall
<1>4. /\ result'[w].scanned = result[w].scanned
      /\ result'[w].ingested = result[w].ingested
      /\ result'[w].validated + result'[w].failed
           = result[w].validated + result[w].failed + 1
  BY CountEffect, ResultType
<1>5. /\ result'[w].validated \in Nat /\ result'[w].failed \in Nat
  BY CountEffect, ResultType
<1>6. /\ IsFiniteSet(DOMAIN listed'[w])
      /\ result'[w].scanned + Cardinality(todo'[w]) = Cardinality(DOMAIN listed'[w])
      /\ result[w].scanned <= result[w].validated + result[w].failed + 1
      /\ result[w].validated + result[w].ingested + result[w].failed + 2 + 0
           <= 2 * result[w].scanned
  BY <1>1, <1>4 DEF PassCounted, InCall
<1>7. /\ result'[w].scanned <= result'[w].validated + result'[w].failed + 0
      /\ \A i \in 0 .. 1 :
           result'[w].validated + result'[w].ingested + result'[w].failed + 2 * 0 + i
             <= 2 * result'[w].scanned
  BY <1>4, <1>5, <1>6, ResultType
<1> QED BY <1>3, <1>6, <1>7 DEF PassCounted

LEMMA PassStepCounted ==
  ASSUME TypeOK, Inv, NEW w \in Workers, PassCounted(w), IsFiniteSet(Existing),
         Tick(w) \/ PassStep(w)
  PROVE  PassCounted(w)'
<1> DEFINE r == result[w]
<1>1. w \in Actors /\ PassOK(w) /\ CallOK(w)
  BY InvIs DEF Actors
<1>0. /\ r.scanned \in Nat /\ r.validated \in Nat /\ r.ingested \in Nat
      /\ r.failed \in Nat
  BY ResultType
<1>2. CASE Tick(w)
  <2>1. pc'[w] = "list" /\ result'[w] = NoResult
    BY <1>1, <1>2 DEF Tick, Goto, TypeOK
  <2> QED BY <2>1 DEF PassCounted
<1>3. CASE ListConnections(w)
  <2>1. /\ pc[w] = "list" /\ pc'[w] = "pass" /\ todo'[w] = Existing
        /\ DOMAIN listed'[w] = Existing /\ result' = result
    BY <1>1, <1>3 DEF ListConnections, Goto, TypeOK
  <2>2. result'[w] = NoResult /\ ~InCall(w, "validate")' /\ ~InCall(w, "ingest")'
    BY <2>1 DEF PassCounted, InCall
  <2>3. Cardinality(Existing) \in Nat
    BY FS_CardinalityType
  <2> QED BY <2>1, <2>2, <2>3 DEF PassCounted, NoResult
<1>4. CASE ListFails(w) \/ FinishPass(w)
  <2>1. pc'[w] = "idle"
    BY <1>1, <1>4 DEF ListFails, FinishPass, EndPass, Goto, TypeOK
  <2> QED BY <2>1 DEF PassCounted
<1>5. CASE NextConnection(w)
  <2> DEFINE call(x) == [op |-> "validate", tenant |-> TenantOf[x], on |-> x,
                         key |-> OnceKey]
  <2>1. PICK x \in todo[w] :
          todo' = [todo EXCEPT ![w] = @ \ {x}] /\ StartCall(w, call(x))
    BY <1>5 DEF NextConnection
  <2>2. call(x) \in Request
    BY DEF TypeOK, Request
  <2>3. /\ pc'[w] = "begin" /\ req'[w].op = "validate" /\ todo'[w] = todo[w] \ {x}
        /\ listed' = listed
    BY <1>1, <1>5, <2>1, <2>2, StartCallEffect DEF NextConnection, TypeOK
  <2>4. /\ pc[w] = "pass" /\ IsFiniteSet(DOMAIN listed[w])
        /\ r.scanned + Cardinality(todo[w]) = Cardinality(DOMAIN listed[w])
        /\ r.scanned <= r.validated + r.failed + 0
        /\ r.validated + r.ingested + r.failed + 2 * 0 + 0 <= 2 * r.scanned
    BY <1>5 DEF NextConnection, PassCounted, InCall
  <2>5. IsFiniteSet(todo[w])
    BY <1>1, <2>4, FS_Subset DEF PassOK
  <2>6. /\ Cardinality(todo'[w]) = Cardinality(todo[w]) - 1
        /\ Cardinality(todo[w]) \in Nat
    BY <2>3, <2>5, FS_RemoveElement, FS_CardinalityType
  <2>7. /\ result'[w].scanned = r.scanned + 1 /\ result'[w].validated = r.validated
        /\ result'[w].ingested = r.ingested /\ result'[w].failed = r.failed
    BY <1>5, CountEffect DEF NextConnection
  <2>8. InCall(w, "validate")' /\ ~InCall(w, "ingest")'
    BY <2>3 DEF InCall
  <2>9. /\ result'[w].scanned + Cardinality(todo'[w]) = Cardinality(DOMAIN listed'[w])
        /\ result'[w].scanned <= result'[w].validated + result'[w].failed + 1
        /\ result'[w].validated + result'[w].ingested + result'[w].failed + 2 * 1 + 0
             <= 2 * result'[w].scanned
    BY <1>0, <2>3, <2>4, <2>6, <2>7
  <2> QED BY <2>3, <2>4, <2>8, <2>9 DEF PassCounted
<1>6. CASE Validated(w) \/ RecordInvalid(w)
  <2>1. InCall(w, "validate")
    BY <1>1, <1>6 DEF Validated, RecordInvalid, InCall, CallOK, CallFormed
  <2> QED BY <1>6, <2>1, IngestNextCounted DEF Validated, RecordInvalid
<1>7. CASE ValidationThrew(w)
  BY <1>1, <1>7, CountKept DEF ValidationThrew, Goto, TypeOK, scheduler
<1>8. CASE RecordInvalidFails(w)
  <2>1. /\ InCall(w, "validate") /\ ~InCall(w, "ingest")
        /\ pc'[w] = "pass" /\ listed' = listed /\ todo' = todo
        /\ pc[w] \notin {"idle", "list"}
    BY <1>1, <1>8
    DEF RecordInvalidFails, NextOfPass, InCall, CallOK, CallFormed, Goto, TypeOK
  <2>2. /\ result'[w].scanned = r.scanned /\ result'[w].validated = r.validated
        /\ result'[w].ingested = r.ingested /\ result'[w].failed = r.failed + 1
    BY <1>8, CountEffect DEF RecordInvalidFails
  <2>3. /\ IsFiniteSet(DOMAIN listed[w])
        /\ r.scanned + Cardinality(todo[w]) = Cardinality(DOMAIN listed[w])
        /\ r.scanned <= r.validated + r.failed + 1
        /\ r.validated + r.ingested + r.failed + 2 * 1 + 0 <= 2 * r.scanned
    BY <2>1 DEF PassCounted
  <2>4. ~InCall(w, "validate")' /\ ~InCall(w, "ingest")'
    BY <2>1 DEF InCall
  <2>5. /\ result'[w].scanned <= result'[w].validated + result'[w].failed + 0
        /\ result'[w].validated + result'[w].ingested + result'[w].failed + 2 * 0 + 0
             <= 2 * result'[w].scanned
    BY <1>0, <2>2, <2>3
  <2> QED BY <2>1, <2>2, <2>3, <2>4, <2>5 DEF PassCounted
<1>9. CASE Ingested(w)
  <2>1. /\ InCall(w, "ingest") /\ ~InCall(w, "validate")
        /\ pc'[w] = "pass" /\ listed' = listed /\ todo' = todo
        /\ pc[w] \notin {"idle", "list"}
    BY <1>1, <1>9 DEF Ingested, NextOfPass, InCall, Goto, TypeOK
  <2>2. PICK field \in {"ingested", "failed"} : Count(w, field)
    BY <1>9 DEF Ingested
  <2>3. /\ result'[w].scanned = r.scanned /\ result'[w].validated = r.validated
        /\ result'[w].ingested + result'[w].failed = r.ingested + r.failed + 1
        /\ result'[w].failed \in Nat /\ result'[w].failed >= r.failed
        /\ result'[w].ingested \in Nat
    BY <2>2, CountEffect, ResultType
  <2>4. /\ IsFiniteSet(DOMAIN listed[w])
        /\ r.scanned + Cardinality(todo[w]) = Cardinality(DOMAIN listed[w])
        /\ r.scanned <= r.validated + r.failed + 0
        /\ r.validated + r.ingested + r.failed + 2 * 0 + 1 <= 2 * r.scanned
    BY <2>1 DEF PassCounted
  <2>5. ~InCall(w, "validate")' /\ ~InCall(w, "ingest")'
    BY <2>1 DEF InCall
  <2>6. /\ result'[w].scanned <= result'[w].validated + result'[w].failed + 0
        /\ result'[w].validated + result'[w].ingested + result'[w].failed + 2 * 0 + 0
             <= 2 * result'[w].scanned
    BY <1>0, <2>3, <2>4
  <2> QED BY <2>1, <2>3, <2>4, <2>5, <2>6 DEF PassCounted
<1>10. CASE RunCycles(w)
  <2>1. /\ pc[w] = "pass" /\ pc'[w] = "cycles" /\ todo[w] = {}
        /\ UNCHANGED <<listed, todo, result, req>>
    BY <1>1, <1>10 DEF RunCycles, Goto, TypeOK, scheduler
  <2> QED BY <2>1 DEF PassCounted, InCall
<1> QED
  BY <1>2, <1>3, <1>4, <1>5, <1>6, <1>7, <1>8, <1>9, <1>10 DEF PassStep

(* What a step of one pass does to another, and to the table: nothing. *)
LEMMA OtherPass ==
  ASSUME TypeOK, Inv, NEW v \in Workers, Tick(v) \/ PassStep(v)
  PROVE  /\ Existing' = Existing
         /\ \A w \in Workers \ {v} :
              /\ pc'[w] = pc[w] /\ req'[w] = req[w] /\ todo'[w] = todo[w]
              /\ listed'[w] = listed[w] /\ result'[w] = result[w]
<1> USE DEF Actors
<1>1. CASE \/ Tick(v) \/ ListConnections(v) \/ ListFails(v) \/ RunCycles(v)
           \/ FinishPass(v) \/ ValidationThrew(v)
  BY <1>1 DEF Tick, ListConnections, ListFails, RunCycles, FinishPass, EndPass,
              ValidationThrew, Goto, TypeOK, Existing, governance, scheduler
<1>2. CASE NextConnection(v)
  <2>1. PICK x \in todo[v] :
          /\ todo' = [todo EXCEPT ![v] = @ \ {x}]
          /\ StartCall(v, [op |-> "validate", tenant |-> TenantOf[x], on |-> x,
                           key |-> OnceKey])
    BY <1>2 DEF NextConnection
  <2> QED BY <1>2, <2>1, CountEffect
          DEF NextConnection, StartCall, Goto, TypeOK, Existing, governance
<1>3. CASE Validated(v) \/ RecordInvalid(v)
  <2>1. /\ req[v].on \in DOMAIN listed[v] /\ pc[v] # "idle" /\ IngestNext(v)
        /\ UNCHANGED <<conns, listed, todo>>
        /\ Count(v, "validated") \/ Count(v, "failed")
    BY <1>3, InvIs DEF Validated, RecordInvalid, PassOK, governance
  <2> QED BY <2>1, IngestNextEffect, CountEffect DEF Existing
<1>4. CASE RecordInvalidFails(v) \/ Ingested(v)
  <2>1. /\ NextOfPass(v) /\ UNCHANGED <<conns, listed, todo>>
        /\ Count(v, "ingested") \/ Count(v, "failed")
    BY <1>4 DEF RecordInvalidFails, Ingested, governance
  <2> QED BY <2>1, CountEffect DEF NextOfPass, Goto, TypeOK, Existing
<1> QED BY <1>1, <1>2, <1>3, <1>4 DEF PassStep

LEMMA CountedStep == TypeOK /\ Inv /\ PassesCounted /\ [Next]_vars => PassesCounted'
<1> SUFFICES ASSUME TypeOK, Inv, PassesCounted, [Next]_vars PROVE PassesCounted'
  OBVIOUS
<1>1. IsFiniteSet(Existing) /\ \A w \in Workers : PassCounted(w)
  BY DEF PassesCounted
<1>2. ASSUME NEW u \in Users, Call(u) PROVE PassesCounted'
  <2>1. /\ UNCHANGED <<conns, scheduler>>
        /\ \A w \in Workers : pc'[w] = pc[w] /\ req'[w] = req[w]
    BY <1>2 DEF Call, StartCall, Goto, TypeOK, Actors, governance
  <2> QED BY <1>1, <2>1, CountKept DEF PassesCounted, Existing, scheduler
<1>3. ASSUME NEW w \in Workers, Tick(w) \/ PassStep(w) PROVE PassesCounted'
  <2>1. PassCounted(w)'
    BY <1>1, <1>3, PassStepCounted
  <2>2. \A v \in Workers \ {w} : PassCounted(v)'
    BY <1>1, <1>3, OtherPass, CountKept
  <2> QED BY <1>1, <1>3, <2>1, <2>2, OtherPass DEF PassesCounted
<1>4. ASSUME NEW c \in Actors, CallStep(c) \/ Fault(c) PROVE PassesCounted'
  <2>1. IsFiniteSet(Existing')
    BY <1>1, <1>4, CallCounted, ExistingFinite
  <2>2. \A w \in Workers : PassCounted(w)'
    BY <1>1, <1>4, CallCounted, CountKept DEF scheduler
  <2> QED BY <2>1, <2>2 DEF PassesCounted
<1>5. ASSUME NEW c \in Actors, Crash(c) PROVE PassesCounted'
  <2>1. /\ pc'[c] = "idle" /\ UNCHANGED <<conns, listed, result>>
        /\ \A w \in Workers \ {c} :
             pc'[w] = pc[w] /\ req'[w] = req[w] /\ todo'[w] = todo[w]
    BY <1>5 DEF Crash, Goto, TypeOK, governance, Actors
  <2>2. c \in Workers => PassCounted(c)'
    BY <2>1 DEF PassCounted
  <2>3. \A w \in Workers \ {c} : PassCounted(w)'
    BY <1>1, <2>1, CountKept
  <2> QED BY <1>1, <2>1, <2>2, <2>3 DEF PassesCounted, Existing
<1>6. CASE UNCHANGED vars
  BY <1>1, <1>6, CountKept DEF vars, scheduler, governance, PassesCounted, Existing
<1> QED BY <1>2, <1>3, <1>4, <1>5, <1>6 DEF Next

(* A pass that gets to its end has visited every connection it listed and   *)
(* counted what became of it, for any table of connections and any number   *)
(* of workers, whatever fails or is registered in between.                  *)
THEOREM EveryPassVisitsAll == Spec => []PassVisitsAll
<1>1. Init => PassesCounted
  BY CountedInit
<1>2. TypeOK /\ Inv /\ PassesCounted /\ [Next]_vars => PassesCounted'
  BY CountedStep
<1>3. TypeOK /\ PassesCounted => PassVisitsAll
  <2> SUFFICES ASSUME TypeOK, PassesCounted, NEW w \in Workers, pc[w] = "cycles"
               PROVE  LET r == result[w]
                      IN  /\ r.scanned = Cardinality(DOMAIN listed[w])
                          /\ r.scanned <= r.validated + r.failed
                          /\ r.validated + r.ingested + r.failed <= 2 * r.scanned
    BY DEF PassVisitsAll
  <2>1. Cardinality(todo[w]) = 0
    BY FS_EmptySet DEF PassesCounted, PassCounted
  <2>2. ~InCall(w, "validate") /\ ~InCall(w, "ingest")
    BY DEF InCall
  <2> QED BY <2>1, <2>2, ResultType DEF PassesCounted, PassCounted
<1> QED BY <1>1, <1>2, <1>3, Invariance, PTL DEF Spec
=============================================================================
