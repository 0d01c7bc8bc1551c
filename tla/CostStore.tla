----------------------------- MODULE CostStore -----------------------------
(***************************************************************************)
(* What the cost model promises its callers: a batch of billing rows is    *)
(* stored at once or not at all, at most once per tenant and idempotency   *)
(* key, and a row the tenant already holds is counted, never stored again. *)
(* The repositories that keep this promise are SaveIngestion (PostgreSQL)  *)
(* and, trivially, the in-memory map used without a database.              *)
(***************************************************************************)
EXTENDS Naturals, Sequences, FiniteSets

CONSTANTS
  Tenants,   \* tenants of the deployment
  Keys,      \* values of the Idempotency-Key header
  Sources,   \* provider and source URI of a billing export
  BatchId,   \* batch identities: a hash of tenant, source and key each
  Fps,       \* fingerprints of billing rows
  Files      \* contents a billing export can have, as sequences of fingerprints

VARIABLES
  batches,   \* table ingestion_batches: one record per stored batch
  records,   \* table cost_records: one record per stored billing row
  served     \* history: the batches that callers were answered with

vars == <<batches, records, served>>

Batch == [id : BatchId, ingested : Nat, duplicates : Nat]

Record == [tenant : Tenants, fp : Fps, batch : BatchId]

Init ==
  /\ batches = {}
  /\ records = {}
  /\ served = {}

RowsOf(file) == {file[i] : i \in DOMAIN file}

(* The fingerprints stored for a tenant. *)
Stored(t) == {r.fp : r \in {q \in records : q.tenant = t}}

(* Fingerprints of a file the tenant does not hold yet. *)
Fresh(t, file) == RowsOf(file) \ Stored(t)

(* The whole of saveIngestion in one step. *)
Ingest(id, file) ==
  LET fresh == Fresh(id.tenant, file)
      n == Cardinality(fresh)
  IN  /\ \A b \in batches : ~(b.id.tenant = id.tenant /\ b.id.key = id.key)
      /\ batches' = batches \cup
           {[id |-> id, ingested |-> n, duplicates |-> Len(file) - n]}
      /\ records' = records \cup
           {[tenant |-> id.tenant, fp |-> f, batch |-> id] : f \in fresh}

(* A new batch is stored and its caller answered. *)
IngestAndServe(id, file) ==
  /\ Ingest(id, file)
  /\ \E b \in batches' : b.id = id /\ served' = served \cup {b}

(* A new batch is stored and the answer is lost with the connection. *)
IngestUnanswered(id, file) ==
  /\ Ingest(id, file)
  /\ UNCHANGED served

(* A replay: the caller is answered with the stored batch. *)
Serve(b) ==
  /\ b \in batches
  /\ served' = served \cup {b}
  /\ UNCHANGED <<batches, records>>

Next ==
  \/ \E id \in BatchId, file \in Files :
        IngestAndServe(id, file) \/ IngestUnanswered(id, file)
  \/ \E b \in batches : Serve(b)

Spec == Init /\ [][Next]_vars
=============================================================================
