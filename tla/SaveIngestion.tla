--------------------------- MODULE SaveIngestion ---------------------------
(***************************************************************************)
(* PostgresCostModelRepository.saveIngestion: one transaction per call, on *)
(* a connection of its own, at PostgreSQL's default isolation (READ        *)
(* COMMITTED). Every await of the code is a point where another call can   *)
(* run, so every query is an action. The unique indexes and row locks that *)
(* the queries meet belong to PostgreSQL and are modelled by what they do  *)
(* to a transaction: wait, fail, or be chosen as a deadlock victim.        *)
(***************************************************************************)
EXTENDS Naturals, Sequences, FiniteSets

CONSTANTS
  Clients,   \* calls of saveIngestion that can be in progress at once
  Tenants, Keys, Sources, BatchId, Fps, Files,   \* as in CostStore
  Accounts,  \* external account identifiers, one provider each
  AccountOf, \* account of a billing row: part of its fingerprint
  None       \* no request in progress

ASSUME BatchIdAssumption ==
  BatchId \subseteq [tenant : Tenants, key : Keys, source : Sources]

ASSUME FilesAssumption == Files \subseteq Seq(Fps)

ASSUME AccountOfAssumption == AccountOf \in [Fps -> Accounts]

VARIABLES
  batches,     \* table ingestion_batches, committed rows
  records,     \* table cost_records, committed rows
  accounts,    \* table accounts, committed rows
  pc,          \* the query each client sends next
  req,         \* the arguments of each client's call
  at,          \* index of the billing row each client is storing
  newBatch,    \* batch row each open transaction inserted, if it did
  newRecords,  \* fingerprints each open transaction inserted
  newAccounts, \* accounts each open transaction upserted, and so locked
  ingested,    \* the local ingestedRows of each call
  duplicates,  \* the local duplicateRows of each call
  served       \* history: the batches that callers were answered with

tables == <<batches, records, accounts>>
writes == <<newBatch, newRecords, newAccounts>>
locals == <<req, at, ingested, duplicates>>
vars == <<tables, writes, locals, pc, served>>

Batch == [id : BatchId, ingested : Nat, duplicates : Nat]
Record == [tenant : Tenants, fp : Fps, batch : BatchId]
Account == [tenant : Tenants, account : Accounts]
Request == [id : BatchId, rows : Files]

ASSUME NoneAssumption == None \notin Request

(* The queries of a transaction that has stored its batch row. *)
RowSteps == {"upsertAccount", "checkRow", "insertRow"}

AfterBatch == RowSteps \cup {"updateCounts", "commit"}

InTransaction == AfterBatch \cup {"insertBatch"}

TypeOK ==
  /\ batches \subseteq Batch
  /\ records \subseteq Record
  /\ accounts \subseteq Account
  /\ served \subseteq Batch
  /\ pc \in [Clients -> InTransaction \cup {"idle", "lookup", "rollback"}]
  /\ req \in [Clients -> Request \cup {None}]
  /\ at \in [Clients -> Nat \ {0}]
  /\ newBatch \in [Clients -> SUBSET BatchId]
  /\ newRecords \in [Clients -> SUBSET Fps]
  /\ newAccounts \in [Clients -> SUBSET Accounts]
  /\ ingested \in [Clients -> Nat]
  /\ duplicates \in [Clients -> Nat]

Init ==
  /\ batches = {}
  /\ records = {}
  /\ accounts = {}
  /\ served = {}
  /\ pc = [c \in Clients |-> "idle"]
  /\ req = [c \in Clients |-> None]
  /\ at = [c \in Clients |-> 1]
  /\ newBatch = [c \in Clients |-> {}]
  /\ newRecords = [c \in Clients |-> {}]
  /\ newAccounts = [c \in Clients |-> {}]
  /\ ingested = [c \in Clients |-> 0]
  /\ duplicates = [c \in Clients |-> 0]
-----------------------------------------------------------------------------
(* What a call reads. *)

tenant(c) == req[c].id.tenant

Fp(c) == req[c].rows[at[c]]

SameKey(i, j) == i.tenant = j.tenant /\ i.key = j.key

StoredFps(t) == {r.fp : r \in {q \in records : q.tenant = t}}

(* Mutant of StoredFps' use: the duplicate is looked for in every tenant. *)
IsDuplicateAnyTenant(c) ==
  Fp(c) \in {r.fp : r \in records} \cup newRecords[c]

(* The SELECT for a duplicate sees committed rows and the call's own. *)
IsDuplicate(c) == Fp(c) \in StoredFps(tenant(c)) \cup newRecords[c]

BatchRow(c) ==
  [id |-> req[c].id, ingested |-> ingested[c], duplicates |-> duplicates[c]]
-----------------------------------------------------------------------------
(***************************************************************************)
(* PostgreSQL: an insert waits for an open transaction that inserted the   *)
(* same unique key, an upsert for one that wrote the same row. A failed    *)
(* transaction makes others wait until its ROLLBACK.                       *)
(***************************************************************************)

BatchBlockers(c) ==
  {d \in Clients \ {c} : \E i \in newBatch[d] : SameKey(i, req[c].id)}

AccountBlockers(c) ==
  {d \in Clients \ {c} :
     AccountOf[Fp(c)] \in newAccounts[d] /\ tenant(d) = tenant(c)}

RecordBlockers(c) ==
  {d \in Clients \ {c} : Fp(c) \in newRecords[d] /\ tenant(d) = tenant(c)}

WaitsFor(c) ==
  {d \in Clients :
     \/ pc[c] = "insertBatch" /\ d \in BatchBlockers(c)
     \/ pc[c] = "upsertAccount" /\ d \in AccountBlockers(c)
     \/ pc[c] = "insertRow" /\ d \in RecordBlockers(c)}

(* At most one transaction holds what another waits for, so a set in which *)
(* each waits for a member and is waited for by a member is made of cycles. *)
OnWaitCycle(c) ==
  \E S \in SUBSET Clients :
    /\ c \in S
    /\ \A d \in S : WaitsFor(d) \cap S # {}
    /\ \A d \in S : \E e \in S : d \in WaitsFor(e)

(* Mutant of EndCall: the row counters outlive the call, as a field would. *)
EndCallKeepsCounters(c) ==
  /\ pc' = [pc EXCEPT ![c] = "idle"]
  /\ req' = [req EXCEPT ![c] = None]
  /\ at' = [at EXCEPT ![c] = 1]
  /\ newBatch' = [newBatch EXCEPT ![c] = {}]
  /\ newRecords' = [newRecords EXCEPT ![c] = {}]
  /\ newAccounts' = [newAccounts EXCEPT ![c] = {}]
  /\ UNCHANGED <<ingested, duplicates>>

(* The transaction of c is over: its locks are free, its writes published *)
(* by COMMIT or gone with ROLLBACK.                                       *)
EndCall(c) ==
  /\ pc' = [pc EXCEPT ![c] = "idle"]
  /\ req' = [req EXCEPT ![c] = None]
  /\ at' = [at EXCEPT ![c] = 1]
  /\ newBatch' = [newBatch EXCEPT ![c] = {}]
  /\ newRecords' = [newRecords EXCEPT ![c] = {}]
  /\ newAccounts' = [newAccounts EXCEPT ![c] = {}]
  /\ ingested' = [ingested EXCEPT ![c] = 0]
  /\ duplicates' = [duplicates EXCEPT ![c] = 0]
-----------------------------------------------------------------------------
(* saveIngestion is called with the rows its caller read and parsed. *)
Call(c) ==
  /\ pc[c] = "idle"
  /\ \E id \in BatchId, rows \in Files :
       req' = [req EXCEPT ![c] = [id |-> id, rows |-> rows]]
  /\ pc' = [pc EXCEPT ![c] = "lookup"]
  /\ UNCHANGED <<tables, writes, at, ingested, duplicates, served>>

(* BEGIN and the SELECT by idempotency key find a batch: COMMIT, and the *)
(* caller is answered with it whatever rows it brought.                  *)
Replay(c) ==
  /\ pc[c] = "lookup"
  /\ \E b \in batches : SameKey(b.id, req[c].id) /\ served' = served \cup {b}
  /\ EndCall(c)
  /\ UNCHANGED tables

LookupFindsNone(c) ==
  /\ pc[c] = "lookup"
  /\ ~ \E b \in batches : SameKey(b.id, req[c].id)
  /\ pc' = [pc EXCEPT ![c] = "insertBatch"]
  /\ UNCHANGED <<tables, writes, locals, served>>

(* Mutant of AfterRow: the account is upserted for the first row only. *)
AfterRowOneAccount(c, next) ==
  pc' = [pc EXCEPT ![c] =
           IF next > Len(req[c].rows) THEN "updateCounts"
           ELSE IF next > 1 THEN "checkRow" ELSE "upsertAccount"]

(* The loop over input.rows: its next row, or its end. *)
AfterRow(c, next) ==
  pc' = [pc EXCEPT ![c] =
           IF next > Len(req[c].rows) THEN "updateCounts" ELSE "upsertAccount"]

(* Mutant of InsertBatch: no unique index on tenant and key. *)
InsertBatchNoIndex(c) ==
  /\ pc[c] = "insertBatch"
  /\ newBatch' = [newBatch EXCEPT ![c] = {req[c].id}]
  /\ AfterRow(c, at[c])
  /\ UNCHANGED <<tables, newRecords, newAccounts, locals, served>>

(* The INSERT of the batch row, once no open transaction holds its key. *)
InsertBatch(c) ==
  /\ pc[c] = "insertBatch"
  /\ BatchBlockers(c) = {}
  /\ ~ \E b \in batches : SameKey(b.id, req[c].id)
  /\ newBatch' = [newBatch EXCEPT ![c] = {req[c].id}]
  /\ AfterRow(c, at[c])
  /\ UNCHANGED <<tables, newRecords, newAccounts, locals, served>>

(* The key was committed since the SELECT: the unique index fails the call. *)
BatchKeyTaken(c) ==
  /\ pc[c] = "insertBatch"
  /\ BatchBlockers(c) = {}
  /\ \E b \in batches : SameKey(b.id, req[c].id)
  /\ pc' = [pc EXCEPT ![c] = "rollback"]
  /\ UNCHANGED <<tables, writes, locals, served>>

(* INSERT INTO accounts ... ON CONFLICT DO UPDATE: the row stays locked, *)
(* whether it was there or not, until the transaction ends.              *)
UpsertAccount(c) ==
  /\ pc[c] = "upsertAccount"
  /\ AccountBlockers(c) = {}
  /\ newAccounts' = [newAccounts EXCEPT ![c] = @ \cup {AccountOf[Fp(c)]}]
  /\ pc' = [pc EXCEPT ![c] = "checkRow"]
  /\ UNCHANGED <<tables, newBatch, newRecords, locals, served>>

(* The SELECT by fingerprint finds the row: duplicateRows, continue. *)
CountDuplicate(c) ==
  /\ pc[c] = "checkRow"
  /\ IsDuplicate(c)
  /\ duplicates' = [duplicates EXCEPT ![c] = @ + 1]
  /\ at' = [at EXCEPT ![c] = @ + 1]
  /\ AfterRow(c, at[c] + 1)
  /\ UNCHANGED <<tables, writes, req, ingested, served>>

RowIsNew(c) ==
  /\ pc[c] = "checkRow"
  /\ ~ IsDuplicate(c)
  /\ pc' = [pc EXCEPT ![c] = "insertRow"]
  /\ UNCHANGED <<tables, writes, locals, served>>

(* The INSERT of the billing row, then ingestedRows. *)
InsertRow(c) ==
  /\ pc[c] = "insertRow"
  /\ RecordBlockers(c) = {}
  /\ Fp(c) \notin StoredFps(tenant(c)) \cup newRecords[c]
  /\ newRecords' = [newRecords EXCEPT ![c] = @ \cup {Fp(c)}]
  /\ ingested' = [ingested EXCEPT ![c] = @ + 1]
  /\ at' = [at EXCEPT ![c] = @ + 1]
  /\ AfterRow(c, at[c] + 1)
  /\ UNCHANGED <<tables, newBatch, newAccounts, req, duplicates, served>>

(* The UPDATE of the batch's counters and the SELECT of the row to return. *)
UpdateCounts(c) ==
  /\ pc[c] = "updateCounts"
  /\ pc' = [pc EXCEPT ![c] = "commit"]
  /\ UNCHANGED <<tables, writes, locals, served>>

(* COMMIT publishes what the transaction wrote. *)
Publish(c) ==
  /\ batches' = batches \cup {BatchRow(c)}
  /\ records' = records \cup
       {[tenant |-> tenant(c), fp |-> f, batch |-> req[c].id] :
          f \in newRecords[c]}
  /\ accounts' = accounts \cup
       {[tenant |-> tenant(c), account |-> a] : a \in newAccounts[c]}

Commit(c) ==
  /\ pc[c] = "commit"
  /\ Publish(c)
  /\ served' = served \cup {BatchRow(c)}
  /\ EndCall(c)

(* The server commits and the connection breaks before it says so: the *)
(* code's catch sends a ROLLBACK that undoes nothing and throws.       *)
CommitUnconfirmed(c) ==
  /\ pc[c] = "commit"
  /\ Publish(c)
  /\ EndCall(c)
  /\ UNCHANGED served

(* A query throws: a timeout, a value the column refuses. *)
QueryFails(c) ==
  /\ pc[c] \in InTransaction \cup {"lookup"}
  /\ pc' = [pc EXCEPT ![c] = "rollback"]
  /\ UNCHANGED <<tables, writes, locals, served>>

(* PostgreSQL ends a deadlock by failing a transaction on the cycle. *)
DeadlockVictim(c) ==
  /\ OnWaitCycle(c)
  /\ pc' = [pc EXCEPT ![c] = "rollback"]
  /\ UNCHANGED <<tables, writes, locals, served>>

(* Mutant of Rollback: the connection goes back to the pool with its *)
(* failed transaction still open.                                    *)
RollbackForgotten(c) ==
  /\ pc[c] = "rollback"
  /\ pc' = [pc EXCEPT ![c] = "idle"]
  /\ UNCHANGED <<tables, writes, locals, served>>

(* The catch: ROLLBACK, and the caller gets the error. *)
Rollback(c) ==
  /\ pc[c] = "rollback"
  /\ EndCall(c)
  /\ UNCHANGED <<tables, served>>

(* The process or its connection dies: PostgreSQL drops the transaction. *)
Crash(c) ==
  /\ pc[c] # "idle"
  /\ EndCall(c)
  /\ UNCHANGED <<tables, served>>

(* The steps the code takes when nothing fails. *)
Step(c) ==
  \/ Replay(c) \/ LookupFindsNone(c)
  \/ InsertBatch(c) \/ BatchKeyTaken(c)
  \/ UpsertAccount(c) \/ CountDuplicate(c) \/ RowIsNew(c) \/ InsertRow(c)
  \/ UpdateCounts(c) \/ Commit(c) \/ Rollback(c)

Fault(c) == CommitUnconfirmed(c) \/ QueryFails(c) \/ Crash(c)

Next == \E c \in Clients : Call(c) \/ Step(c) \/ DeadlockVictim(c) \/ Fault(c)

Spec == Init /\ [][Next]_vars

(***************************************************************************)
(* Node runs every continuation that is ready and PostgreSQL answers every *)
(* query; its lock queues are first come, first served, so a waiter is not *)
(* passed over for ever (SF); its deadlock detector runs on a timer.       *)
(***************************************************************************)
Fairness ==
  \A c \in Clients : SF_vars(Step(c)) /\ WF_vars(DeadlockVictim(c))

FairSpec == Spec /\ Fairness
-----------------------------------------------------------------------------
Store == INSTANCE CostStore

(* Seen from its tables, a call of saveIngestion is one atomic step: rows   *)
(* checked one by one while other calls run are classified as if all had    *)
(* been checked at COMMIT, a failed call leaves nothing behind, and every   *)
(* answer is a stored batch.                                                *)
ImplementsCostStore == Store!Spec

(* The INSERT of a billing row never meets its unique index: a row with the *)
(* same fingerprint has the same account, whose row lock serialises the     *)
(* calls, so the SELECT before the INSERT is still true when it runs. The   *)
(* code has no other protection between the two queries.                    *)
InsertMeetsNoDuplicate ==
  \A c \in Clients : pc[c] = "insertRow" =>
    /\ Fp(c) \notin StoredFps(tenant(c))
    /\ RecordBlockers(c) = {}

(* Callers that use one idempotency key are all answered with the same      *)
(* batch and the same counters, whatever files they sent and however their  *)
(* calls interleaved.                                                       *)
AnswersAgree ==
  \A a, b \in served : SameKey(a.id, b.id) => a = b

(* The ledger balances: a stored batch has as many billing rows as its      *)
(* ingestedRows says, and every billing row belongs to a stored batch of    *)
(* its tenant. No call that failed half way leaves a row that counts.       *)
LedgerBalances ==
  /\ \A b \in batches :
       Cardinality({r \in records : r.batch = b.id}) = b.ingested
  /\ \A r \in records :
       r.batch.tenant = r.tenant /\ \E b \in batches : b.id = r.batch

(* Every stored billing row has the accounts row its reads join with: the   *)
(* database has no foreign key for it, the order of the queries keeps it.   *)
RecordsHaveAccount ==
  \A r \in records :
    [tenant |-> r.tenant, account |-> AccountOf[r.fp]] \in accounts

(***************************************************************************)
(* What the open transactions rely on, one named part each: the inductive  *)
(* invariant from which SaveIngestionProofs derives the properties above.  *)
(***************************************************************************)

(* A call that holds no batch row has written nothing. *)
CleanBeforeInsert ==
  \A c \in Clients : pc[c] \in {"idle", "lookup", "insertBatch"} =>
    /\ newBatch[c] = {} /\ newRecords[c] = {} /\ newAccounts[c] = {}
    /\ at[c] = 1 /\ ingested[c] = 0 /\ duplicates[c] = 0

(* The batch row written is the call's own. *)
OwnBatch ==
  \A c \in Clients :
    /\ \A i \in newBatch[c] : i = req[c].id
    /\ pc[c] \in AfterBatch => newBatch[c] = {req[c].id}

(* The account of a row is locked before the row is looked up. *)
AccountsLocked ==
  \A c \in Clients :
    /\ \A f \in newRecords[c] : AccountOf[f] \in newAccounts[c]
    /\ pc[c] \in {"checkRow", "insertRow"} => AccountOf[Fp(c)] \in newAccounts[c]

(* No two open transactions hold one account or one key. *)
LocksExclusive ==
  \A c, d \in Clients : c # d =>
    /\ \A a \in newAccounts[c] \cap newAccounts[d] : tenant(c) # tenant(d)
    /\ \A i \in newBatch[c], j \in newBatch[d] : ~SameKey(i, j)

(* What a transaction is about to publish is not there yet. *)
WritesAreNew ==
  \A c \in Clients :
    /\ \A f \in newRecords[c] : f \notin StoredFps(tenant(c))
    /\ \A i \in newBatch[c], b \in batches : ~SameKey(b.id, i)
    /\ pc[c] = "insertRow" => Fp(c) \notin StoredFps(tenant(c)) \cup newRecords[c]

(* The counters say how the rows so far were classified. *)
CountersExact ==
  \A c \in Clients :
    /\ IsFiniteSet(newRecords[c]) /\ Cardinality(newRecords[c]) = ingested[c]
    /\ pc[c] \in AfterBatch => ingested[c] + duplicates[c] = at[c] - 1
    /\ pc[c] \in {"updateCounts", "commit"} => at[c] = Len(req[c].rows) + 1

(* Every row passed is stored or about to be, and no other row is. *)
RowsCovered ==
  \A c \in Clients : pc[c] \in AfterBatch =>
    /\ \A i \in 1 .. at[c] - 1 :
         req[c].rows[i] \in newRecords[c] \cup StoredFps(tenant(c))
    /\ newRecords[c] \subseteq {req[c].rows[i] : i \in 1 .. at[c] - 1}

(* One batch per tenant and key, and answers are batches. *)
KeysUnique ==
  /\ \A a, b \in batches : SameKey(a.id, b.id) => a = b
  /\ served \subseteq batches

(* The inductive invariant: an open transaction owns what it decided on. *)
Inv ==
  /\ CleanBeforeInsert /\ OwnBatch /\ AccountsLocked /\ LocksExclusive
  /\ WritesAreNew /\ CountersExact /\ RowsCovered /\ KeysUnique
  /\ LedgerBalances

(* Every call ends, answered or failed, though calls wait for each other's  *)
(* locks in the order of their files' rows and may form a cycle.            *)
CallsEnd ==
  \A c \in Clients : pc[c] # "idle" ~> pc[c] = "idle"
=============================================================================
