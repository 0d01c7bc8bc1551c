------------------------ MODULE SaveIngestionProofs ------------------------
(* Proofs about SaveIngestion, for any number of clients, tenants, keys and *)
(* rows: type correctness first, then the invariant that the others need.   *)
EXTENDS SaveIngestion, FiniteSetTheorems, TLAPS

USE BatchIdAssumption, FilesAssumption, AccountOfAssumption, NoneAssumption

(* A call in progress has its arguments; a row step has a row to store. *)
HasRequest ==
  \A c \in Clients :
    /\ pc[c] # "idle" => req[c] \in Request
    /\ pc[c] \in RowSteps => at[c] \in DOMAIN req[c].rows

TypeInv == TypeOK /\ HasRequest

LEMMA FileFacts ==
  ASSUME NEW r \in Request
  PROVE  /\ r.id \in BatchId
         /\ r.id.tenant \in Tenants
         /\ r.rows \in Seq(Fps)
         /\ Len(r.rows) \in Nat
         /\ DOMAIN r.rows = 1 .. Len(r.rows)
         /\ \A i \in DOMAIN r.rows : r.rows[i] \in Fps
BY DEF Request

LEMMA AddToSet ==
  ASSUME NEW S, NEW T, NEW f \in [S -> SUBSET T], NEW c \in S, NEW x \in T
  PROVE  [f EXCEPT ![c] = @ \cup {x}] \in [S -> SUBSET T]
OBVIOUS

LEMMA TypeInit == Init => TypeInv
BY DEF Init, TypeInv, TypeOK, HasRequest, RowSteps, InTransaction, AfterBatch

LEMMA EndCallType ==
  ASSUME TypeInv, NEW c \in Clients, EndCall(c)
  PROVE  /\ pc' \in [Clients -> InTransaction \cup {"idle", "lookup", "rollback"}]
         /\ req' \in [Clients -> Request \cup {None}]
         /\ at' \in [Clients -> Nat \ {0}]
         /\ newBatch' \in [Clients -> SUBSET BatchId]
         /\ newRecords' \in [Clients -> SUBSET Fps]
         /\ newAccounts' \in [Clients -> SUBSET Accounts]
         /\ ingested' \in [Clients -> Nat]
         /\ duplicates' \in [Clients -> Nat]
         /\ HasRequest'
<1>1. \A d \in Clients \ {c} : pc'[d] = pc[d] /\ req'[d] = req[d] /\ at'[d] = at[d]
  BY DEF TypeInv, TypeOK, EndCall
<1>2. pc'[c] = "idle"
  BY DEF TypeInv, TypeOK, EndCall
<1>3. HasRequest'
  BY <1>1, <1>2 DEF TypeInv, HasRequest, RowSteps
<1>. QED
  BY <1>3 DEF TypeInv, TypeOK, EndCall

LEMMA PublishType ==
  ASSUME TypeInv, NEW c \in Clients, pc[c] = "commit", Publish(c)
  PROVE  /\ BatchRow(c) \in Batch
         /\ batches' \subseteq Batch
         /\ records' \subseteq Record
         /\ accounts' \subseteq Account
<1>1. req[c] \in Request
  BY DEF TypeInv, HasRequest
<1>2. req[c].id \in BatchId /\ tenant(c) \in Tenants
  BY <1>1, FileFacts DEF tenant
<1>3. BatchRow(c) \in Batch
  BY <1>2 DEF TypeInv, TypeOK, BatchRow, Batch
<1>4. {[tenant |-> tenant(c), fp |-> f, batch |-> req[c].id] : f \in newRecords[c]}
        \subseteq Record
  BY <1>2 DEF TypeInv, TypeOK, Record
<1>5. {[tenant |-> tenant(c), account |-> a] : a \in newAccounts[c]} \subseteq Account
  BY <1>2 DEF TypeInv, TypeOK, Account
<1>. QED
  BY <1>3, <1>4, <1>5 DEF TypeInv, TypeOK, Publish

(* The steps of c that stay inside its call leave every other client alone. *)
LEMMA TypeStep == TypeInv /\ [Next]_vars => TypeInv'
<1>. SUFFICES ASSUME TypeInv, [Next]_vars  PROVE TypeInv'
  OBVIOUS
<1>. USE DEF tables, writes, locals
<1>1. CASE UNCHANGED vars
  BY <1>1 DEF vars, TypeInv, TypeOK, HasRequest
<1>2. ASSUME NEW c \in Clients, Call(c)  PROVE TypeInv'
  <2>1. PICK id \in BatchId, rows \in Files :
          req' = [req EXCEPT ![c] = [id |-> id, rows |-> rows]]
    BY <1>2 DEF Call
  <2>2. [id |-> id, rows |-> rows] \in Request
    BY DEF Request
  <2>3. TypeOK'
    BY <1>2, <2>1, <2>2 DEF Call, TypeInv, TypeOK
  <2>4. HasRequest'
    BY <1>2, <2>1, <2>2 DEF Call, TypeInv, TypeOK, HasRequest, RowSteps
  <2>. QED  BY <2>3, <2>4 DEF TypeInv
<1>3. ASSUME NEW c \in Clients, EndCall(c), UNCHANGED tables,
             served' = served \/ \E b \in batches : served' = served \cup {b}
      PROVE  TypeInv'
  BY <1>3, EndCallType DEF TypeInv, TypeOK
<1>4. ASSUME NEW c \in Clients, pc[c] = "commit", EndCall(c), Publish(c),
             served' = served \/ served' = served \cup {BatchRow(c)}
      PROVE  TypeInv'
  BY <1>4, EndCallType, PublishType DEF TypeInv, TypeOK
<1>5. ASSUME NEW c \in Clients, pc[c] # "idle",
             UNCHANGED <<tables, newRecords, newAccounts, locals, served>>,
             newBatch' = newBatch \/ newBatch' = [newBatch EXCEPT ![c] = {req[c].id}],
             NEW p \in {"insertBatch", "rollback", "updateCounts", "commit"},
             pc' = [pc EXCEPT ![c] = p]
      PROVE  TypeInv'
  <2>1. newBatch' \in [Clients -> SUBSET BatchId]
    <3>1. req[c].id \in BatchId
      BY <1>5, FileFacts DEF TypeInv, HasRequest
    <3>2. newBatch \in [Clients -> SUBSET BatchId]
      BY DEF TypeInv, TypeOK
    <3>. QED  BY <1>5, <3>1, <3>2
  <2>2. pc' \in [Clients -> InTransaction \cup {"idle", "lookup", "rollback"}]
    BY <1>5 DEF TypeInv, TypeOK, InTransaction, AfterBatch
  <2>3. HasRequest'
    BY <1>5 DEF TypeInv, TypeOK, HasRequest, RowSteps
  <2>. QED  BY <1>5, <2>1, <2>2, <2>3 DEF TypeInv, TypeOK
<1>6. ASSUME NEW c \in Clients, pc[c] \in RowSteps,
             UNCHANGED <<tables, newBatch, newRecords, locals, served>>,
             newAccounts' = newAccounts
               \/ newAccounts' = [newAccounts EXCEPT ![c] = @ \cup {AccountOf[Fp(c)]}],
             NEW p \in RowSteps, pc' = [pc EXCEPT ![c] = p]
      PROVE  TypeInv'
  <2>1. Fp(c) \in Fps
    BY <1>6, FileFacts DEF TypeInv, HasRequest, Fp, RowSteps
  <2>2. newAccounts' \in [Clients -> SUBSET Accounts]
    <3>1. AccountOf[Fp(c)] \in Accounts
      BY <2>1
    <3>2. newAccounts \in [Clients -> SUBSET Accounts]
      BY DEF TypeInv, TypeOK
    <3>. QED  BY <1>6, <3>1, <3>2, AddToSet
  <2>3. pc' \in [Clients -> InTransaction \cup {"idle", "lookup", "rollback"}]
    BY <1>6 DEF TypeInv, TypeOK, InTransaction, AfterBatch
  <2>4. HasRequest'
    BY <1>6 DEF TypeInv, TypeOK, HasRequest, RowSteps
  <2>. QED  BY <1>6, <2>2, <2>3, <2>4 DEF TypeInv, TypeOK
<1>7. ASSUME NEW c \in Clients, pc[c] \in RowSteps \cup {"insertBatch"},
             NEW n \in Nat \ {0}, AfterRow(c, n), at' = [at EXCEPT ![c] = n],
             UNCHANGED <<tables, newAccounts, req, served>>,
             newBatch' \in [Clients -> SUBSET BatchId],
             newRecords' \in [Clients -> SUBSET Fps],
             ingested' \in [Clients -> Nat],
             duplicates' \in [Clients -> Nat]
      PROVE  TypeInv'
  <2>1. req[c] \in Request
    BY <1>7 DEF TypeInv, HasRequest, RowSteps
  <2>2. TypeOK'
    BY <1>7 DEF TypeInv, TypeOK, AfterRow, InTransaction, AfterBatch, RowSteps
  <2>3. ~(n > Len(req[c].rows)) => n \in DOMAIN req[c].rows
    BY <2>1, FileFacts
  <2>4. HasRequest'
    BY <1>7, <2>3 DEF TypeInv, TypeOK, HasRequest, AfterRow, RowSteps
  <2>. QED  BY <2>2, <2>4 DEF TypeInv
<1>8. ASSUME NEW c \in Clients, Step(c)  PROVE TypeInv'
  <2>1. CASE Replay(c)
    BY <2>1, <1>3 DEF Replay
  <2>2. CASE LookupFindsNone(c) \/ BatchKeyTaken(c) \/ UpdateCounts(c)
    BY <2>2, <1>5 DEF LookupFindsNone, BatchKeyTaken, UpdateCounts
  <2>3. CASE InsertBatch(c)
    <3>1. newBatch' \in [Clients -> SUBSET BatchId]
      BY <2>3, FileFacts DEF InsertBatch, TypeInv, TypeOK, HasRequest
    <3>2. at[c] \in Nat \ {0} /\ at' = [at EXCEPT ![c] = at[c]]
      BY <2>3 DEF InsertBatch, TypeInv, TypeOK
    <3>. QED  BY <2>3, <3>1, <3>2, <1>7 DEF InsertBatch, TypeInv, TypeOK
  <2>4. CASE UpsertAccount(c)
    BY <2>4, <1>6 DEF UpsertAccount, RowSteps
  <2>5. CASE RowIsNew(c)
    BY <2>5, <1>6 DEF RowIsNew, RowSteps
  <2>6. CASE CountDuplicate(c)
    <3>1. at[c] + 1 \in Nat \ {0} /\ at' = [at EXCEPT ![c] = at[c] + 1]
      BY <2>6 DEF CountDuplicate, TypeInv, TypeOK
    <3>2. duplicates' \in [Clients -> Nat]
      BY <2>6 DEF CountDuplicate, TypeInv, TypeOK
    <3>. QED
      BY <2>6, <3>1, <3>2, <1>7 DEF CountDuplicate, TypeInv, TypeOK, RowSteps
  <2>7. CASE InsertRow(c)
    <3>1. at[c] + 1 \in Nat \ {0} /\ at' = [at EXCEPT ![c] = at[c] + 1]
      BY <2>7 DEF InsertRow, TypeInv, TypeOK
    <3>2. Fp(c) \in Fps
      BY <2>7, FileFacts DEF InsertRow, TypeInv, HasRequest, Fp, RowSteps
    <3>3. ingested' \in [Clients -> Nat] /\ newRecords' \in [Clients -> SUBSET Fps]
      BY <2>7, <3>2 DEF InsertRow, TypeInv, TypeOK
    <3>. QED
      BY <2>7, <3>1, <3>3, <1>7 DEF InsertRow, TypeInv, TypeOK, RowSteps
  <2>8. CASE Commit(c)
    BY <2>8, <1>4 DEF Commit
  <2>9. CASE Rollback(c)
    BY <2>9, <1>3 DEF Rollback
  <2>. QED
    BY <1>8, <2>1, <2>2, <2>3, <2>4, <2>5, <2>6, <2>7, <2>8, <2>9 DEF Step
<1>9. ASSUME NEW c \in Clients, DeadlockVictim(c) \/ Fault(c)  PROVE TypeInv'
  <2>1. CASE DeadlockVictim(c)
    <3>1. WaitsFor(c) # {}
      BY <2>1 DEF DeadlockVictim, OnWaitCycle
    <3>2. pc[c] # "idle"
      BY <3>1 DEF WaitsFor
    <3>. QED  BY <2>1, <3>2, <1>5 DEF DeadlockVictim
  <2>2. CASE QueryFails(c)
    BY <2>2, <1>5 DEF QueryFails, InTransaction, AfterBatch, RowSteps
  <2>3. CASE CommitUnconfirmed(c)
    BY <2>3, <1>4 DEF CommitUnconfirmed
  <2>4. CASE Crash(c)
    BY <2>4, <1>3 DEF Crash
  <2>. QED  BY <1>9, <2>1, <2>2, <2>3, <2>4 DEF Fault
<1>. QED
  BY <1>1, <1>2, <1>8, <1>9 DEF Next

THEOREM TypeCorrect == Spec => []TypeOK
<1>1. TypeInv => TypeOK
  BY DEF TypeInv
<1>. QED
  BY <1>1, TypeInit, TypeStep, PTL DEF Spec
-----------------------------------------------------------------------------
(***************************************************************************)
(* The inductive invariant Inv. Its heart is WritesAreNew: what a call     *)
(* decided to insert is in no other transaction, because the account of    *)
(* the row is locked (AccountsLocked, LocksExclusive), and so cannot be    *)
(* published by one.                                                       *)
(***************************************************************************)

LEMMA InvInit == Init => Inv
<1>. SUFFICES ASSUME Init PROVE Inv
  OBVIOUS
<1>1. \A c \in Clients : IsFiniteSet(newRecords[c]) /\ Cardinality(newRecords[c]) = ingested[c]
  BY FS_EmptySet DEF Init
<1>2. CountersExact
  BY <1>1 DEF Init, CountersExact, AfterBatch, RowSteps
<1>. QED
  BY <1>2 DEF Init, Inv, CleanBeforeInsert, OwnBatch, AccountsLocked,
     LocksExclusive, WritesAreNew, RowsCovered, KeysUnique, LedgerBalances,
     AfterBatch, RowSteps

(* What EndCall does, client by client. *)
LEMMA EndCallEffect ==
  ASSUME TypeInv, NEW c \in Clients, EndCall(c)
  PROVE  /\ pc'[c] = "idle" /\ newBatch'[c] = {} /\ newRecords'[c] = {}
         /\ newAccounts'[c] = {} /\ at'[c] = 1 /\ ingested'[c] = 0
         /\ duplicates'[c] = 0
         /\ \A d \in Clients \ {c} :
              /\ pc'[d] = pc[d] /\ req'[d] = req[d] /\ at'[d] = at[d]
              /\ newBatch'[d] = newBatch[d] /\ newRecords'[d] = newRecords[d]
              /\ newAccounts'[d] = newAccounts[d]
              /\ ingested'[d] = ingested[d] /\ duplicates'[d] = duplicates[d]
BY DEF EndCall, TypeInv, TypeOK

(* The parts of Inv that speak of each client alone, or of two clients, and *)
(* not of the tables.                                                       *)
LEMMA EndCallLocal ==
  ASSUME TypeInv, Inv, NEW c \in Clients, EndCall(c)
  PROVE  /\ CleanBeforeInsert' /\ OwnBatch' /\ AccountsLocked'
         /\ LocksExclusive' /\ CountersExact'
<1>. USE EndCallEffect DEF Inv
<1>1. CleanBeforeInsert'
  BY DEF CleanBeforeInsert
<1>2. OwnBatch'
  BY DEF OwnBatch, AfterBatch, RowSteps
<1>3. AccountsLocked'
  BY DEF AccountsLocked, Fp
<1>4. LocksExclusive'
  BY DEF LocksExclusive, tenant
<1>5. CountersExact'
  <2>1. ASSUME NEW d \in Clients
        PROVE  /\ IsFiniteSet(newRecords'[d]) /\ Cardinality(newRecords'[d]) = ingested'[d]
               /\ pc'[d] \in AfterBatch => ingested'[d] + duplicates'[d] = at'[d] - 1
               /\ pc'[d] \in {"updateCounts", "commit"} => at'[d] = Len(req'[d].rows) + 1
    <3>1. CASE d = c
      BY <3>1, FS_EmptySet DEF AfterBatch, RowSteps
    <3>2. CASE d # c
      BY <3>2 DEF CountersExact
    <3>. QED  BY <3>1, <3>2
  <2>. QED  BY <2>1 DEF CountersExact
<1>. QED
  BY <1>1, <1>2, <1>3, <1>4, <1>5

(* A call ends and publishes nothing. *)
LEMMA EndCallInv ==
  ASSUME TypeInv, Inv, NEW c \in Clients, EndCall(c), UNCHANGED tables,
         served' = served \/ \E b \in batches : served' = served \cup {b}
  PROVE  Inv'
<1>. USE EndCallEffect DEF Inv, tables
<1>1. WritesAreNew'
  BY DEF WritesAreNew, StoredFps, tenant, Fp
<1>2. RowsCovered'
  BY DEF RowsCovered, StoredFps, tenant, AfterBatch, RowSteps
<1>3. KeysUnique' /\ LedgerBalances'
  BY DEF KeysUnique, LedgerBalances
<1>. QED
  BY <1>1, <1>2, <1>3, EndCallLocal

(* What COMMIT makes visible. *)
LEMMA PublishStored ==
  ASSUME NEW c \in Clients, Publish(c), NEW t
  PROVE  {r.fp : r \in {q \in records' : q.tenant = t}}
           = StoredFps(t) \cup (IF t = tenant(c) THEN newRecords[c] ELSE {})
<1>. DEFINE new == {[tenant |-> tenant(c), fp |-> f, batch |-> req[c].id] : f \in newRecords[c]}
<1>1. records' = records \cup new
  BY DEF Publish
<1>2. {q \in records' : q.tenant = t} =
         {q \in records : q.tenant = t} \cup {q \in new : q.tenant = t}
  BY <1>1
<1>3. {r.fp : r \in {q \in new : q.tenant = t}} = IF t = tenant(c) THEN newRecords[c] ELSE {}
  <2>1. \A q \in new : q.tenant = tenant(c) /\ q.fp \in newRecords[c]
    OBVIOUS
  <2>2. \A f \in newRecords[c] :
          LET q == [tenant |-> tenant(c), fp |-> f, batch |-> req[c].id]
          IN  q \in new /\ q.tenant = tenant(c) /\ q.fp = f
    OBVIOUS
  <2>. HIDE DEF new
  <2>3. CASE t = tenant(c)
    <3>1. {q \in new : q.tenant = t} = new
      BY <2>1, <2>3
    <3>2. {r.fp : r \in new} \subseteq newRecords[c]
      BY <2>1
    <3>3. newRecords[c] \subseteq {r.fp : r \in new}
      BY <2>2
    <3>. QED  BY <3>1, <3>2, <3>3, <2>3
  <2>4. CASE t # tenant(c)
    <3>1. {q \in new : q.tenant = t} = {}
      BY <2>1, <2>4
    <3>. QED  BY <3>1, <2>4
  <2>. QED  BY <2>3, <2>4
<1>. QED
  BY <1>2, <1>3 DEF StoredFps

(* Billing rows that differ in their fingerprints are as many as those. *)
LEMMA OneRowPerFp ==
  ASSUME NEW S, IsFiniteSet(S), NEW T,
         \A r \in T : r.fp \in S,
         \A f \in S : \E r \in T : r.fp = f,
         \A q, r \in T : q.fp = r.fp => q = r
  PROVE  Cardinality(T) = Cardinality(S)
<1>. DEFINE g == [f \in S |-> CHOOSE r \in T : r.fp = f]
<1>1. \A f \in S : g[f] \in T /\ g[f].fp = f
  OBVIOUS
<1>2. g \in [S -> T]
  BY <1>1
<1>. HIDE DEF g
<1>3. g \in Bijection(S, T)
  BY <1>1, <1>2 DEF Bijection, Injection, Surjection, IsInjective
<1>4. ExistsBijection(S, T)
  BY <1>3 DEF ExistsBijection
<1>. QED
  BY <1>4, FS_Bijection

(* COMMIT: the call of c ends and its writes become the tables'. *)
LEMMA CommitInv ==
  ASSUME TypeInv, Inv, NEW c \in Clients, pc[c] = "commit", EndCall(c), Publish(c),
         served' = served \/ served' = served \cup {BatchRow(c)}
  PROVE  Inv'
<1>. USE EndCallEffect DEF Inv
<1>1. newBatch[c] = {req[c].id} /\ BatchRow(c).id = req[c].id
  BY DEF OwnBatch, AfterBatch, BatchRow
<1>2. \A b \in batches : ~SameKey(b.id, req[c].id) /\ b.id # req[c].id
  BY <1>1 DEF WritesAreNew, SameKey
<1>3. \A d \in Clients \ {c} : tenant(d)' = tenant(d) /\ Fp(d)' = Fp(d)
  BY DEF tenant, Fp
<1>4. ASSUME NEW d \in Clients \ {c}, NEW f,
             AccountOf[f] \in newAccounts[d], f \notin StoredFps(tenant(d))
      PROVE  f \notin StoredFps(tenant(d))'
  <2>1. f \in newRecords[c] => tenant(d) # tenant(c)
    BY <1>4 DEF AccountsLocked, LocksExclusive
  <2>2. StoredFps(tenant(d))' = StoredFps(tenant(d))
           \cup (IF tenant(d) = tenant(c) THEN newRecords[c] ELSE {})
    <3>1. \A t : {r.fp : r \in {q \in records' : q.tenant = t}}
             = StoredFps(t) \cup (IF t = tenant(c) THEN newRecords[c] ELSE {})
      BY PublishStored
    <3>2. StoredFps(tenant(d))' = {r.fp : r \in {q \in records' : q.tenant = tenant(d)}}
      BY <1>3 DEF StoredFps
    <3>. QED  BY <3>1, <3>2
  <2>. QED  BY <2>1, <2>2, <1>4
<1>5. WritesAreNew'
  <2>1. ASSUME NEW d \in Clients \ {c}, NEW f \in newRecords[d]
        PROVE  f \notin StoredFps(tenant(d))'
    BY <1>4 DEF WritesAreNew, AccountsLocked
  <2>2. ASSUME NEW d \in Clients \ {c}, NEW i \in newBatch[d], NEW b \in batches'
        PROVE  ~SameKey(b.id, i)
    <3>1. CASE b \in batches
      BY <3>1 DEF WritesAreNew
    <3>2. CASE b = BatchRow(c)
      BY <3>2, <1>1 DEF LocksExclusive
    <3>. QED  BY <3>1, <3>2 DEF Publish
  <2>3. ASSUME NEW d \in Clients \ {c}, pc[d] = "insertRow"
        PROVE  Fp(d) \notin StoredFps(tenant(d))' \cup newRecords[d]
    BY <2>3, <1>4 DEF WritesAreNew, AccountsLocked
  <2>. QED  BY <2>1, <2>2, <2>3, <1>3 DEF WritesAreNew
<1>6. RowsCovered'
  <2>1. records \subseteq records'
    BY DEF Publish
  <2>2. \A d \in Clients \ {c} : StoredFps(tenant(d)) \subseteq StoredFps(tenant(d))'
    <3>. SUFFICES ASSUME NEW d \in Clients \ {c}, NEW r \in records, r.tenant = tenant(d)
                  PROVE  r.fp \in StoredFps(tenant(d))'
      BY DEF StoredFps
    <3>. QED  BY <2>1, <1>3 DEF StoredFps
  <2>. QED  BY <2>2, <1>3 DEF RowsCovered, AfterBatch, RowSteps
<1>7. KeysUnique'
  BY <1>1, <1>2 DEF KeysUnique, Publish, SameKey
<1>8. LedgerBalances'
  <2>. DEFINE new == {[tenant |-> tenant(c), fp |-> f, batch |-> req[c].id] : f \in newRecords[c]}
  <2>1. records' = records \cup new /\ batches' = batches \cup {BatchRow(c)}
    BY DEF Publish
  <2>2. \A r \in new : r.batch = req[c].id /\ r.tenant = req[c].id.tenant
    BY DEF tenant
  <2>3. Cardinality(new) = ingested[c]
    <3>1. IsFiniteSet(newRecords[c]) /\ Cardinality(newRecords[c]) = ingested[c]
      BY DEF CountersExact
    <3>2. Cardinality(new) = Cardinality(newRecords[c])
      <4>1. \A r \in new : r.fp \in newRecords[c]
        OBVIOUS
      <4>2. ASSUME NEW f \in newRecords[c]  PROVE \E r \in new : r.fp = f
        <5>. WITNESS [tenant |-> tenant(c), fp |-> f, batch |-> req[c].id] \in new
        <5>. QED  OBVIOUS
      <4>3. \A q, r \in new : q.fp = r.fp => q = r
        OBVIOUS
      <4>. HIDE DEF new
      <4>. QED  BY <3>1, <4>1, <4>2, <4>3, OneRowPerFp
    <3>. QED  BY <3>1, <3>2
  <2>. HIDE DEF new
  <2>4. \A r \in records : r.batch # req[c].id
    BY <1>2 DEF LedgerBalances
  <2>5. \A b \in batches : {r \in records' : r.batch = b.id} = {r \in records : r.batch = b.id}
    BY <2>1, <2>2, <1>2
  <2>6. {r \in records' : r.batch = req[c].id} = new
    BY <2>1, <2>2, <2>4
  <2>7. \A b \in batches' : Cardinality({r \in records' : r.batch = b.id}) = b.ingested
    <3>1. ASSUME NEW b \in batches
          PROVE  Cardinality({r \in records' : r.batch = b.id}) = b.ingested
      BY <2>5 DEF LedgerBalances
    <3>2. Cardinality({r \in records' : r.batch = BatchRow(c).id}) = BatchRow(c).ingested
      BY <2>3, <2>6, <1>1 DEF BatchRow
    <3>3. ASSUME NEW b \in batches'
          PROVE  b \in batches \/ b = BatchRow(c)
      BY <2>1
    <3>4. ASSUME NEW b \in batches'
          PROVE  Cardinality({r \in records' : r.batch = b.id}) = b.ingested
      <4>1. CASE b \in batches
        BY <3>1, <4>1
      <4>2. CASE b = BatchRow(c)
        BY <3>2, <4>2
      <4>. QED  BY <3>3, <4>1, <4>2
    <3>. QED  BY <3>4
  <2>8. \A r \in records' : r.batch.tenant = r.tenant /\ \E b \in batches' : b.id = r.batch
    BY <2>1, <2>2, <1>1 DEF LedgerBalances
  <2>. QED  BY <2>7, <2>8 DEF LedgerBalances
<1>. QED
  BY <1>5, <1>6, <1>7, <1>8, EndCallLocal

(* A query that only moves c to its next one. *)
LEMMA MoveInv ==
  ASSUME TypeInv, Inv, NEW c \in Clients, NEW p,
         pc' = [pc EXCEPT ![c] = p],
         UNCHANGED <<tables, writes, locals, served>>,
         p \in {"idle", "lookup", "insertBatch"} => pc[c] \in {"idle", "lookup", "insertBatch"},
         p \in AfterBatch => pc[c] \in AfterBatch,
         p \in {"checkRow", "insertRow"} => pc[c] = "checkRow",
         p = "insertRow" => ~IsDuplicate(c),
         p \in {"updateCounts", "commit"} => pc[c] = "updateCounts"
  PROVE  Inv'
<1>. USE DEF Inv, tables, writes, locals
<1>1. pc'[c] = p /\ \A d \in Clients \ {c} : pc'[d] = pc[d]
  BY DEF TypeInv, TypeOK
<1>2. CleanBeforeInsert'
  BY <1>1 DEF CleanBeforeInsert
<1>3. OwnBatch'
  BY <1>1 DEF OwnBatch
<1>4. AccountsLocked'
  BY <1>1 DEF AccountsLocked, Fp
<1>5. LocksExclusive'
  BY <1>1 DEF LocksExclusive, tenant
<1>6. WritesAreNew'
  BY <1>1 DEF WritesAreNew, StoredFps, tenant, Fp, IsDuplicate
<1>7. CountersExact'
  BY <1>1 DEF CountersExact
<1>8. RowsCovered'
  BY <1>1 DEF RowsCovered, StoredFps, tenant
<1>9. KeysUnique' /\ LedgerBalances'
  BY DEF KeysUnique, LedgerBalances
<1>. QED
  BY <1>2, <1>3, <1>4, <1>5, <1>6, <1>7, <1>8, <1>9

(* The batch row is inserted when no open transaction holds its key. *)
LEMMA InsertBatchInv ==
  ASSUME TypeInv, Inv, NEW c \in Clients, InsertBatch(c)
  PROVE  Inv'
<1>. USE DEF Inv, InsertBatch, tables, locals
<1>0. req[c] \in Request /\ Len(req[c].rows) \in Nat
  BY FileFacts DEF TypeInv, HasRequest
<1>1. /\ pc'[c] \in {"updateCounts", "upsertAccount"}
      /\ pc'[c] = "updateCounts" => Len(req[c].rows) = 0
      /\ at[c] = 1 /\ ingested[c] = 0 /\ duplicates[c] = 0
      /\ newRecords[c] = {} /\ newAccounts[c] = {}
      /\ newBatch'[c] = {req[c].id}
      /\ \A d \in Clients \ {c} : pc'[d] = pc[d] /\ newBatch'[d] = newBatch[d]
  BY <1>0 DEF AfterRow, TypeInv, TypeOK, CleanBeforeInsert
<1>2. CleanBeforeInsert'
  BY <1>1 DEF CleanBeforeInsert
<1>3. OwnBatch'
  BY <1>1 DEF OwnBatch
<1>4. AccountsLocked'
  BY <1>1 DEF AccountsLocked, Fp
<1>5. LocksExclusive'
  <2>1. \A d \in Clients \ {c} : \A j \in newBatch[d] : ~SameKey(j, req[c].id) /\ ~SameKey(req[c].id, j)
    BY DEF BatchBlockers, SameKey
  <2>. QED  BY <1>1, <2>1 DEF LocksExclusive, tenant
<1>6. WritesAreNew'
  BY <1>1 DEF WritesAreNew, StoredFps, tenant, Fp
<1>7. CountersExact'
  BY <1>0, <1>1 DEF CountersExact, AfterBatch, RowSteps
<1>8. RowsCovered'
  BY <1>1 DEF RowsCovered, StoredFps, tenant
<1>9. KeysUnique' /\ LedgerBalances'
  BY DEF KeysUnique, LedgerBalances
<1>. QED
  BY <1>2, <1>3, <1>4, <1>5, <1>6, <1>7, <1>8, <1>9

(* The account is locked when no open transaction of the tenant holds it. *)
LEMMA UpsertAccountInv ==
  ASSUME TypeInv, Inv, NEW c \in Clients, UpsertAccount(c)
  PROVE  Inv'
<1>. USE DEF Inv, UpsertAccount, tables, locals
<1>1. /\ pc[c] \in AfterBatch /\ pc'[c] = "checkRow"
      /\ newAccounts'[c] = newAccounts[c] \cup {AccountOf[Fp(c)]}
      /\ \A d \in Clients \ {c} : pc'[d] = pc[d] /\ newAccounts'[d] = newAccounts[d]
  BY DEF TypeInv, TypeOK, AfterBatch, RowSteps
<1>2. CleanBeforeInsert'
  BY <1>1 DEF CleanBeforeInsert
<1>3. OwnBatch'
  BY <1>1 DEF OwnBatch
<1>4. AccountsLocked'
  BY <1>1 DEF AccountsLocked, Fp
<1>5. LocksExclusive'
  <2>1. \A d \in Clients \ {c} : AccountOf[Fp(c)] \in newAccounts[d] => tenant(d) # tenant(c)
    BY DEF AccountBlockers
  <2>. QED  BY <1>1, <2>1 DEF LocksExclusive, tenant
<1>6. WritesAreNew'
  BY <1>1 DEF WritesAreNew, StoredFps, tenant, Fp
<1>7. CountersExact'
  BY <1>1 DEF CountersExact, AfterBatch, RowSteps
<1>8. RowsCovered'
  BY <1>1 DEF RowsCovered, StoredFps, tenant, AfterBatch, RowSteps
<1>9. KeysUnique' /\ LedgerBalances'
  BY DEF KeysUnique, LedgerBalances
<1>. QED
  BY <1>2, <1>3, <1>4, <1>5, <1>6, <1>7, <1>8, <1>9

(* What the loop does to c when it goes on to the next row. *)
LEMMA NextRow ==
  ASSUME TypeInv, NEW c \in Clients, pc[c] \in RowSteps,
         at' = [at EXCEPT ![c] = @ + 1], AfterRow(c, at[c] + 1), req' = req
  PROVE  /\ pc[c] \in AfterBatch
         /\ at'[c] = at[c] + 1 /\ at[c] \in Nat \ {0}
         /\ pc'[c] \in {"updateCounts", "upsertAccount"}
         /\ pc'[c] = "updateCounts" => at'[c] = Len(req[c].rows) + 1
         /\ \A d \in Clients \ {c} : pc'[d] = pc[d] /\ at'[d] = at[d]
         /\ 1 .. at'[c] - 1 = (1 .. at[c] - 1) \cup {at[c]}
<1>1. req[c] \in Request /\ at[c] \in DOMAIN req[c].rows
  BY DEF TypeInv, HasRequest, RowSteps
<1>2. at[c] \in 1 .. Len(req[c].rows) /\ Len(req[c].rows) \in Nat
  BY <1>1, FileFacts
<1>3. at'[c] = at[c] + 1 /\ at[c] \in Nat \ {0}
  BY DEF TypeInv, TypeOK
<1>4. pc'[c] = IF at[c] + 1 > Len(req[c].rows) THEN "updateCounts" ELSE "upsertAccount"
  BY DEF AfterRow, TypeInv, TypeOK
<1>5. pc'[c] = "updateCounts" => at'[c] = Len(req[c].rows) + 1
  BY <1>2, <1>3, <1>4
<1>6. \A d \in Clients \ {c} : pc'[d] = pc[d] /\ at'[d] = at[d]
  BY DEF AfterRow, TypeInv, TypeOK
<1>7. 1 .. at'[c] - 1 = (1 .. at[c] - 1) \cup {at[c]}
  BY <1>3
<1>. QED
  BY <1>3, <1>4, <1>5, <1>6, <1>7 DEF AfterBatch

LEMMA CountDuplicateInv ==
  ASSUME TypeInv, Inv, NEW c \in Clients, CountDuplicate(c)
  PROVE  Inv'
<1>. USE DEF Inv, CountDuplicate, tables, writes
<1>1. pc[c] \in RowSteps
  BY DEF RowSteps
<1>2. /\ pc[c] \in AfterBatch
      /\ at'[c] = at[c] + 1 /\ at[c] \in Nat \ {0}
      /\ pc'[c] \in {"updateCounts", "upsertAccount"}
      /\ pc'[c] = "updateCounts" => at'[c] = Len(req[c].rows) + 1
      /\ \A d \in Clients \ {c} : pc'[d] = pc[d] /\ at'[d] = at[d]
      /\ 1 .. at'[c] - 1 = (1 .. at[c] - 1) \cup {at[c]}
  BY <1>1, NextRow
<1>3. /\ duplicates'[c] = duplicates[c] + 1 /\ duplicates[c] \in Nat /\ ingested[c] \in Nat
      /\ \A d \in Clients \ {c} : duplicates'[d] = duplicates[d]
  BY DEF TypeInv, TypeOK
<1>4. CleanBeforeInsert'
  BY <1>2, <1>3 DEF CleanBeforeInsert
<1>5. OwnBatch'
  BY <1>2 DEF OwnBatch
<1>6. AccountsLocked'
  BY <1>2 DEF AccountsLocked, Fp
<1>7. LocksExclusive'
  BY DEF LocksExclusive, tenant
<1>8. WritesAreNew'
  BY <1>2 DEF WritesAreNew, StoredFps, tenant, Fp
<1>9. CountersExact'
  <2>1. ASSUME NEW d \in Clients \ {c}
        PROVE  /\ IsFiniteSet(newRecords'[d]) /\ Cardinality(newRecords'[d]) = ingested'[d]
               /\ pc'[d] \in AfterBatch => ingested'[d] + duplicates'[d] = at'[d] - 1
               /\ pc'[d] \in {"updateCounts", "commit"} => at'[d] = Len(req'[d].rows) + 1
    BY <1>2, <1>3 DEF CountersExact
  <2>2. IsFiniteSet(newRecords'[c]) /\ Cardinality(newRecords'[c]) = ingested'[c]
    BY DEF CountersExact
  <2>3. ingested'[c] + duplicates'[c] = at'[c] - 1
    <3>1. ingested[c] + duplicates[c] = at[c] - 1
      BY <1>2 DEF CountersExact
    <3>. QED  BY <3>1, <1>2, <1>3
  <2>4. pc'[c] \in {"updateCounts", "commit"} => at'[c] = Len(req'[c].rows) + 1
    BY <1>2
  <2>. QED  BY <2>1, <2>2, <2>3, <2>4 DEF CountersExact
<1>10. RowsCovered'
  <2>1. ASSUME NEW d \in Clients \ {c}, pc'[d] \in AfterBatch
        PROVE  /\ \A i \in 1 .. at'[d] - 1 :
                    req'[d].rows[i] \in newRecords'[d] \cup StoredFps(tenant(d))'
               /\ newRecords'[d] \subseteq {req'[d].rows[i] : i \in 1 .. at'[d] - 1}
    BY <2>1, <1>2 DEF RowsCovered, StoredFps, tenant
  <2>2. /\ \A i \in 1 .. at'[c] - 1 :
             req'[c].rows[i] \in newRecords'[c] \cup StoredFps(tenant(c))'
        /\ newRecords'[c] \subseteq {req'[c].rows[i] : i \in 1 .. at'[c] - 1}
    BY <1>2 DEF RowsCovered, StoredFps, tenant, IsDuplicate, Fp
  <2>. QED  BY <2>1, <2>2 DEF RowsCovered
<1>11. KeysUnique' /\ LedgerBalances'
  BY DEF KeysUnique, LedgerBalances
<1>. QED
  BY <1>4, <1>5, <1>6, <1>7, <1>8, <1>9, <1>10, <1>11

LEMMA InsertRowInv ==
  ASSUME TypeInv, Inv, NEW c \in Clients, InsertRow(c)
  PROVE  Inv'
<1>. USE DEF Inv, InsertRow, tables
<1>1. pc[c] \in RowSteps
  BY DEF RowSteps
<1>2. /\ pc[c] \in AfterBatch
      /\ at'[c] = at[c] + 1 /\ at[c] \in Nat \ {0}
      /\ pc'[c] \in {"updateCounts", "upsertAccount"}
      /\ pc'[c] = "updateCounts" => at'[c] = Len(req[c].rows) + 1
      /\ \A d \in Clients \ {c} : pc'[d] = pc[d] /\ at'[d] = at[d]
      /\ 1 .. at'[c] - 1 = (1 .. at[c] - 1) \cup {at[c]}
  BY <1>1, NextRow
<1>3. /\ newRecords'[c] = newRecords[c] \cup {Fp(c)} /\ Fp(c) \notin newRecords[c]
      /\ ingested'[c] = ingested[c] + 1 /\ duplicates[c] \in Nat /\ ingested[c] \in Nat
      /\ \A d \in Clients \ {c} : newRecords'[d] = newRecords[d] /\ ingested'[d] = ingested[d]
  BY DEF TypeInv, TypeOK
<1>4. CleanBeforeInsert'
  BY <1>2, <1>3 DEF CleanBeforeInsert
<1>5. OwnBatch'
  BY <1>2 DEF OwnBatch
<1>6. AccountsLocked'
  BY <1>2, <1>3 DEF AccountsLocked, Fp
<1>7. LocksExclusive'
  BY DEF LocksExclusive, tenant
<1>8. WritesAreNew'
  BY <1>2, <1>3 DEF WritesAreNew, StoredFps, tenant, Fp
<1>9. CountersExact'
  <2>1. ASSUME NEW d \in Clients \ {c}
        PROVE  /\ IsFiniteSet(newRecords'[d]) /\ Cardinality(newRecords'[d]) = ingested'[d]
               /\ pc'[d] \in AfterBatch => ingested'[d] + duplicates'[d] = at'[d] - 1
               /\ pc'[d] \in {"updateCounts", "commit"} => at'[d] = Len(req'[d].rows) + 1
    BY <1>2, <1>3 DEF CountersExact
  <2>2. IsFiniteSet(newRecords'[c]) /\ Cardinality(newRecords'[c]) = ingested'[c]
    <3>1. IsFiniteSet(newRecords[c]) /\ Cardinality(newRecords[c]) = ingested[c]
      BY DEF CountersExact
    <3>. QED  BY <3>1, <1>3, FS_AddElement
  <2>3. ingested'[c] + duplicates'[c] = at'[c] - 1
    <3>1. ingested[c] + duplicates[c] = at[c] - 1
      BY <1>2 DEF CountersExact
    <3>. QED  BY <3>1, <1>2, <1>3
  <2>4. pc'[c] \in {"updateCounts", "commit"} => at'[c] = Len(req'[c].rows) + 1
    BY <1>2
  <2>. QED  BY <2>1, <2>2, <2>3, <2>4 DEF CountersExact
<1>10. RowsCovered'
  <2>1. ASSUME NEW d \in Clients \ {c}, pc'[d] \in AfterBatch
        PROVE  /\ \A i \in 1 .. at'[d] - 1 :
                    req'[d].rows[i] \in newRecords'[d] \cup StoredFps(tenant(d))'
               /\ newRecords'[d] \subseteq {req'[d].rows[i] : i \in 1 .. at'[d] - 1}
    BY <2>1, <1>2, <1>3 DEF RowsCovered, StoredFps, tenant
  <2>2. /\ \A i \in 1 .. at'[c] - 1 :
             req'[c].rows[i] \in newRecords'[c] \cup StoredFps(tenant(c))'
        /\ newRecords'[c] \subseteq {req'[c].rows[i] : i \in 1 .. at'[c] - 1}
    BY <1>2, <1>3 DEF RowsCovered, StoredFps, tenant, Fp
  <2>. QED  BY <2>1, <2>2 DEF RowsCovered
<1>11. KeysUnique' /\ LedgerBalances'
  BY DEF KeysUnique, LedgerBalances
<1>. QED
  BY <1>4, <1>5, <1>6, <1>7, <1>8, <1>9, <1>10, <1>11

LEMMA CallInv ==
  ASSUME TypeInv, Inv, NEW c \in Clients, Call(c)
  PROVE  Inv'
<1>. USE DEF Inv, Call, tables, writes
<1>1. /\ pc'[c] = "lookup"
      /\ newBatch[c] = {} /\ newRecords[c] = {} /\ newAccounts[c] = {}
      /\ \A d \in Clients \ {c} : pc'[d] = pc[d] /\ req'[d] = req[d]
  BY DEF TypeInv, TypeOK, CleanBeforeInsert
<1>2. CleanBeforeInsert'
  BY <1>1 DEF CleanBeforeInsert
<1>3. OwnBatch'
  BY <1>1 DEF OwnBatch, AfterBatch, RowSteps
<1>4. AccountsLocked'
  BY <1>1 DEF AccountsLocked, Fp
<1>5. LocksExclusive'
  BY <1>1 DEF LocksExclusive, tenant
<1>6. WritesAreNew'
  BY <1>1 DEF WritesAreNew, StoredFps, tenant, Fp
<1>7. CountersExact'
  BY <1>1 DEF CountersExact, AfterBatch, RowSteps
<1>8. RowsCovered'
  BY <1>1 DEF RowsCovered, StoredFps, tenant, AfterBatch, RowSteps
<1>9. KeysUnique' /\ LedgerBalances'
  BY DEF KeysUnique, LedgerBalances
<1>. QED
  BY <1>2, <1>3, <1>4, <1>5, <1>6, <1>7, <1>8, <1>9

LEMMA InvStep == TypeInv /\ Inv /\ [Next]_vars => Inv'
<1>. SUFFICES ASSUME TypeInv, Inv, [Next]_vars  PROVE Inv'
  OBVIOUS
<1>1. CASE UNCHANGED vars
  BY <1>1 DEF vars, tables, writes, locals, Inv, CleanBeforeInsert, OwnBatch,
     AccountsLocked, LocksExclusive, WritesAreNew, CountersExact, RowsCovered,
     KeysUnique, LedgerBalances, StoredFps, tenant, Fp
<1>2. ASSUME NEW c \in Clients, Step(c)  PROVE Inv'
  <2>1. CASE Replay(c)
    BY <2>1, EndCallInv DEF Replay
  <2>2. CASE LookupFindsNone(c)
    BY <2>2, MoveInv DEF LookupFindsNone, AfterBatch, RowSteps
  <2>3. CASE InsertBatch(c)
    BY <2>3, InsertBatchInv
  <2>4. CASE BatchKeyTaken(c)
    BY <2>4, MoveInv DEF BatchKeyTaken, AfterBatch, RowSteps
  <2>5. CASE UpsertAccount(c)
    BY <2>5, UpsertAccountInv
  <2>6. CASE CountDuplicate(c)
    BY <2>6, CountDuplicateInv
  <2>7. CASE RowIsNew(c)
    BY <2>7, MoveInv DEF RowIsNew, AfterBatch, RowSteps
  <2>8. CASE InsertRow(c)
    BY <2>8, InsertRowInv
  <2>9. CASE UpdateCounts(c)
    BY <2>9, MoveInv DEF UpdateCounts, AfterBatch, RowSteps
  <2>10. CASE Commit(c)
    BY <2>10, CommitInv DEF Commit
  <2>11. CASE Rollback(c)
    BY <2>11, EndCallInv DEF Rollback
  <2>. QED
    BY <1>2, <2>1, <2>2, <2>3, <2>4, <2>5, <2>6, <2>7, <2>8, <2>9, <2>10, <2>11 DEF Step
<1>3. ASSUME NEW c \in Clients, DeadlockVictim(c) \/ Fault(c)  PROVE Inv'
  <2>1. CASE DeadlockVictim(c)
    BY <2>1, MoveInv DEF DeadlockVictim, AfterBatch, RowSteps
  <2>2. CASE QueryFails(c)
    BY <2>2, MoveInv DEF QueryFails, AfterBatch, RowSteps
  <2>3. CASE CommitUnconfirmed(c)
    BY <2>3, CommitInv DEF CommitUnconfirmed
  <2>4. CASE Crash(c)
    BY <2>4, EndCallInv DEF Crash
  <2>. QED  BY <1>3, <2>1, <2>2, <2>3, <2>4 DEF Fault
<1>. QED
  BY <1>1, <1>2, <1>3, CallInv DEF Next

THEOREM Invariance == Spec => [](TypeInv /\ Inv)
<1>1. Init => TypeInv /\ Inv
  BY TypeInit, InvInit
<1>2. TypeInv /\ Inv /\ [Next]_vars => (TypeInv /\ Inv)'
  BY TypeStep, InvStep
<1>. QED
  BY <1>1, <1>2, PTL DEF Spec

(* No call's INSERT of a billing row meets the unique index on fingerprints: *)
(* the account's row lock taken just before is enough.                       *)
THEOREM NoFingerprintConflict == Spec => []InsertMeetsNoDuplicate
<1>1. TypeInv /\ Inv => InsertMeetsNoDuplicate
  <2>. SUFFICES ASSUME TypeInv, Inv, NEW c \in Clients, pc[c] = "insertRow"
                PROVE  Fp(c) \notin StoredFps(tenant(c)) /\ RecordBlockers(c) = {}
    BY DEF InsertMeetsNoDuplicate
  <2>1. Fp(c) \notin StoredFps(tenant(c))
    BY DEF Inv, WritesAreNew
  <2>2. ASSUME NEW d \in Clients \ {c}, Fp(c) \in newRecords[d], tenant(d) = tenant(c)
        PROVE  FALSE
    BY <2>2 DEF Inv, AccountsLocked, LocksExclusive
  <2>. QED  BY <2>1, <2>2 DEF RecordBlockers
<1>. QED
  BY <1>1, Invariance, PTL

(* Calls with one key are answered alike. *)
THEOREM OneAnswerPerKey == Spec => []AnswersAgree
<1>1. Inv => AnswersAgree
  BY DEF Inv, KeysUnique, AnswersAgree
<1>. QED
  BY <1>1, Invariance, PTL

(* A batch's counters are the number of its stored rows. *)
THEOREM LedgerAlwaysBalances == Spec => []LedgerBalances
<1>1. Inv => LedgerBalances
  BY DEF Inv
<1>. QED
  BY <1>1, Invariance, PTL

(* Billing rows are never stored without the account their reads join. *)
THEOREM RecordsAlwaysHaveAccount == Spec => []RecordsHaveAccount
<1>1. Init => RecordsHaveAccount
  BY DEF Init, RecordsHaveAccount
<1>2. TypeInv /\ Inv /\ RecordsHaveAccount /\ [Next]_vars => RecordsHaveAccount'
  <2>. SUFFICES ASSUME Inv, RecordsHaveAccount, [Next]_vars
                PROVE  RecordsHaveAccount'
    OBVIOUS
  <2>1. CASE UNCHANGED tables
    BY <2>1 DEF tables, RecordsHaveAccount
  <2>2. ASSUME NEW c \in Clients, Publish(c)  PROVE RecordsHaveAccount'
    <3>1. \A f \in newRecords[c] : AccountOf[f] \in newAccounts[c]
      BY DEF Inv, AccountsLocked
    <3>. QED  BY <2>2, <3>1 DEF Publish, RecordsHaveAccount
  <2>3. UNCHANGED tables \/ \E c \in Clients : Publish(c)
    BY DEF Next, vars, Step, Fault, Call, Replay, LookupFindsNone, InsertBatch,
       BatchKeyTaken, UpsertAccount, CountDuplicate, RowIsNew, InsertRow,
       UpdateCounts, Commit, CommitUnconfirmed, QueryFails, DeadlockVictim,
       Rollback, Crash
  <2>. QED  BY <2>1, <2>2, <2>3
<1>. QED
  BY <1>1, <1>2, Invariance, PTL DEF Spec
-----------------------------------------------------------------------------
(***************************************************************************)
(* SaveIngestion implements CostStore. COMMIT is the atomic step: the rows *)
(* the call found new, one by one and at different times, are exactly the  *)
(* rows of its file that are not stored when it commits.                   *)
(***************************************************************************)

LEMMA FreshAtCommit ==
  ASSUME TypeInv, Inv, NEW c \in Clients, pc[c] = "commit"
  PROVE  /\ Store!Fresh(req[c].id.tenant, req[c].rows) = newRecords[c]
         /\ Cardinality(newRecords[c]) = ingested[c]
         /\ duplicates[c] = Len(req[c].rows) - ingested[c]
<1>1. req[c] \in Request
  BY DEF TypeInv, HasRequest
<1>2. DOMAIN req[c].rows = 1 .. Len(req[c].rows) /\ Len(req[c].rows) \in Nat
  BY <1>1, FileFacts
<1>3. /\ at[c] = Len(req[c].rows) + 1
      /\ ingested[c] + duplicates[c] = at[c] - 1
      /\ Cardinality(newRecords[c]) = ingested[c]
      /\ ingested[c] \in Nat /\ duplicates[c] \in Nat
  BY DEF Inv, CountersExact, AfterBatch, TypeInv, TypeOK
<1>4. 1 .. at[c] - 1 = DOMAIN req[c].rows
  BY <1>2, <1>3
<1>5. /\ \A i \in DOMAIN req[c].rows :
           req[c].rows[i] \in newRecords[c] \cup StoredFps(tenant(c))
      /\ newRecords[c] \subseteq {req[c].rows[i] : i \in DOMAIN req[c].rows}
  BY <1>4 DEF Inv, RowsCovered, AfterBatch
<1>6. \A f \in newRecords[c] : f \notin StoredFps(tenant(c))
  BY DEF Inv, WritesAreNew
<1>7. Store!Stored(tenant(c)) = StoredFps(tenant(c))
  BY DEF Store!Stored, StoredFps
<1>8. Store!Fresh(tenant(c), req[c].rows) = newRecords[c]
  BY <1>5, <1>6, <1>7 DEF Store!Fresh, Store!RowsOf
<1>. QED
  BY <1>2, <1>3, <1>8 DEF tenant

LEMMA StoreCardinality == \A S : Store!Cardinality(S) = Cardinality(S)
BY Zenon DEF Store!Cardinality, Cardinality, Store!IsFiniteSet, IsFiniteSet

LEMMA PublishIngests ==
  ASSUME TypeInv, Inv, NEW c \in Clients, pc[c] = "commit", Publish(c)
  PROVE  /\ req[c].id \in BatchId /\ req[c].rows \in Files
         /\ Store!Ingest(req[c].id, req[c].rows)
         /\ BatchRow(c) \in batches' /\ BatchRow(c).id = req[c].id
<1>1. req[c] \in Request
  BY DEF TypeInv, HasRequest
<1>2. req[c].id \in BatchId /\ req[c].rows \in Files
  BY <1>1 DEF Request
<1>3. \A b \in batches : ~(b.id.tenant = req[c].id.tenant /\ b.id.key = req[c].id.key)
  BY DEF Inv, OwnBatch, WritesAreNew, AfterBatch, SameKey
<1>4. BatchRow(c) = [id |-> req[c].id, ingested |-> Cardinality(newRecords[c]),
                     duplicates |-> Len(req[c].rows) - Cardinality(newRecords[c])]
  BY FreshAtCommit DEF BatchRow
<1>5. Store!Ingest(req[c].id, req[c].rows)
  <2>1. batches' = batches \cup
          {[id |-> req[c].id, ingested |-> Cardinality(newRecords[c]),
            duplicates |-> Len(req[c].rows) - Cardinality(newRecords[c])]}
    BY <1>4 DEF Publish
  <2>2. records' = records \cup
          {[tenant |-> req[c].id.tenant, fp |-> f, batch |-> req[c].id] : f \in newRecords[c]}
    BY DEF Publish, tenant
  <2>3. Store!Fresh(req[c].id.tenant, req[c].rows) = newRecords[c]
    BY FreshAtCommit
  <2>4. batches' = batches \cup
          {[id |-> req[c].id,
            ingested |-> Cardinality(Store!Fresh(req[c].id.tenant, req[c].rows)),
            duplicates |-> Len(req[c].rows)
                             - Cardinality(Store!Fresh(req[c].id.tenant, req[c].rows))]}
    BY <2>1, <2>3
  <2>5. records' = records \cup
          {[tenant |-> req[c].id.tenant, fp |-> f, batch |-> req[c].id] :
             f \in Store!Fresh(req[c].id.tenant, req[c].rows)}
    BY <2>2, <2>3, Zenon
  <2>. QED  BY <1>3, <2>4, <2>5, StoreCardinality DEF Store!Ingest
<1>. QED
  BY <1>2, <1>5 DEF Publish, BatchRow

LEMMA StepSimulation ==
  ASSUME TypeInv, Inv, [Next]_vars
  PROVE  [Store!Next]_<<batches, records, served>>
<1>1. CASE UNCHANGED <<tables, served>>
  BY <1>1 DEF tables
<1>2. ASSUME NEW c \in Clients, Replay(c)  PROVE Store!Next
  BY <1>2 DEF Replay, tables, Store!Next, Store!Serve
<1>3. ASSUME NEW c \in Clients, Commit(c)  PROVE Store!Next
  <2>1. Store!IngestAndServe(req[c].id, req[c].rows)
    BY <1>3, PublishIngests DEF Commit, Store!IngestAndServe
  <2>. QED  BY <2>1, <1>3, PublishIngests DEF Commit, Store!Next
<1>4. ASSUME NEW c \in Clients, CommitUnconfirmed(c)  PROVE Store!Next
  <2>1. Store!IngestUnanswered(req[c].id, req[c].rows)
    BY <1>4, PublishIngests DEF CommitUnconfirmed, Store!IngestUnanswered
  <2>. QED  BY <2>1, <1>4, PublishIngests DEF CommitUnconfirmed, Store!Next
<1>5. \/ UNCHANGED <<tables, served>>
      \/ \E c \in Clients : Replay(c) \/ Commit(c) \/ CommitUnconfirmed(c)
  BY DEF Next, vars, Step, Fault, Call, LookupFindsNone, InsertBatch,
     BatchKeyTaken, UpsertAccount, CountDuplicate, RowIsNew, InsertRow,
     UpdateCounts, QueryFails, DeadlockVictim, Rollback, Crash
<1>. QED
  BY <1>1, <1>2, <1>3, <1>4, <1>5

(* Concurrent, failing and retried calls of saveIngestion look like atomic *)
(* ones.                                                                   *)
THEOREM Refinement == Spec => ImplementsCostStore
<1>1. Init => Store!Init
  BY DEF Init, Store!Init
<1>2. TypeInv /\ Inv /\ [Next]_vars => [Store!Next]_<<batches, records, served>>
  BY StepSimulation
<1>. QED
  BY <1>1, <1>2, Invariance, PTL DEF Spec, ImplementsCostStore, Store!Spec, Store!vars
=============================================================================
