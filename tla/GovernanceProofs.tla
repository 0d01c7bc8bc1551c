-------------------------- MODULE GovernanceProofs --------------------------
(***************************************************************************)
(* Proofs about Governance, for any number of calls, rows and keys. The    *)
(* invariant says that what a call has written under its lock may still be *)
(* written when it commits; the refinement of GovernanceStore follows.     *)
(* The last part is about AuditChain, the audit log that every write of    *)
(* this repository ends with, for any number of transactions and tenants.  *)
(***************************************************************************)
EXTENDS Governance, AuditChain, TLAPS

USE RequestsAssumption, TablesAssumption, NoneAssumption

LEMMA RequestFacts ==
  ASSUME NEW r \in Requests
  PROVE  /\ r.op \in Store!Upserts \cup Store!Inserts \cup Store!Updates \cup Store!Deletes
         /\ r.tenant \in Tenants /\ r.key \in Keys
         /\ r.on \in Targets \cup {None} /\ r.value \in Values \cup {None}
         /\ r.parts \in {{}} \cup {{ps} : ps \in SUBSET Parts}
         /\ UNION r.parts \subseteq Parts
         /\ r # None
BY DEF Store!Request, Store!Given, Store!Parts, Parts, Store!Targets, Targets

LEMMA OpFacts ==
  /\ Store!Upserts \cap Store!Deletes = {} /\ Store!Inserts \cap Store!Deletes = {}
  /\ Store!Updates \cap Store!Deletes = {} /\ Store!Upserts \cap Store!Inserts = {}
  /\ Store!Upserts \cap Store!Updates = {} /\ Store!Inserts \cap Store!Updates = {}
  /\ Store!Deletes = {"deleteAccountGroup"}
  /\ Store!Updates = {"updateAccountGroup", "rotateCredential"}
  /\ "createDimensionMapping" \in Store!Inserts
  /\ "createAccountGroup" # "createDimension"
BY DEF Store!Upserts, Store!Inserts, Store!Updates, Store!Deletes

(* What a call writes: a row, or none if it deletes. *)
LEMMA WrittenFacts ==
  ASSUME TypeOK, NEW c \in Clients, req[c] \in Requests, Written(c)
  PROVE  /\ draft[c] \in Store!Row \cup {None}
         /\ draft[c] = None <=> Op(c) \in Store!Deletes
         /\ own[c] \in Targets
<1>1. CASE Store!Upsert(req[c], own[c], draft[c])
  <2>1. /\ Op(c) \in Store!Upserts /\ own[c] \in Names
        /\ draft[c] = [owner |-> OwnerOf[own[c]], value |-> req[c].value]
    BY <1>1 DEF Store!Upsert, Op
  <2>2. draft[c] \in Store!Row
    BY <2>1 DEF Store!Row, Op
  <2> QED BY <2>1, <2>2, OpFacts DEF Targets
<1>2. CASE Store!Insert(req[c], own[c], draft[c])
  <2>1. /\ Op(c) \in Store!Inserts /\ own[c] \in Ids
        /\ draft[c] = [owner |-> req[c].tenant, value |-> req[c].value]
    BY <1>2 DEF Store!Insert, Op
  <2>2. draft[c] \in Store!Row
    BY <2>1, RequestFacts DEF Store!Row, Op
  <2> QED BY <2>1, <2>2, OpFacts DEF Targets
<1>3. CASE Store!Update(req[c], own[c], draft[c])
  <2>1. /\ Op(c) \in Store!Updates /\ own[c] = req[c].on /\ own[c] \in Ids
        /\ \E v \in Values : draft[c] = [owner |-> req[c].tenant, value |-> v]
    BY <1>3, RequestFacts DEF Store!Update, Op, TypeOK, Targets
  <2>2. draft[c] \in Store!Row
    BY <2>1, RequestFacts DEF Store!Row
  <2> QED BY <2>1, <2>2, OpFacts DEF Targets
<1>4. CASE Store!Delete(req[c], own[c], draft[c])
  BY <1>4, OpFacts DEF Store!Delete, Op, Targets
<1> QED BY <1>1, <1>2, <1>3, <1>4 DEF Written
-----------------------------------------------------------------------------
(* Type correctness. *)

LEMMA TypeInit == Init => TypeOK
<1> SUFFICES ASSUME Init PROVE TypeOK
  OBVIOUS
<1>1. rows \in [Targets -> Store!Row \cup {None}]
  BY DEF Init, Store!Row, Targets
<1>2. former \in [Targets -> SUBSET Values]
  BY DEF Init, Targets
<1> QED BY <1>1, <1>2 DEF Init, TypeOK, Steps

(* The actions that end a call without writing a table. *)
LEMMA EndCallType ==
  ASSUME TypeOK, NEW c \in Clients, EndCall(c)
  PROVE  /\ pc' \in [Clients -> Steps]
         /\ req' \in [Clients -> Requests \cup {None}]
         /\ seen' \in [Clients -> Values \cup {None}]
         /\ own' \in [Clients -> Targets \cup {None}]
         /\ draft' \in [Clients -> Store!Row \cup {None}]
         /\ snap' \in [Clients -> SUBSET Part]
         /\ gone' \in [Clients -> SUBSET Part]
         /\ added' \in [Clients -> SUBSET Part]
BY DEF EndCall, Goto, TypeOK, Steps

LEMMA ThrowType ==
  ASSUME TypeOK, NEW c \in Clients, Throw(c) PROVE TypeOK'
BY EndCallType DEF Throw, TypeOK, tables, history

LEMMA WriteType ==
  ASSUME TypeOK, NEW c \in Clients, NEW id \in Targets, NEW row \in Store!Row,
         Write(c, id, row)
  PROVE  TypeOK'
BY DEF Write, AfterRow, Goto, TypeOK, tables, history, locals, Steps

LEMMA PublishType ==
  ASSUME TypeOK, NEW c \in Clients, req[c] \in Requests, own[c] \in Targets,
         Publish(c)
  PROVE  /\ rows' \in [Targets -> Store!Row \cup {None}]
         /\ parts' \in [Targets -> SUBSET Part]
         /\ answers' \in [Keys -> Store!Answer \cup {None}]
         /\ answers'[req[c].key] \in Store!Answer
         /\ former' \in [Targets -> SUBSET Values]
<1>1. /\ draft[c] \in Store!Row \cup {None} /\ gone[c] \subseteq Part
      /\ added[c] \subseteq Part /\ req[c].key \in Keys
  BY RequestFacts DEF TypeOK
<1>2. rows' \in [Targets -> Store!Row \cup {None}]
  BY <1>1 DEF Publish, TypeOK
<1>3. parts' \in [Targets -> SUBSET Part]
  BY <1>1 DEF Publish, TypeOK
<1>4. Accounts(parts'[own[c]]) \subseteq Parts
  BY <1>3 DEF Accounts, Part
<1>5. [id |-> own[c], row |-> draft[c], parts |-> Accounts(parts'[own[c]]),
       call |-> req[c]] \in Store!Answer
  BY <1>1, <1>4 DEF Store!Answer, Store!Targets, Targets, Store!Parts, Parts
<1>6. /\ answers' \in [Keys -> Store!Answer \cup {None}]
      /\ answers'[req[c].key] \in Store!Answer
  BY <1>1, <1>5 DEF Publish, TypeOK
<1>7. former' \in [Targets -> SUBSET Values]
  BY <1>1 DEF Publish, TypeOK, Store!Row
<1> QED BY <1>2, <1>3, <1>6, <1>7

LEMMA TypeStep ==
  ASSUME TypeOK, Inv, [Next]_vars PROVE TypeOK'
<1> USE DEF tables, history, writes, locals
<1>1. CASE UNCHANGED vars
  BY <1>1 DEF vars, TypeOK
<1>2. ASSUME NEW c \in Clients, Call(c) PROVE TypeOK'
  BY <1>2 DEF Call, Goto, TypeOK, Steps
<1>3. ASSUME NEW c \in Clients, Replay(c) PROVE TypeOK'
  <2>1. req[c].key \in Keys
    BY <1>3, RequestFacts DEF Replay, Inv, CallOK, CallInOrder
  <2>2. served' \subseteq Store!Answer
    BY <1>3, <2>1 DEF Replay, TypeOK
  <2> QED BY <1>3, <2>2, EndCallType DEF Replay, TypeOK
<1>4. ASSUME NEW c \in Clients, KeyNotFound(c) PROVE TypeOK'
  BY <1>4 DEF KeyNotFound, FirstQuery, Goto, TypeOK, Steps
<1>5. ASSUME NEW c \in Clients, ReadRow(c) PROVE TypeOK'
  <2>1. req[c].on \in Targets /\ rows[req[c].on].value \in Values
    BY <1>5, RequestFacts, OpFacts
       DEF ReadRow, Found, Inv, CallOK, CallInOrder, Op, TypeOK, Targets, Store!Row
  <2> QED BY <1>5, <2>1 DEF ReadRow, Goto, TypeOK, Steps
<1>6. ASSUME NEW c \in Clients, Upsert(c) PROVE TypeOK'
  <2>1. req[c] \in Requests
    BY <1>6 DEF Upsert, Inv, CallOK, CallInOrder
  <2>2. [owner |-> OwnerOf[req[c].on], value |-> req[c].value] \in Store!Row
        /\ req[c].on \in Targets
    BY <1>6, <2>1 DEF Upsert, Op, Store!Row, Targets
  <2> QED BY <1>6, <2>2, WriteType DEF Upsert
<1>7. ASSUME NEW c \in Clients, Insert(c) PROVE TypeOK'
  <2>1. req[c] \in Requests
    BY <1>7 DEF Insert, Inv, CallOK, CallInOrder
  <2>2. [owner |-> req[c].tenant, value |-> req[c].value] \in Store!Row
    BY <1>7, <2>1, RequestFacts DEF Insert, Op, Store!Row
  <2> QED BY <1>7, <2>2, WriteType DEF Insert, Targets
<1>8. ASSUME NEW c \in Clients, UpdateGroup(c) PROVE TypeOK'
  <2>1. req[c] \in Requests /\ req[c].on \in Targets
    BY <1>8, OpFacts DEF UpdateGroup, Inv, CallOK, CallInOrder, Op, Targets
  <2>2. seen[c] \in Values
    BY <1>8, <2>1 DEF UpdateGroup, Inv, CallOK, CallRead, TypeOK
  <2>3. [owner |-> req[c].tenant, value |->
          IF req[c].value = None THEN seen[c] ELSE req[c].value] \in Store!Row
    BY <2>1, <2>2, RequestFacts DEF Store!Row
  <2> QED BY <1>8, <2>1, <2>3, WriteType DEF UpdateGroup
<1>9. ASSUME NEW c \in Clients, RotateCredential(c) PROVE TypeOK'
  <2>1. req[c] \in Requests /\ req[c].on \in Targets
    BY <1>9, OpFacts DEF RotateCredential, Inv, CallOK, CallInOrder, Op, Targets
  <2>2. [owner |-> req[c].tenant, value |-> req[c].value] \in Store!Row
    BY <1>9, <2>1, RequestFacts DEF RotateCredential, Op, Store!Row
  <2> QED BY <1>9, <2>1, <2>2, WriteType DEF RotateCredential
<1>10. ASSUME NEW c \in Clients, DeleteParts(c) PROVE TypeOK'
  <2>1. Target(c) \in Targets
    BY <1>10, OpFacts
       DEF DeleteParts, Target, Inv, CallOK, CallInOrder, Op, Targets
  <2> QED BY <1>10, <2>1 DEF DeleteParts, Goto, TypeOK, Steps
<1>11. ASSUME NEW c \in Clients, PartsDeleted(c) PROVE TypeOK'
  <2>1. snap[c] \cap parts[Target(c)] \subseteq Part
    BY DEF TypeOK
  <2> QED BY <1>11, <2>1 DEF PartsDeleted, Goto, TypeOK, Steps
<1>12. ASSUME NEW c \in Clients, InsertParts(c) PROVE TypeOK'
  <2>1. req[c].key \in Keys /\ UNION req[c].parts \subseteq Parts
    BY <1>12, RequestFacts DEF InsertParts, Inv, CallOK, CallInOrder
  <2>2. {[part |-> p, by |-> req[c].key] :
           p \in (UNION req[c].parts) \ Accounts(parts[Target(c)] \ gone[c])}
           \subseteq Part
    BY <2>1 DEF Part
  <2> QED BY <1>12, <2>2 DEF InsertParts, Goto, TypeOK, Steps
<1>13. ASSUME NEW c \in Clients, DropGroup(c) PROVE TypeOK'
  <2>1. req[c].on \in Targets
    BY <1>13, OpFacts DEF DropGroup, Inv, CallOK, CallInOrder, Op, Targets
  <2> QED BY <1>13, <2>1 DEF DropGroup, Goto, TypeOK, Steps
<1>14. ASSUME NEW c \in Clients, StoreAnswer(c) PROVE TypeOK'
  BY <1>14 DEF StoreAnswer, Goto, TypeOK, Steps
<1>15. ASSUME NEW c \in Clients, Commit(c) \/ CommitUnconfirmed(c) PROVE TypeOK'
  <2>1. req[c] \in Requests /\ own[c] \in Targets /\ Publish(c) /\ EndCall(c)
    BY <1>15 DEF Commit, CommitUnconfirmed, Inv, CallOK, CallInOrder
  <2>2. served' \subseteq Store!Answer
    BY <1>15, <2>1, PublishType DEF Commit, CommitUnconfirmed, TypeOK
  <2> QED BY <2>1, <2>2, PublishType, EndCallType DEF TypeOK
<1>16. ASSUME NEW c \in Clients, Throw(c) PROVE TypeOK'
  BY <1>16, ThrowType
<1> QED
  BY <1>1, <1>2, <1>3, <1>4, <1>5, <1>6, <1>7, <1>8, <1>9, <1>10, <1>11, <1>12,
     <1>13, <1>14, <1>15, <1>16
     DEF Next, Step, RowNotFound, NoRowToUpdate, PartUnknown, CannotDrop, KeyTaken,
         DeadlockVictim, Fails
-----------------------------------------------------------------------------
(* The invariant. First the steps that leave the tables alone.             *)

LEMMA InvInit == Init => Inv
<1> SUFFICES ASSUME Init PROVE Inv
  OBVIOUS
<1>1. ASSUME NEW c \in Clients PROVE CallOK(c)
  BY <1>1 DEF Init, CallOK, CallInOrder, CallRead, CallParts
<1>2. LocksExclusive /\ KeysUnused /\ PartsAreOneCalls
  BY DEF Init, LocksExclusive, KeysUnused, PartsAreOneCalls
<1>3. RowsOwned
  BY DEF Init, RowsOwned, Targets
<1> QED BY <1>1, <1>2, <1>3 DEF Inv

(* The step changes nothing that belongs to a call other than c. *)
Alone(c) ==
  \A d \in Clients \ {c} :
    /\ pc'[d] = pc[d] /\ req'[d] = req[d] /\ seen'[d] = seen[d]
    /\ own'[d] = own[d] /\ draft'[d] = draft[d] /\ snap'[d] = snap[d]
    /\ gone'[d] = gone[d] /\ added'[d] = added[d]

LEMMA OtherCalls ==
  ASSUME Inv, NEW c \in Clients, Alone(c), UNCHANGED <<rows, parts, former>>,
         NEW d \in Clients \ {c}
  PROVE  CallOK(d)'
<1>1. CallOK(d)
  BY DEF Inv
<1>2. CallInOrder(d)' /\ CallRead(d)' /\ CallParts(d)'
  BY <1>1 DEF Alone, CallOK, CallInOrder, CallRead, CallParts, Op, Store!Found
<1>3. ASSUME own'[d] # None PROVE Written(d)'
  <2>1. Written(d) /\ req'[d] = req[d] /\ own'[d] = own[d] /\ draft'[d] = draft[d]
    BY <1>1, <1>3 DEF Alone, CallOK
  <2>2. CASE Store!Upsert(req[d], own[d], draft[d])
    BY <2>1, <2>2 DEF Written, Store!Upsert
  <2>3. CASE Store!Insert(req[d], own[d], draft[d])
    BY <2>1, <2>3 DEF Written, Store!Insert, Store!Found
  <2>4. CASE Store!Update(req[d], own[d], draft[d])
    BY <2>1, <2>4 DEF Written, Store!Update, Store!Found
  <2>5. CASE Store!Delete(req[d], own[d], draft[d])
    BY <2>1, <2>5 DEF Written, Store!Delete, Store!Found
  <2> QED BY <2>1, <2>2, <2>3, <2>4, <2>5 DEF Written
<1> QED BY <1>2, <1>3 DEF CallOK

LEMMA LocalInv ==
  ASSUME Inv, NEW c \in Clients, Alone(c), CallOK(c)',
         UNCHANGED <<rows, parts, answers, former>>,
         own'[c] = None \/ \A d \in Clients \ {c} : own[d] # own'[c],
         pc'[c] = "commit" =>
           /\ answers[req'[c].key] = None
           /\ \A d \in Clients \ {c} : pc[d] = "commit" => req[d].key # req'[c].key
  PROVE  Inv'
<1>1. \A d \in Clients : CallOK(d)'
  BY OtherCalls
<1>2. LocksExclusive'
  BY DEF LocksExclusive, Alone, Inv
<1>3. KeysUnused'
  BY DEF KeysUnused, Alone, Inv
<1>4. RowsOwned' /\ PartsAreOneCalls'
  BY DEF RowsOwned, PartsAreOneCalls, Inv
<1> QED BY <1>1, <1>2, <1>3, <1>4 DEF Inv

LEMMA EndCallAlone ==
  ASSUME TypeOK, NEW c \in Clients, EndCall(c)
  PROVE  Alone(c) /\ CallOK(c)' /\ own'[c] = None /\ pc'[c] = "idle"
<1>1. Alone(c)
  BY DEF EndCall, Goto, Alone, TypeOK
<1>2. /\ pc'[c] = "idle" /\ own'[c] = None /\ gone'[c] = {} /\ added'[c] = {}
  BY DEF EndCall, Goto, TypeOK
<1> QED BY <1>1, <1>2 DEF CallOK, CallInOrder, CallRead, CallParts

LEMMA ThrowInv ==
  ASSUME TypeOK, Inv, NEW c \in Clients, Throw(c) PROVE Inv'
BY EndCallAlone, LocalInv DEF Throw, tables, history

(* A row is written: what was written is what the promise allows. *)
LEMMA WriteInv ==
  ASSUME TypeOK, Inv, NEW c \in Clients, pc[c] = "write", NEW id \in Targets,
         NEW row \in Store!Row, Write(c, id, row),
         \A d \in Clients \ {c} : own[d] # id,
         \/ Store!Upsert(req[c], id, row) \/ Store!Insert(req[c], id, row)
         \/ Store!Update(req[c], id, row)
  PROVE  Inv'
<1> USE DEF tables, history, locals
<1>1. CallOK(c)
  BY DEF Inv
<1>2. /\ Alone(c) /\ UNCHANGED <<rows, parts, answers, former>>
      /\ own'[c] = id /\ draft'[c] = row /\ req'[c] = req[c] /\ gone'[c] = {}
      /\ added'[c] = {} /\ pc'[c] = IF req[c].parts = {} THEN "store" ELSE "delete"
  BY <1>1 DEF Write, AfterRow, Goto, Alone, TypeOK, CallOK, CallParts
<1>3. Op(c) \notin Store!Deletes
  BY <1>1 DEF CallOK, CallInOrder
<1>4. CallInOrder(c)'
  BY <1>1, <1>2, <1>3 DEF CallOK, CallInOrder, Op
<1>5. CallRead(c)' /\ CallParts(c)'
  BY <1>1, <1>2, <1>3 DEF CallOK, CallRead, CallParts, Op, Store!Found
<1>6. Written(c)'
  BY <1>2 DEF Written, Store!Upsert, Store!Insert, Store!Update, Store!Found
<1> QED BY <1>2, <1>4, <1>5, <1>6, LocalInv DEF CallOK

(* A step that writes no row and no key: only the call's own turn counts. *)
LEMMA TurnInv ==
  ASSUME TypeOK, Inv, NEW c \in Clients, Alone(c), pc'[c] # "commit",
         UNCHANGED <<rows, parts, answers, former, own, draft>>, CallInOrder(c)',
         CallRead(c)', CallParts(c)', req'[c] = req[c] \/ own[c] = None
  PROVE  Inv'
<1>1. CallOK(c)
  BY DEF Inv
<1>2. own'[c] # None => Written(c)'
  <2> SUFFICES ASSUME own[c] # None PROVE Written(c)'
    BY DEF TypeOK
  <2>1. Written(c) /\ req'[c] = req[c]
    BY <1>1 DEF CallOK
  <2>2. CASE Store!Upsert(req[c], own[c], draft[c])
    BY <2>1, <2>2 DEF Written, Store!Upsert
  <2>3. CASE Store!Insert(req[c], own[c], draft[c])
    BY <2>1, <2>3 DEF Written, Store!Insert, Store!Found
  <2>4. CASE Store!Update(req[c], own[c], draft[c])
    BY <2>1, <2>4 DEF Written, Store!Update, Store!Found
  <2>5. CASE Store!Delete(req[c], own[c], draft[c])
    BY <2>1, <2>5 DEF Written, Store!Delete, Store!Found
  <2> QED BY <2>1, <2>2, <2>3, <2>4, <2>5 DEF Written
<1>3. own'[c] = None \/ \A d \in Clients \ {c} : own[d] # own'[c]
  BY DEF Inv, LocksExclusive
<1> QED BY <1>2, <1>3, LocalInv DEF CallOK

LEMMA TurnsInv ==
  ASSUME TypeOK, Inv, NEW c \in Clients,
         \/ Call(c) \/ KeyNotFound(c) \/ ReadRow(c) \/ DeleteParts(c)
         \/ PartsDeleted(c) \/ InsertParts(c)
  PROVE  Inv'
<1> USE DEF tables, history, writes, locals
<1>0. CallOK(c) /\ own[c] \in Targets \cup {None}
  BY DEF Inv, TypeOK
<1>1. CASE Call(c)
  <2>1. /\ Alone(c) /\ own[c] = None /\ gone[c] = {} /\ added[c] = {}
        /\ pc'[c] = "lookup" /\ req'[c] \in Requests
    BY <1>0, <1>1 DEF Call, Goto, Alone, TypeOK, CallOK, CallInOrder, CallParts
  <2>2. CallInOrder(c)' /\ CallRead(c)' /\ CallParts(c)'
    BY <1>1, <2>1 DEF Call, CallInOrder, CallRead, CallParts
  <2> QED BY <1>1, <2>1, <2>2, TurnInv DEF Call
<1>2. CASE KeyNotFound(c)
  <2>1. /\ Alone(c) /\ own[c] = None /\ gone[c] = {} /\ added[c] = {}
        /\ pc'[c] = FirstQuery(Op(c)) /\ req[c] \in Requests
    BY <1>0, <1>2 DEF KeyNotFound, Goto, Alone, TypeOK, CallOK, CallInOrder, CallParts
  <2>2. /\ pc'[c] \in {"read", "delete", "write"}
        /\ pc'[c] = "read" <=> Op(c) \in {"updateAccountGroup", "createDimensionMapping"}
        /\ pc'[c] = "delete" <=> Op(c) \in Store!Deletes
    BY <2>1, OpFacts DEF FirstQuery
  <2>3. CallInOrder(c)' /\ CallRead(c)' /\ CallParts(c)'
    BY <1>2, <2>1, <2>2, OpFacts DEF KeyNotFound, CallInOrder, CallRead, CallParts, Op
  <2> QED BY <1>2, <2>1, <2>2, <2>3, TurnInv DEF KeyNotFound
<1>3. CASE ReadRow(c)
  <2>1. /\ Alone(c) /\ own[c] = None /\ gone[c] = {} /\ added[c] = {}
        /\ pc'[c] = "write" /\ req[c] \in Requests /\ Found(c)
        /\ seen'[c] = rows[req[c].on].value
        /\ Op(c) \in {"updateAccountGroup", "createDimensionMapping"}
    BY <1>0, <1>3 DEF ReadRow, Goto, Alone, TypeOK, CallOK, CallInOrder, CallParts
  <2>2. req[c].on \in Targets
    BY <2>1, OpFacts DEF Targets, Op
  <2>3. rows[req[c].on].value \in former[req[c].on]
    BY <2>1, <2>2 DEF Inv, RowsOwned, Found
  <2>4. CallInOrder(c)' /\ CallRead(c)' /\ CallParts(c)'
    BY <1>3, <2>1, <2>3, OpFacts
       DEF ReadRow, CallInOrder, CallRead, CallParts, Op, Found, Store!Found
  <2> QED BY <1>3, <2>1, <2>4, TurnInv DEF ReadRow
<1>4. CASE DeleteParts(c)
  <2>1. /\ Alone(c) /\ gone[c] = {} /\ added[c] = {} /\ pc[c] = "delete"
        /\ pc'[c] = "deleting" /\ req[c] \in Requests
        /\ snap'[c] = parts[Target(c)]
    BY <1>0, <1>4 DEF DeleteParts, Goto, Alone, TypeOK, CallOK, CallInOrder, CallParts
  <2>2. own[c] # None => Target(c) = own[c]
    BY <1>0, <2>1, OpFacts DEF Target, CallOK, CallInOrder
  <2>3. CallInOrder(c)'
    BY <1>0, <1>4, <2>1 DEF DeleteParts, CallOK, CallInOrder, Op
  <2>4. CallRead(c)' /\ CallParts(c)'
    BY <1>0, <1>4, <2>1, <2>2
       DEF DeleteParts, CallOK, CallRead, CallParts, Op, Store!Found
  <2> QED BY <1>4, <2>1, <2>3, <2>4, TurnInv DEF DeleteParts
<1>5. CASE PartsDeleted(c)
  <2>1. /\ Alone(c) /\ added[c] = {} /\ pc[c] = "deleting"
        /\ pc'[c] = IF Op(c) \in Store!Deletes THEN "drop" ELSE "insert"
        /\ req[c] \in Requests
        /\ gone'[c] = snap[c] \cap parts[Target(c)]
    BY <1>0, <1>5, OpFacts
       DEF PartsDeleted, Goto, Alone, TypeOK, CallOK, CallInOrder, CallParts
  <2>2. own[c] # None <=> Op(c) \notin Store!Deletes
    BY <1>0, <2>1 DEF CallOK, CallInOrder
  <2>3. own[c] # None => gone'[c] = parts[own[c]]
    BY <1>0, <2>1, <2>2, OpFacts DEF Target, CallOK, CallParts
  <2>4. CallInOrder(c)'
    BY <1>0, <1>5, <2>1, <2>2 DEF PartsDeleted, CallOK, CallInOrder, Op
  <2>5. CallRead(c)' /\ CallParts(c)'
    BY <1>0, <1>5, <2>1, <2>2, <2>3
       DEF PartsDeleted, CallOK, CallRead, CallParts, Op, Store!Found
  <2> QED BY <1>5, <2>1, <2>4, <2>5, TurnInv DEF PartsDeleted
<1>6. CASE InsertParts(c)
  <2>1. /\ Alone(c) /\ pc[c] = "insert" /\ pc'[c] = "store" /\ req[c] \in Requests
        /\ Op(c) \notin Store!Deletes /\ own[c] # None
        /\ gone[c] = parts[own[c]] /\ req[c].parts # {}
    BY <1>0, <1>6 DEF InsertParts, Goto, Alone, TypeOK, CallOK, CallInOrder, CallParts
  <2>2. Accounts(parts[Target(c)] \ gone[c]) = {}
    BY <2>1, OpFacts DEF Target, Accounts
  <2>3. added'[c] = {[part |-> p, by |-> req[c].key] : p \in UNION req[c].parts}
    BY <1>6, <2>2 DEF InsertParts, TypeOK
  <2>4. CallInOrder(c)'
    BY <1>0, <1>6, <2>1 DEF InsertParts, CallOK, CallInOrder, Op
  <2>5. CallRead(c)'
    BY <1>0, <1>6, <2>1 DEF InsertParts, CallOK, CallRead, Op, Store!Found
  <2>6. CallParts(c)'
    <3>1. UNCHANGED <<req, own, gone, parts>>
      BY <1>6 DEF InsertParts
    <3> QED BY <2>1, <2>3, <3>1 DEF CallParts, Op
  <2> QED BY <1>6, <2>1, <2>4, <2>5, <2>6, TurnInv DEF InsertParts
<1> QED BY <1>1, <1>2, <1>3, <1>4, <1>5, <1>6

LEMMA WritesInv ==
  ASSUME TypeOK, Inv, NEW c \in Clients,
         Upsert(c) \/ Insert(c) \/ UpdateGroup(c) \/ RotateCredential(c)
  PROVE  Inv'
<1>0. CallOK(c) /\ pc[c] = "write" /\ req[c] \in Requests
  BY DEF Inv, CallOK, CallInOrder, Upsert, Insert, UpdateGroup, RotateCredential
<1>1. CASE Upsert(c)
  <2>1. /\ req[c].on \in Targets /\ req[c].value \in Values
        /\ [owner |-> OwnerOf[req[c].on], value |-> req[c].value] \in Store!Row
    BY <1>0, <1>1 DEF Upsert, Op, Targets, Store!Row
  <2>2. Store!Upsert(req[c], req[c].on,
          [owner |-> OwnerOf[req[c].on], value |-> req[c].value])
    BY <1>1 DEF Upsert, Op, Store!Upsert
  <2>3. \A d \in Clients \ {c} : own[d] # req[c].on
    BY <1>1 DEF Upsert, RowBlockers
  <2> QED BY <1>0, <1>1, <2>1, <2>2, <2>3, WriteInv DEF Upsert
<1>2. CASE Insert(c)
  <2>1. PICK id \in Ids :
          /\ DrawnBy[id] = Op(c) /\ former[id] = {} /\ \A d \in Clients : own[d] # id
          /\ Write(c, id, [owner |-> req[c].tenant, value |-> req[c].value])
    BY <1>2 DEF Insert
  <2>2. [owner |-> req[c].tenant, value |-> req[c].value] \in Store!Row
    BY <1>0, <1>2, RequestFacts DEF Insert, Op, Store!Row
  <2>3. Store!Insert(req[c], id, [owner |-> req[c].tenant, value |-> req[c].value])
    BY <1>0, <1>2, <2>1 DEF Insert, Op, Store!Insert, CallOK, CallRead
  <2> QED BY <1>0, <2>1, <2>2, <2>3, WriteInv DEF Targets
<1>3. CASE UpdateGroup(c)
  <2> DEFINE row == [owner |-> req[c].tenant, value |->
                       IF req[c].value = None THEN seen[c] ELSE req[c].value]
  <2>1. /\ Op(c) = "updateAccountGroup" /\ req[c].on \in Targets
        /\ \A d \in Clients \ {c} : own[d] # req[c].on
        /\ rows[req[c].on] # None /\ Write(c, req[c].on, row)
    BY <1>0, <1>3, OpFacts DEF UpdateGroup, RowBlockers, Targets, Op
  <2>2. seen[c] \in former[req[c].on] /\ rows[req[c].on].owner = req[c].tenant
    BY <1>0, <2>1 DEF CallOK, CallRead
  <2>3. row \in Store!Row
    BY <1>0, <2>1, <2>2, RequestFacts DEF Store!Row, TypeOK
  <2>4. Store!Update(req[c], req[c].on, row)
    BY <2>1, <2>2, OpFacts DEF Store!Update, Store!Found, Op
  <2> QED BY <1>0, <2>1, <2>3, <2>4, WriteInv
<1>4. CASE RotateCredential(c)
  <2> DEFINE row == [owner |-> req[c].tenant, value |-> req[c].value]
  <2>1. /\ Op(c) = "rotateCredential" /\ req[c].on \in Targets
        /\ req[c].value \in Values /\ Found(c) /\ Write(c, req[c].on, row)
        /\ \A d \in Clients \ {c} : own[d] # req[c].on
    BY <1>0, <1>4, OpFacts DEF RotateCredential, RowBlockers, Targets, Op
  <2>2. row \in Store!Row
    BY <1>0, <2>1, RequestFacts DEF Store!Row
  <2>3. Store!Update(req[c], req[c].on, row)
    BY <2>1, OpFacts DEF Store!Update, Store!Found, Found, Op
  <2> QED BY <1>0, <2>1, <2>2, <2>3, WriteInv
<1> QED BY <1>1, <1>2, <1>3, <1>4

LEMMA DropInv ==
  ASSUME TypeOK, Inv, NEW c \in Clients, DropGroup(c) PROVE Inv'
<1> USE DEF tables, history, locals
<1>1. CallOK(c)
  BY DEF Inv
<1>2. /\ Alone(c) /\ pc[c] = "drop" /\ pc'[c] = "store" /\ req[c] \in Requests
      /\ own'[c] = req[c].on /\ draft'[c] = None /\ req'[c] = req[c]
      /\ Op(c) \in Store!Deletes /\ added[c] = {}
      /\ UNCHANGED <<rows, parts, answers, former, gone, added>>
  BY <1>1 DEF DropGroup, Goto, Alone, TypeOK, CallOK, CallInOrder, CallParts
<1>3. /\ req[c].on \in Targets /\ req[c].on # None
      /\ parts[req[c].on] \subseteq gone[c]
      /\ \A d \in Clients \ {c} : own[d] # req[c].on
  BY <1>2 DEF DropGroup, Op, Targets, StillReferenced, RowBlockers
<1>4. CallInOrder(c)' /\ CallRead(c)' /\ CallParts(c)'
  BY <1>2, <1>3, OpFacts DEF CallInOrder, CallRead, CallParts, Op
<1>5. Written(c)'
  BY <1>2 DEF DropGroup, Found, Op, Written, Store!Delete, Store!Found
<1> QED BY <1>2, <1>3, <1>4, <1>5, LocalInv DEF CallOK

LEMMA StoreAnswerInv ==
  ASSUME TypeOK, Inv, NEW c \in Clients, StoreAnswer(c) PROVE Inv'
<1> USE DEF tables, history, locals, writes
<1>1. CallOK(c)
  BY DEF Inv
<1>2. /\ Alone(c) /\ pc[c] = "store" /\ pc'[c] = "commit" /\ req'[c] = req[c]
      /\ UNCHANGED <<rows, parts, answers, former, req, seen, own, draft, gone, added>>
  BY DEF StoreAnswer, Goto, Alone, TypeOK
<1>3. CallInOrder(c)' /\ CallRead(c)' /\ CallParts(c)'
  BY <1>1, <1>2 DEF CallOK, CallInOrder, CallRead, CallParts, Op, Store!Found
<1>4. own'[c] # None => Written(c)'
  <2> SUFFICES ASSUME own[c] # None PROVE Written(c)'
    BY <1>2
  <2>1. Written(c)
    BY <1>1 DEF CallOK
  <2>2. CASE Store!Upsert(req[c], own[c], draft[c])
    BY <1>2, <2>2 DEF Written, Store!Upsert
  <2>3. CASE Store!Insert(req[c], own[c], draft[c])
    BY <1>2, <2>3 DEF Written, Store!Insert, Store!Found
  <2>4. CASE Store!Update(req[c], own[c], draft[c])
    BY <1>2, <2>4 DEF Written, Store!Update, Store!Found
  <2>5. CASE Store!Delete(req[c], own[c], draft[c])
    BY <1>2, <2>5 DEF Written, Store!Delete, Store!Found
  <2> QED BY <2>1, <2>2, <2>3, <2>4, <2>5 DEF Written
<1>5. own'[c] = None \/ \A d \in Clients \ {c} : own[d] # own'[c]
  BY <1>2 DEF Inv, LocksExclusive
<1>6. /\ answers[req'[c].key] = None
      /\ \A d \in Clients \ {c} : pc[d] = "commit" => req[d].key # req'[c].key
  BY <1>2 DEF StoreAnswer, KeyBlockers
<1> QED BY <1>2, <1>3, <1>4, <1>5, <1>6, LocalInv DEF CallOK
-----------------------------------------------------------------------------
(* COMMIT.                                                                  *)

(* What a committing call knows. *)
LEMMA CommitFacts ==
  ASSUME TypeOK, Inv, NEW c \in Clients, pc[c] = "commit", Publish(c)
  PROVE  /\ req[c] \in Requests /\ own[c] \in Targets /\ Written(c)
         /\ draft[c] = None <=> Op(c) \in Store!Deletes
         /\ rows'[own[c]] = draft[c]
         /\ \A x \in Targets \ {own[c]} :
              rows'[x] = rows[x] /\ parts'[x] = parts[x] /\ former'[x] = former[x]
         /\ \A x \in Targets : former[x] \subseteq former'[x]
         /\ draft[c] # None => draft[c].value \in former'[own[c]]
         /\ req[c].key \in Keys /\ answers[req[c].key] = None
         /\ answers'[req[c].key] =
              [id |-> own[c], row |-> draft[c], parts |-> Accounts(parts'[own[c]]),
               call |-> req[c]]
         /\ \A k \in Keys \ {req[c].key} : answers'[k] = answers[k]
         /\ parts'[own[c]] =
              IF draft[c] = None THEN {}
              ELSE IF req[c].parts = {} THEN parts[own[c]]
              ELSE {[part |-> p, by |-> req[c].key] : p \in UNION req[c].parts}
<1>1. req[c] \in Requests /\ own[c] \in Targets /\ Written(c)
  BY DEF Inv, CallOK, CallInOrder
<1>2. draft[c] = None <=> Op(c) \in Store!Deletes
  BY <1>1, WrittenFacts
<1>3. req[c].key \in Keys /\ answers[req[c].key] = None
  BY <1>1, RequestFacts DEF Inv, KeysUnused
<1>4. parts'[own[c]] = (parts[own[c]] \ gone[c]) \cup added[c]
  BY <1>1 DEF Publish, TypeOK
<1>5. IF Op(c) \in Store!Deletes THEN parts[own[c]] \subseteq gone[c] /\ added[c] = {}
      ELSE IF req[c].parts = {} THEN gone[c] = {} /\ added[c] = {}
      ELSE /\ gone[c] = parts[own[c]]
           /\ added[c] = {[part |-> p, by |-> req[c].key] : p \in UNION req[c].parts}
  BY DEF Inv, CallOK, CallParts
<1>6. parts'[own[c]] =
        IF draft[c] = None THEN {}
        ELSE IF req[c].parts = {} THEN parts[own[c]]
        ELSE {[part |-> p, by |-> req[c].key] : p \in UNION req[c].parts}
  BY <1>2, <1>4, <1>5
<1>7. /\ rows'[own[c]] = draft[c]
      /\ \A x \in Targets \ {own[c]} :
           rows'[x] = rows[x] /\ parts'[x] = parts[x] /\ former'[x] = former[x]
      /\ \A x \in Targets : former[x] \subseteq former'[x]
      /\ draft[c] # None => draft[c].value \in former'[own[c]]
  BY <1>1 DEF Publish, TypeOK
<1>8. /\ answers'[req[c].key] =
           [id |-> own[c], row |-> draft[c], parts |-> Accounts(parts'[own[c]]),
            call |-> req[c]]
      /\ \A k \in Keys \ {req[c].key} : answers'[k] = answers[k]
  BY <1>3 DEF Publish, TypeOK
<1> QED BY <1>1, <1>2, <1>3, <1>6, <1>7, <1>8

(* Whoever still relies on the row finds it with its owner, or gone. *)
LEMMA CommitKeepsOwner ==
  ASSUME TypeOK, Inv, NEW c \in Clients, pc[c] = "commit", Publish(c),
         NEW x \in Ids, rows[x] # None
  PROVE  /\ rows'[x] # None => rows'[x].owner = rows[x].owner
         /\ DrawnBy[x] # "createAccountGroup" => rows'[x] # None
<1>1. x \in Targets
  BY DEF Targets
<1>2. CASE x # own[c]
  <2>1. \A y \in Targets \ {own[c]} : rows'[y] = rows[y]
    BY CommitFacts
  <2> QED BY <1>1, <1>2, <2>1
<1>3. CASE x = own[c]
  <2>1. rows'[x] = draft[c] /\ Written(c) /\ req[c] \in Requests
    BY <1>3, CommitFacts
  <2>2. former[x] # {}
    BY <1>1 DEF Inv, RowsOwned
  <2>3. ~Store!Upsert(req[c], own[c], draft[c]) /\ ~Store!Insert(req[c], own[c], draft[c])
    BY <1>3, <2>1, <2>2 DEF Store!Upsert, Store!Insert
  <2>4. CASE Store!Update(req[c], own[c], draft[c])
    <3>1. draft[c].owner = req[c].tenant /\ rows[x].owner = req[c].tenant
      BY <1>3, <2>4 DEF Store!Update, Store!Found
    <3>2. draft[c] # None
      BY <2>1, <2>4, WrittenFacts, OpFacts DEF Store!Update, Op
    <3> QED BY <2>1, <3>1, <3>2
  <2>5. CASE Store!Delete(req[c], own[c], draft[c])
    BY <1>3, <2>1, <2>5 DEF Store!Delete
  <2> QED BY <2>1, <2>3, <2>4, <2>5 DEF Written
<1> QED BY <1>2, <1>3

LEMMA CommitOthers ==
  ASSUME TypeOK, Inv, NEW c \in Clients, pc[c] = "commit", Publish(c), EndCall(c),
         NEW d \in Clients \ {c}
  PROVE  CallOK(d)'
<1>1. CallOK(d) /\ Alone(c)
  BY EndCallAlone DEF Inv
<1>2. /\ pc'[d] = pc[d] /\ req'[d] = req[d] /\ seen'[d] = seen[d]
      /\ own'[d] = own[d] /\ draft'[d] = draft[d] /\ snap'[d] = snap[d]
      /\ gone'[d] = gone[d] /\ added'[d] = added[d]
  BY <1>1 DEF Alone
<1>3. CallInOrder(d)'
  BY <1>1, <1>2 DEF CallOK, CallInOrder, Op
<1>4. own[d] # None => own[d] \in Targets \ {own[c]}
  BY <1>1 DEF Inv, LocksExclusive, CallOK, CallInOrder
<1>5. \A x \in Targets \ {own[c]} :
        rows'[x] = rows[x] /\ parts'[x] = parts[x] /\ former'[x] = former[x]
  BY CommitFacts
<1>6. CallParts(d)'
  BY <1>1, <1>2, <1>3, <1>4, <1>5 DEF CallOK, CallParts, CallInOrder, Op
<1>7. ASSUME pc[d] = "write", Op(d) = "updateAccountGroup"
      PROVE  /\ seen[d] \in former'[req[d].on]
             /\ rows'[req[d].on] # None => rows'[req[d].on].owner = req[d].tenant
  <2>1. /\ req[d] \in Requests /\ seen[d] \in former[req[d].on]
        /\ rows[req[d].on] # None => rows[req[d].on].owner = req[d].tenant
    BY <1>1, <1>7 DEF CallOK, CallInOrder, CallRead
  <2>2. req[d].on \in Ids /\ req[d].on \in Targets
    BY <1>7, <2>1, OpFacts DEF Op, Targets
  <2>3. seen[d] \in former'[req[d].on]
    BY <2>1, <2>2, CommitFacts
  <2>4. CASE rows[req[d].on] # None
    BY <2>1, <2>2, <2>3, <2>4, CommitKeepsOwner
  <2>5. CASE rows[req[d].on] = None /\ req[d].on # own[c]
    BY <1>5, <2>2, <2>3, <2>5
  <2>6. CASE rows[req[d].on] = None /\ req[d].on = own[c]
    <3>1. Written(c) /\ req[c] \in Requests
      BY CommitFacts
    <3>2. ~Store!Upsert(req[c], own[c], draft[c]) /\ ~Store!Insert(req[c], own[c], draft[c])
      BY <2>1, <2>2, <2>6, <3>1 DEF Store!Upsert, Store!Insert
    <3>3. ~Store!Update(req[c], own[c], draft[c]) /\ ~Store!Delete(req[c], own[c], draft[c])
      BY <2>6 DEF Store!Update, Store!Delete, Store!Found
    <3> QED BY <3>1, <3>2, <3>3 DEF Written
  <2> QED BY <2>4, <2>5, <2>6
<1>8. ASSUME pc[d] \notin {"idle", "lookup", "read"}, Op(d) = "createDimensionMapping"
      PROVE  rows'[req[d].on] # None /\ rows'[req[d].on].owner = req[d].tenant
  <2>1. /\ req[d] \in Requests /\ rows[req[d].on] # None
        /\ rows[req[d].on].owner = req[d].tenant
    BY <1>1, <1>8 DEF CallOK, CallInOrder, CallRead, Store!Found
  <2>2. req[d].on \in Ids /\ DrawnBy[req[d].on] # "createAccountGroup"
    BY <1>8, <2>1 DEF Op
  <2> QED BY <2>1, <2>2, CommitKeepsOwner
<1>9. CallRead(d)'
  BY <1>2, <1>7, <1>8 DEF CallRead, Op, Store!Found
<1>10. ASSUME own[d] # None PROVE Written(d)'
  <2>1. Written(d) /\ rows'[own[d]] = rows[own[d]] /\ former'[own[d]] = former[own[d]]
    BY <1>1, <1>4, <1>5, <1>10 DEF CallOK
  <2>2. CASE Store!Upsert(req[d], own[d], draft[d])
    BY <1>2, <2>2 DEF Written, Store!Upsert
  <2>3. CASE Store!Insert(req[d], own[d], draft[d])
    <3>1. req[d].op = "createDimensionMapping" =>
            rows'[req[d].on] # None /\ rows'[req[d].on].owner = req[d].tenant
      BY <1>1, <1>8, <1>10 DEF CallOK, CallInOrder, Op
    <3> QED BY <1>2, <2>1, <2>3, <3>1 DEF Written, Store!Insert, Store!Found
  <2>4. CASE Store!Update(req[d], own[d], draft[d])
    <3>1. /\ req'[d].op \in Store!Updates /\ own'[d] = req'[d].on
          /\ rows'[req'[d].on] # None /\ rows'[req'[d].on].owner = req'[d].tenant
      BY <1>2, <2>1, <2>4 DEF Store!Update, Store!Found
    <3>2. \E v \in IF req'[d].value # None THEN {req'[d].value} ELSE former'[own'[d]] :
            draft'[d] = [owner |-> req'[d].tenant, value |-> v]
      BY <1>2, <2>1, <2>4 DEF Store!Update
    <3> QED BY <3>1, <3>2 DEF Written, Store!Update, Store!Found
  <2>5. CASE Store!Delete(req[d], own[d], draft[d])
    BY <1>2, <2>1, <2>5 DEF Written, Store!Delete, Store!Found
  <2> QED BY <2>1, <2>2, <2>3, <2>4, <2>5 DEF Written
<1> QED BY <1>2, <1>3, <1>6, <1>9, <1>10 DEF CallOK

LEMMA CommitInv ==
  ASSUME TypeOK, Inv, NEW c \in Clients, pc[c] = "commit", Publish(c), EndCall(c)
  PROVE  Inv'
<1>1. /\ Alone(c) /\ CallOK(c)' /\ own'[c] = None /\ pc'[c] = "idle"
  BY EndCallAlone
<1>2. \A d \in Clients : CallOK(d)'
  BY <1>1, CommitOthers
<1>3. LocksExclusive'
  BY <1>1 DEF LocksExclusive, Alone, Inv
<1>4. KeysUnused'
  <2> SUFFICES ASSUME NEW d \in Clients, pc'[d] = "commit"
               PROVE  answers'[req'[d].key] = None
    BY DEF KeysUnused
  <2>1. d # c /\ pc[d] = "commit" /\ req'[d] = req[d]
    BY <1>1 DEF Alone
  <2>2. /\ req[d].key \in Keys /\ req[d].key # req[c].key
        /\ answers[req[d].key] = None
    BY <2>1, RequestFacts
       DEF Inv, LocksExclusive, KeysUnused, CallOK, CallInOrder
  <2>3. \A k \in Keys \ {req[c].key} : answers'[k] = answers[k]
    BY CommitFacts
  <2> QED BY <2>1, <2>2, <2>3
<1>5. RowsOwned'
  <2> SUFFICES ASSUME NEW x \in Targets, rows'[x] # None
               PROVE  /\ rows'[x].value \in former'[x]
                      /\ x \in Names => rows'[x].owner = OwnerOf[x]
    BY DEF RowsOwned
  <2>1. CASE x # own[c]
    <3>1. \A y \in Targets \ {own[c]} : rows'[y] = rows[y] /\ former'[y] = former[y]
      BY CommitFacts
    <3> QED BY <2>1, <3>1 DEF Inv, RowsOwned
  <2>2. CASE x = own[c]
    <3>1. /\ rows'[x] = draft[c] /\ Written(c) /\ req[c] \in Requests
          /\ draft[c].value \in former'[x]
      BY <2>2, CommitFacts
    <3>2. x \in Names => draft[c].owner = OwnerOf[x]
      <4>1. ASSUME x \in Names PROVE Store!Upsert(req[c], own[c], draft[c])
        BY <2>2, <3>1, <4>1
           DEF Written, Store!Insert, Store!Update, Store!Delete
      <4> QED BY <2>2, <4>1 DEF Store!Upsert
    <3> QED BY <3>1, <3>2
  <2> QED BY <2>1, <2>2
<1>6. PartsAreOneCalls'
  <2> SUFFICES ASSUME NEW x \in Targets, parts'[x] # {}
               PROVE  \E k \in Keys :
                 /\ answers'[k] # None /\ answers'[k].id = x
                 /\ parts'[x] = {[part |-> p, by |-> k] : p \in UNION answers'[k].call.parts}
    BY DEF PartsAreOneCalls
  <2>1. CASE parts'[x] = parts[x]
    <3>1. PICK k \in Keys :
            /\ answers[k] # None /\ answers[k].id = x
            /\ parts[x] = {[part |-> p, by |-> k] : p \in UNION answers[k].call.parts}
      BY <2>1 DEF Inv, PartsAreOneCalls
    <3>2. answers'[k] = answers[k]
      BY <3>1, CommitFacts
    <3> QED BY <2>1, <3>1, <3>2
  <2>2. CASE parts'[x] # parts[x]
    <3>1. x = own[c]
      <4>1. \A y \in Targets \ {own[c]} : parts'[y] = parts[y]
        BY CommitFacts
      <4> QED BY <2>2, <4>1
    <3>2. /\ req[c].key \in Keys
          /\ answers'[req[c].key] =
               [id |-> x, row |-> draft[c], parts |-> Accounts(parts'[x]), call |-> req[c]]
          /\ parts'[x] = {[part |-> p, by |-> req[c].key] : p \in UNION req[c].parts}
      BY <2>2, <3>1, CommitFacts
    <3>3. answers'[req[c].key] \in Store!Answer
      BY CommitFacts, PublishType
    <3> QED BY <3>2, <3>3
  <2> QED BY <2>1, <2>2
<1> QED BY <1>2, <1>3, <1>4, <1>5, <1>6 DEF Inv

LEMMA InvStep ==
  ASSUME TypeOK, Inv, [Next]_vars PROVE Inv'
<1>1. CASE UNCHANGED vars
  <2>1. \A c \in Clients : Alone(c)
    BY <1>1 DEF vars, writes, locals, Alone
  <2>2. ASSUME NEW c \in Clients PROVE Inv'
    <3>1. UNCHANGED <<rows, parts, answers, former, own, draft, req, pc, seen, snap,
                      gone, added>>
      BY <1>1 DEF vars, tables, history, writes, locals
    <3>2. CallOK(c)
      BY DEF Inv
    <3>3. CallInOrder(c)' /\ CallRead(c)' /\ CallParts(c)'
      BY <3>1, <3>2 DEF CallOK, CallInOrder, CallRead, CallParts, Op, Store!Found
    <3>5. own'[c] # None => Written(c)'
      <4> SUFFICES ASSUME own[c] # None PROVE Written(c)'
        BY <3>1
      <4>1. Written(c)
        BY <3>2 DEF CallOK
      <4>2. CASE Store!Upsert(req[c], own[c], draft[c])
        BY <3>1, <4>2 DEF Written, Store!Upsert
      <4>3. CASE Store!Insert(req[c], own[c], draft[c])
        BY <3>1, <4>3 DEF Written, Store!Insert, Store!Found
      <4>4. CASE Store!Update(req[c], own[c], draft[c])
        BY <3>1, <4>4 DEF Written, Store!Update, Store!Found
      <4>5. CASE Store!Delete(req[c], own[c], draft[c])
        BY <3>1, <4>5 DEF Written, Store!Delete, Store!Found
      <4> QED BY <4>1, <4>2, <4>3, <4>4, <4>5 DEF Written
    <3>6. own'[c] = None \/ \A d \in Clients \ {c} : own[d] # own'[c]
      BY <3>1 DEF Inv, LocksExclusive
    <3>7. pc'[c] = "commit" =>
            /\ answers[req'[c].key] = None
            /\ \A d \in Clients \ {c} : pc[d] = "commit" => req[d].key # req'[c].key
      BY <3>1 DEF Inv, LocksExclusive, KeysUnused
    <3> QED BY <2>1, <3>1, <3>3, <3>5, <3>6, <3>7, LocalInv DEF CallOK
  <2>3. CASE Clients = {}
    <3>1. UNCHANGED <<rows, parts, answers, former>>
      BY <1>1 DEF vars, tables, history
    <3> QED BY <2>3, <3>1
            DEF Inv, LocksExclusive, KeysUnused, RowsOwned, PartsAreOneCalls
  <2> QED BY <2>2, <2>3
<1>2. ASSUME NEW c \in Clients, Replay(c) PROVE Inv'
  <2>1. EndCall(c) /\ UNCHANGED <<rows, parts, answers, former>>
    BY <1>2 DEF Replay, tables
  <2> QED BY <2>1, EndCallAlone, LocalInv
<1>3. ASSUME NEW c \in Clients, Commit(c) \/ CommitUnconfirmed(c) PROVE Inv'
  BY <1>3, CommitInv DEF Commit, CommitUnconfirmed
<1> QED
  BY <1>1, <1>2, <1>3, TurnsInv, WritesInv, DropInv, StoreAnswerInv, ThrowInv
     DEF Next, Step, RowNotFound, NoRowToUpdate, PartUnknown, CannotDrop, KeyTaken,
         DeadlockVictim, Fails

(* Every state is well typed and satisfies the invariant: of the calls in   *)
(* progress, none has lost what it read or wrote under its locks.           *)
THEOREM Invariance == Spec => [](TypeOK /\ Inv)
<1>1. Init => TypeOK /\ Inv
  BY TypeInit, InvInit
<1>2. TypeOK /\ Inv /\ [Next]_vars => (TypeOK /\ Inv)'
  BY TypeStep, InvStep
<1> QED BY <1>1, <1>2, PTL DEF Spec

(* Whatever calls are made, the tables and the answers are well typed.      *)
THEOREM TypeCorrect == Spec => []TypeOK
BY Invariance, PTL

(* The members of a group, like the roles of a user, are always those that  *)
(* one call gave, however many calls replace them at once.                  *)
THEOREM MembersAreOneCalls == Spec => []PartsAreOneCalls
<1>1. Inv => PartsAreOneCalls
  BY DEF Inv
<1> QED BY <1>1, Invariance, PTL
-----------------------------------------------------------------------------
(* The refinement.                                                         *)

LEMMA CommitApplies ==
  ASSUME TypeOK, Inv, NEW c \in Clients, pc[c] = "commit", Publish(c),
         served' = served \/ served' = served \cup {answers'[req[c].key]}
  PROVE  Store!Apply(req[c], own[c], draft[c])
<1> DEFINE mapped == [x \in Targets |-> Accounts(parts[x])]
<1>1. /\ req[c] \in Requests /\ own[c] \in Targets /\ Written(c)
      /\ req[c].key \in Keys /\ answers[req[c].key] = None
  BY CommitFacts
<1>2. /\ Store!Upsert(req[c], own[c], draft[c]) \/ Store!Insert(req[c], own[c], draft[c])
         \/ Store!Update(req[c], own[c], draft[c]) \/ Store!Delete(req[c], own[c], draft[c])
  BY <1>1 DEF Written
<1>3. /\ rows' = [rows EXCEPT ![own[c]] = draft[c]]
      /\ former' = [former EXCEPT ![own[c]] =
                      @ \cup (IF draft[c] = None THEN {} ELSE {draft[c].value})]
  BY DEF Publish
<1>4. Accounts(parts'[own[c]]) =
        IF draft[c] = None THEN {}
        ELSE IF req[c].parts = {} THEN mapped[own[c]] ELSE UNION req[c].parts
  <2>1. Accounts({[part |-> p, by |-> req[c].key] : p \in UNION req[c].parts})
          = UNION req[c].parts
    <3> DEFINE put == {[part |-> p, by |-> req[c].key] : p \in UNION req[c].parts}
    <3>1. \A q \in put : q.part \in UNION req[c].parts
      OBVIOUS
    <3>2. ASSUME NEW x \in UNION req[c].parts PROVE \E q \in put : q.part = x
      <4>1. [part |-> x, by |-> req[c].key] \in put
        OBVIOUS
      <4> QED BY <4>1
    <3> HIDE DEF put
    <3>3. Accounts(put) = UNION req[c].parts
      BY <3>1, <3>2 DEF Accounts
    <3> QED BY <3>3 DEF put
  <2>2. Accounts({}) = {}
    BY DEF Accounts
  <2>3. parts'[own[c]] =
          IF draft[c] = None THEN {}
          ELSE IF req[c].parts = {} THEN parts[own[c]]
          ELSE {[part |-> p, by |-> req[c].key] : p \in UNION req[c].parts}
    BY CommitFacts
  <2> QED BY <1>1, <2>1, <2>2, <2>3
<1>5. \A x \in Targets \ {own[c]} : parts'[x] = parts[x]
  BY CommitFacts
<1>6. [x \in Targets |-> Accounts(parts'[x])] =
        [mapped EXCEPT ![own[c]] =
           IF draft[c] = None THEN {}
           ELSE IF req[c].parts = {} THEN @ ELSE UNION req[c].parts]
  BY <1>1, <1>4, <1>5
<1>7. answers' = [answers EXCEPT ![req[c].key] =
        [id |-> own[c], row |-> draft[c],
         parts |-> [x \in Targets |-> Accounts(parts'[x])][own[c]], call |-> req[c]]]
  <2>1. [x \in Targets |-> Accounts(parts'[x])][own[c]] = Accounts(parts'[own[c]])
    BY <1>1
  <2> QED BY <2>1 DEF Publish
<1> QED BY <1>1, <1>2, <1>3, <1>6, <1>7 DEF Store!Apply

LEMMA StepImplements ==
  ASSUME TypeOK, Inv, [Next]_vars PROVE [Store!Next]_Store!vars
<1>1. CASE UNCHANGED <<tables, history>>
  BY <1>1 DEF tables, history, Store!vars
<1>2. ASSUME NEW c \in Clients, Replay(c) PROVE Store!Next
  <2>1. req[c].key \in Keys
    BY <1>2, RequestFacts DEF Replay, Inv, CallOK, CallInOrder
  <2>2. Store!Serve(req[c].key)
    BY <1>2 DEF Replay, Store!Serve, tables
  <2> QED BY <2>1, <2>2 DEF Store!Next
<1>3. ASSUME NEW c \in Clients, Commit(c) \/ CommitUnconfirmed(c) PROVE Store!Next
  <2>1. Store!Apply(req[c], own[c], draft[c])
    BY <1>3, CommitApplies DEF Commit, CommitUnconfirmed
  <2>2. req[c] \in Requests /\ own[c] \in Targets /\ draft[c] \in Store!Row \cup {None}
    BY <1>3, CommitFacts DEF Commit, CommitUnconfirmed, TypeOK
  <2> QED BY <2>1, <2>2 DEF Store!Next, Store!Targets, Targets
<1>4. ASSUME NEW c \in Clients, Call(c) \/ Throw(c) \/ (Step(c) /\ ~Replay(c) /\ ~Commit(c))
      PROVE  UNCHANGED <<tables, history>>
  BY <1>4
     DEF Throw, Call, Step, KeyNotFound, ReadRow, RowNotFound, Upsert, Insert, UpdateGroup,
         RotateCredential, NoRowToUpdate, DeleteParts, PartsDeleted, InsertParts,
         PartUnknown, DropGroup, CannotDrop, StoreAnswer, KeyTaken, Write
<1> QED
  BY <1>1, <1>2, <1>3, <1>4 DEF Next, Fails, DeadlockVictim, vars

(* The repositories over PostgreSQL, query by query and with rollbacks,     *)
(* deadlocks and lost answers, implement the in-memory ones.                *)
THEOREM Refinement == Spec => ImplementsGovernanceStore
<1>1. Init => Store!Init
  BY DEF Init, Store!Init, Accounts, Store!Targets, Targets
<1>2. TypeOK /\ Inv /\ [Next]_vars => [Store!Next]_Store!vars
  BY StepImplements
<1> QED BY <1>1, <1>2, Invariance, PTL DEF Spec, ImplementsGovernanceStore, Store!Spec

(* A call changes rows of its own tenant only: what the DELETE of members,  *)
(* which names no tenant, does to another's group is rolled back.           *)
THEOREM OthersRowsSafe == Spec => OthersRowsUntouched
<1> DEFINE Owned(x) ==
      (rows'[x] # rows[x] \/ parts'[x] # parts[x]) =>
         \E k \in Keys :
           /\ answers[k] = None /\ answers'[k] # None /\ answers'[k].id = x
           /\ rows[x] # None => rows[x].owner \in {answers'[k].call.tenant, None}
<1>1. ASSUME TypeOK, Inv, [Next]_vars, NEW x \in Targets PROVE Owned(x)
  <2>1. CASE UNCHANGED <<rows, parts>>
    BY <2>1
  <2>2. ASSUME NEW c \in Clients, pc[c] = "commit", Publish(c) PROVE Owned(x)
    <3>1. CASE x # own[c]
      <4>1. \A y \in Targets \ {own[c]} : rows'[y] = rows[y] /\ parts'[y] = parts[y]
        BY <1>1, <2>2, CommitFacts
      <4> QED BY <3>1, <4>1
    <3>2. CASE x = own[c]
      <4>1. /\ req[c] \in Requests /\ req[c].key \in Keys /\ Written(c)
            /\ answers[req[c].key] = None
            /\ answers'[req[c].key] = [id |-> x, row |-> draft[c],
                                       parts |-> Accounts(parts'[x]), call |-> req[c]]
        BY <1>1, <2>2, <3>2, CommitFacts
      <4>2. answers'[req[c].key] # None
        BY <1>1, <2>2, <4>1, CommitFacts, PublishType
      <4>3. rows[x] # None => rows[x].owner \in {req[c].tenant, None}
        <5>1. CASE Store!Upsert(req[c], own[c], draft[c])
          BY <1>1, <3>2, <4>1, <5>1 DEF Store!Upsert, Inv, RowsOwned
        <5>2. CASE Store!Insert(req[c], own[c], draft[c])
          BY <1>1, <3>2, <5>2 DEF Store!Insert, Inv, RowsOwned
        <5>3. CASE Store!Update(req[c], own[c], draft[c]) \/ Store!Delete(req[c], own[c], draft[c])
          BY <3>2, <5>3 DEF Store!Update, Store!Delete, Store!Found
        <5> QED BY <4>1, <5>1, <5>2, <5>3 DEF Written
      <4> QED BY <4>1, <4>2, <4>3
    <3> QED BY <3>1, <3>2
  <2>3. ASSUME NEW c \in Clients, Call(c) \/ Throw(c) \/ (Step(c) /\ ~Commit(c))
        PROVE  UNCHANGED <<rows, parts>>
    BY <2>3
       DEF Throw, Call, Step, KeyNotFound, ReadRow, RowNotFound, Upsert, Insert, UpdateGroup,
           RotateCredential, NoRowToUpdate, DeleteParts, PartsDeleted, InsertParts,
           PartUnknown, DropGroup, CannotDrop, StoreAnswer, KeyTaken, Write, Replay, tables
  <2> QED
    BY <1>1, <2>1, <2>2, <2>3
       DEF Next, Fails, DeadlockVictim, vars, tables, Commit, CommitUnconfirmed
<1>2. TypeOK /\ Inv /\ [Next]_vars => [\A x \in Targets : Owned(x)]_vars
  BY <1>1
<1> QED BY <1>2, Invariance, PTL DEF Spec, OthersRowsUntouched
-----------------------------------------------------------------------------
(* The audit log: its invariant is inductive.                              *)

HIDE RequestsAssumption
HIDE TablesAssumption
HIDE NoneAssumption
USE EntryIdsAssumption, ClockAssumption

LEMMA ChainInvInit == ChainInit => ChainTypeOK /\ ChainInv
BY DEF ChainInit, ChainTypeOK, ChainInv, IdsUnique, TailsSound, StampsOrdered, Stamped, Seen

(* The rows a transaction sees are entries.                                *)
LEMMA SeenEntries ==
  ASSUME ChainTypeOK, NEW c \in Txns
  PROVE  /\ Seen(c) \subseteq Entry /\ IdsOf(Seen(c)) \subseteq EntryIds
         /\ log \subseteq Seen(c) /\ mine[c] \subseteq Seen(c)
<1>1. Seen(c) \subseteq Entry /\ log \subseteq Seen(c) /\ mine[c] \subseteq Seen(c)
  BY DEF ChainTypeOK, Seen
<1> QED BY <1>1 DEF IdsOf, Entry

(* Either SELECT finds the end of the chain, or that there is none.        *)
LEMMA SelectFinds ==
  ASSUME ChainTypeOK, ChainInv, NEW c \in Txns, Select(c) \/ SelectAgain(c)
  PROVE  /\ \E t \in Owners, prev \in EntryIds \cup {NoEntry} :
              /\ Holds(c, t, prev)
              /\ \/ ChainOf(c, t) = {} /\ prev = NoEntry
                 \/ \E e \in Seen(c) : Latest(c, t, e) /\ prev = e.id
         /\ query' = [query EXCEPT ![c] = "insert"]
         /\ UNCHANGED <<log, clock, mine>>
<1>1. PICK t \in Owners : Find(c, t)
  <2>1. CASE Select(c)
    BY <2>1 DEF Select
  <2>2. CASE SelectAgain(c)
    <3>1. tail[c] \in Tail
      BY <2>2 DEF SelectAgain, ChainInv, TailsSound
    <3> QED BY <2>2, <3>1 DEF SelectAgain, Tail
  <2> QED BY <2>1, <2>2
<1>2. \A e \in Seen(c) : e.id \in EntryIds
  BY SeenEntries DEF Entry
<1> QED BY <1>1, <1>2 DEF Find

LEMMA ChainTypeStep == ChainTypeOK /\ ChainInv /\ [ChainNext]_chainVars => ChainTypeOK'
<1> SUFFICES ASSUME ChainTypeOK, ChainInv, [ChainNext]_chainVars PROVE ChainTypeOK'
  OBVIOUS
<1>1. ASSUME NEW c \in Txns, Select(c) \/ SelectAgain(c) PROVE ChainTypeOK'
  <2>1. PICK t \in Owners, prev \in EntryIds \cup {NoEntry} : Holds(c, t, prev)
    BY <1>1, SelectFinds
  <2>2. IdsOf(Seen(c)) \in SUBSET EntryIds
    BY SeenEntries
  <2>3. tail' \in [Txns -> Tail \cup {NoEntry}]
    BY <2>1, <2>2 DEF Holds, ChainTypeOK, Tail
  <2> QED BY <1>1, <2>3, SelectFinds DEF ChainTypeOK
<1>2. ASSUME NEW c \in Txns, InsertEntry(c) PROVE ChainTypeOK'
  <2>1. PICK i \in EntryIds : mine' = [mine EXCEPT ![c] =
                           @ \cup {[id |-> i, at |-> clock, tail |-> tail[c]]}]
    BY <1>2 DEF InsertEntry
  <2>2. [id |-> i, at |-> clock, tail |-> tail[c]] \in Entry
    BY <1>2 DEF InsertEntry, ChainTypeOK, ChainInv, TailsSound, Entry
  <2>3. mine' \in [Txns -> SUBSET Entry]
    BY <2>1, <2>2 DEF ChainTypeOK
  <2> QED BY <1>2, <2>3 DEF InsertEntry, ChainTypeOK
<1>3. ASSUME NEW c \in Txns, EndTxn(c), log' = log \/ log' = log \cup mine[c]
      PROVE ChainTypeOK'
  <2>1. log' \subseteq Entry
    BY <1>3 DEF ChainTypeOK
  <2>2. tail' \in [Txns -> Tail \cup {NoEntry}] /\ mine' \in [Txns -> SUBSET Entry]
    BY <1>3 DEF EndTxn, ChainTypeOK
  <2> QED BY <1>3, <2>1, <2>2 DEF EndTxn, ChainTypeOK
<1>4. CASE Tick
  BY <1>4 DEF Tick, ChainTypeOK
<1>5. CASE UNCHANGED chainVars
  BY <1>5 DEF chainVars, ChainTypeOK
<1> QED BY <1>1, <1>2, <1>3, <1>4, <1>5 DEF ChainNext, CommitEntries, Rollback

(* What a SELECT returns is sound.                                         *)
LEMMA SelectInv ==
  ASSUME ChainTypeOK, ChainInv, NEW c \in Txns, Select(c) \/ SelectAgain(c)
  PROVE  ChainInv'
<1> USE DEF ChainInv
<1>1. PICK t \in Owners, prev \in EntryIds \cup {NoEntry} :
        /\ Holds(c, t, prev)
        /\ \/ ChainOf(c, t) = {} /\ prev = NoEntry
           \/ \E e \in Seen(c) : Latest(c, t, e) /\ prev = e.id
  BY SelectFinds
<1> DEFINE new == [tenant |-> t, prev |-> prev, knew |-> IdsOf(Seen(c))]
<1>2. /\ tail'[c] = new /\ query'[c] = "insert"
      /\ \A d \in Txns \ {c} : tail'[d] = tail[d] /\ query'[d] = query[d]
      /\ mine' = mine /\ log' = log /\ clock' = clock
      /\ \A d : Seen(d)' = Seen(d)
  BY <1>1, SelectFinds DEF Holds, ChainTypeOK, Seen
<1>3. IdsUnique'
  BY <1>2 DEF IdsUnique, IdsOf
<1>4. TailSound(new, Seen(c))
  <2>1. CASE ChainOf(c, t) = {} /\ prev = NoEntry
    BY <2>1 DEF ChainOf, TailSound
  <2>2. ASSUME NEW e \in Seen(c), Latest(c, t, e), prev = e.id
        PROVE  TailSound(new, Seen(c))
    <3>1. prev # NoEntry
      BY <2>2, SeenEntries DEF Entry
    <3> QED BY <2>2, <3>1 DEF Latest, ChainOf, TailSound
  <2> QED BY <1>1, <2>1, <2>2
<1>5. new \in Tail
  BY SeenEntries DEF Tail
<1>6. TailsSound'
  <2>1. \A e \in log' : TailSound(e.tail, log')
    BY <1>2 DEF TailsSound
  <2>2. ASSUME NEW d \in Txns, query'[d] # "select"
        PROVE  tail'[d] \in Tail /\ TailSound(tail'[d], Seen(d))
    <3>1. CASE d = c
      BY <3>1, <1>2, <1>4, <1>5
    <3>2. CASE d # c
      BY <3>2, <2>2, <1>2 DEF TailsSound
    <3> QED BY <3>1, <3>2
  <2>3. \A d \in Txns : query'[d] = "select" => mine'[d] = {}
    BY <1>2 DEF TailsSound
  <2>4. \A d \in Txns : \A e \in mine'[d] : TailSound(e.tail, Seen(d))
    BY <1>2 DEF TailsSound
  <2> QED BY <2>1, <2>2, <2>3, <2>4, <1>2 DEF TailsSound, TailSound, IdsOf, UpTo
<1>7. StampsOrdered'
  BY <1>2 DEF StampsOrdered, Stamped
<1> QED BY <1>3, <1>6, <1>7

(* A tail stays sound among more rows, if it knew none of the new ones.    *)
LEMMA TailSoundAmongMore ==
  ASSUME NEW t, NEW entries, NEW more, TailSound(t, entries), entries \subseteq more,
         \A f \in more : f.id \in t.knew => f \in entries
  PROVE  TailSound(t, more)
<1>1. IdsOf(entries) \subseteq IdsOf(more)
  BY DEF IdsOf
<1> QED BY <1>1 DEF TailSound

(* The clock has not gone back since the SELECT, and what it found is not  *)
(* the new entry.                                                          *)
LEMMA InsertEntryInv ==
  ASSUME ChainTypeOK, ChainInv, NEW c \in Txns, InsertEntry(c) PROVE ChainInv'
<1> USE DEF ChainInv
<1>1. PICK i \in EntryIds :
        /\ UnusedId(i)
        /\ mine' = [mine EXCEPT ![c] =
                      @ \cup {[id |-> i, at |-> clock, tail |-> tail[c]]}]
  BY DEF InsertEntry
<1> DEFINE new == [id |-> i, at |-> clock, tail |-> tail[c]]
<1>2. /\ mine'[c] = mine[c] \cup {new} /\ Seen(c)' = Seen(c) \cup {new}
      /\ \A d \in Txns \ {c} :
           mine'[d] = mine[d] /\ query'[d] = query[d] /\ Seen(d)' = Seen(d)
      /\ log' = log /\ tail' = tail /\ clock' = clock
      /\ query[c] = "insert" /\ query'[c] = "commit"
  BY <1>1 DEF InsertEntry, ChainTypeOK, Seen
<1>3. \A d \in Txns : i \notin IdsOf(Seen(d)) /\ \A f \in Seen(d) : f.id # i
  BY <1>1 DEF UnusedId, IdsOf
<1>4. IdsUnique'
  <2>1. ASSUME NEW d \in Txns, NEW e \in mine'[d]
        PROVE  /\ e.id \notin IdsOf(log)
               /\ \A g \in Txns : \A f \in mine'[g] : f.id = e.id => f = e /\ g = d
    <3>1. \A g \in Txns : \A f \in mine'[g] : f \in mine[g] \/ (g = c /\ f = new)
      BY <1>2
    <3>2. i \notin IdsOf(log) /\ \A g \in Txns : \A f \in mine[g] : f.id # i
      BY <1>3 DEF Seen, IdsOf
    <3>3. CASE e = new /\ d = c
      BY <3>1, <3>2, <3>3
    <3>4. CASE e \in mine[d]
      BY <3>1, <3>2, <3>4 DEF IdsUnique
    <3> QED BY <2>1, <3>1, <3>3, <3>4
  <2> QED BY <2>1, <1>2 DEF IdsUnique, IdsOf
<1>5. ASSUME NEW t, TailSound(t, Seen(c)) PROVE TailSound(t, Seen(c) \cup {new})
  <2>1. \A f \in Seen(c) \cup {new} : f.id \in t.knew => f \in Seen(c)
    BY <1>3, <1>5 DEF TailSound
  <2> QED BY <1>5, <2>1, TailSoundAmongMore
<1>6. TailSound(tail[c], Seen(c)) /\ tail[c] \in Tail
  BY <1>2 DEF TailsSound
<1>7. TailsSound'
  <2>1. \A e \in log' : TailSound(e.tail, log')
    BY <1>2 DEF TailsSound
  <2>2. ASSUME NEW d \in Txns
        PROVE  /\ query'[d] = "select" => mine'[d] = {}
               /\ query'[d] # "select" => tail'[d] \in Tail /\ TailSound(tail'[d], Seen(d)')
               /\ \A e \in mine'[d] : TailSound(e.tail, Seen(d)')
    <3>1. CASE d = c
      <4>1. \A e \in mine[c] : TailSound(e.tail, Seen(c) \cup {new})
        BY <1>5 DEF TailsSound
      <4>2. TailSound(new.tail, Seen(c) \cup {new})
        BY <1>5, <1>6
      <4> QED BY <3>1, <4>1, <4>2, <1>2, <1>6
    <3>2. CASE d # c
      BY <3>2, <1>2 DEF TailsSound
    <3> QED BY <3>1, <3>2
  <2> QED BY <2>1, <2>2 DEF TailsSound, TailSound, IdsOf, UpTo
<1>8. Stamped(Seen(c) \cup {new})
  <2>1. tail[c].prev # i
    <3>1. tail[c].prev # NoEntry => tail[c].prev \in IdsOf(Seen(c))
      BY <1>6 DEF TailSound, IdsOf
    <3> QED BY <3>1, <1>3
  <2>2. \A e \in Seen(c) : e.tail.prev # i
    <3>1. \A e \in Seen(c) : e.tail.prev # NoEntry => e.tail.prev \in IdsOf(Seen(c))
      BY DEF TailsSound, TailSound, IdsOf, Seen
    <3> QED BY <3>1, <1>3
  <2>3. clock \in 0 .. MaxClock /\ \A e \in Seen(c) : e.at <= clock
    BY DEF StampsOrdered, Stamped, ChainTypeOK
  <2>4. \A e \in Seen(c) : \A p \in Seen(c) : e.tail.prev = p.id => p # e /\ p.at <= e.at
    BY DEF StampsOrdered, Stamped
  <2>5. new.id = i /\ new.at = clock /\ new.tail = tail[c] /\ clock <= clock
    BY <2>3
  <2>6. \A p \in Seen(c) : p # new
    BY <1>3, <2>5
  <2> QED BY <2>1, <2>2, <2>3, <2>4, <2>5, <2>6 DEF Stamped
<1>9. StampsOrdered'
  <2>1. \A d \in Txns \ {c} : Stamped(Seen(d))
    BY DEF StampsOrdered
  <2>2. Stamped(log)
    BY DEF StampsOrdered
  <2> QED BY <1>2, <1>8, <2>1, <2>2 DEF StampsOrdered, Stamped
<1> QED BY <1>4, <1>7, <1>9

(* The rows of a transaction were not known to any other, and follow none  *)
(* of another's rows.                                                      *)
LEMMA EndTxnInv ==
  ASSUME ChainTypeOK, ChainInv, NEW c \in Txns, EndTxn(c),
         log' = log \/ (log' = log \cup mine[c] /\ query[c] = "commit")
  PROVE  ChainInv'
<1> USE DEF ChainInv
<1>1. /\ mine'[c] = {} /\ query'[c] = "select" /\ clock' = clock
      /\ \A d \in Txns \ {c} :
           mine'[d] = mine[d] /\ query'[d] = query[d] /\ tail'[d] = tail[d]
  BY DEF EndTxn, ChainTypeOK
<1>2. /\ log \subseteq log' /\ log' \subseteq Seen(c)
      /\ log' = log \/ log' = Seen(c)
  BY DEF Seen
<1>3. \A d \in Txns \ {c} : Seen(d)' = log' \cup mine[d]
  BY <1>1 DEF Seen
<1>4. \A d \in Txns \ {c} : \A e \in mine[c] : e.id \notin IdsOf(Seen(d))
  BY DEF IdsUnique, IdsOf, Seen
<1>5. \A d \in Txns \ {c} : \A e \in mine[d] : e.id \notin IdsOf(Seen(c))
  BY DEF IdsUnique, IdsOf, Seen
<1>6. IdsUnique'
  <2>1. \A e, f \in log' : e.id = f.id => e = f
    <3>1. \A e, f \in Seen(c) : e.id = f.id => e = f
      BY DEF IdsUnique, IdsOf, Seen
    <3> QED BY <3>1, <1>2
  <2>2. ASSUME NEW d \in Txns, NEW e \in mine'[d]
        PROVE  /\ e.id \notin IdsOf(log')
               /\ \A g \in Txns : \A f \in mine'[g] : f.id = e.id => f = e /\ g = d
    <3>1. d # c /\ e \in mine[d] /\ \A g \in Txns : mine'[g] \subseteq mine[g]
      BY <2>2, <1>1
    <3>2. e.id \notin IdsOf(log')
      BY <3>1, <1>2, <1>5 DEF IdsOf
    <3> QED BY <3>1, <3>2 DEF IdsUnique
  <2> QED BY <2>1, <2>2 DEF IdsUnique, IdsOf
<1>7. ASSUME NEW d \in Txns \ {c}, NEW t, TailSound(t, Seen(d))
      PROVE  TailSound(t, log' \cup mine[d])
  <2>1. Seen(d) \subseteq log' \cup mine[d]
    BY <1>2 DEF Seen
  <2>2. ASSUME NEW f \in log' \cup mine[d], f.id \in t.knew PROVE f \in Seen(d)
    <3>1. f.id \in IdsOf(Seen(d))
      BY <1>7, <2>2 DEF TailSound
    <3> QED BY <3>1, <1>2, <1>4 DEF Seen
  <2> QED BY <1>7, <2>1, <2>2, TailSoundAmongMore
<1>8. TailsSound'
  <2>1. ASSUME NEW e \in log' PROVE TailSound(e.tail, log')
    <3>1. CASE log' = log
      BY <3>1 DEF TailsSound
    <3>2. CASE log' = Seen(c) /\ e \in mine[c]
      BY <3>2 DEF TailsSound
    <3>3. CASE log' = Seen(c) /\ e \in log
      <4>1. TailSound(e.tail, log)
        BY <3>3 DEF TailsSound
      <4>2. \A f \in Seen(c) : f.id \in e.tail.knew => f \in log
        BY <4>1 DEF TailSound, Seen, IdsUnique
      <4> QED BY <3>3, <4>1, <4>2, <1>2, TailSoundAmongMore
    <3> QED BY <1>2, <3>1, <3>2, <3>3 DEF Seen
  <2>2. ASSUME NEW d \in Txns
        PROVE  /\ query'[d] = "select" => mine'[d] = {}
               /\ query'[d] # "select" => tail'[d] \in Tail /\ TailSound(tail'[d], Seen(d)')
               /\ \A e \in mine'[d] : TailSound(e.tail, Seen(d)')
    <3>1. CASE d = c
      BY <3>1, <1>1
    <3>2. CASE d # c
      BY <3>2, <1>1, <1>3, <1>7 DEF TailsSound
    <3> QED BY <3>1, <3>2
  <2> QED BY <2>1, <2>2 DEF TailsSound, TailSound, IdsOf, UpTo
<1>9. Stamped(log') /\ \A d \in Txns \ {c} : Stamped(log' \cup mine[d])
  <2>1. Stamped(log')
    BY <1>2 DEF StampsOrdered
  <2>2. ASSUME NEW d \in Txns \ {c} PROVE Stamped(log' \cup mine[d])
    <3>1. Stamped(Seen(c)) /\ Stamped(Seen(d))
      BY DEF StampsOrdered
    <3>2. \A e \in mine[d], p \in mine[c] : e.tail.prev # p.id
      <4>1. ASSUME NEW e \in mine[d], NEW p \in mine[c] PROVE e.tail.prev # p.id
        <5>1. p.id # NoEntry
          BY SeenEntries DEF Entry
        <5>2. e.tail.prev # NoEntry => e.tail.prev \in IdsOf(Seen(d))
          BY DEF TailsSound, TailSound, IdsOf
        <5> QED BY <5>1, <5>2, <1>4
      <4> QED BY <4>1
    <3>3. \A e \in Seen(c), p \in mine[d] : e.tail.prev # p.id
      <4>1. ASSUME NEW e \in Seen(c), NEW p \in mine[d] PROVE e.tail.prev # p.id
        <5>1. p.id # NoEntry
          BY SeenEntries DEF Entry
        <5>2. e.tail.prev # NoEntry => e.tail.prev \in IdsOf(Seen(c))
          BY DEF TailsSound, TailSound, IdsOf, Seen
        <5> QED BY <5>1, <5>2, <1>5
      <4> QED BY <4>1
    <3> QED BY <3>1, <3>2, <3>3, <1>2 DEF Stamped, Seen
  <2> QED BY <2>1, <2>2
<1>10. StampsOrdered'
  <2>1. Seen(c)' = log'
    BY <1>1 DEF Seen
  <2>2. \A d \in Txns : Stamped(Seen(d)')
    BY <1>3, <1>9, <2>1
  <2> QED BY <1>1, <1>9, <2>2 DEF StampsOrdered, Stamped
<1> QED BY <1>6, <1>8, <1>10

LEMMA ChainInvStep == ChainTypeOK /\ ChainInv /\ [ChainNext]_chainVars => ChainInv'
<1> SUFFICES ASSUME ChainTypeOK, ChainInv, [ChainNext]_chainVars PROVE ChainInv'
  OBVIOUS
<1>1. ASSUME NEW c \in Txns, CommitEntries(c) \/ Rollback(c) PROVE ChainInv'
  BY <1>1, EndTxnInv DEF CommitEntries, Rollback
<1>2. CASE Tick
  <2>1. \A n \in 0 .. MaxClock : n <= clock => n <= clock'
    BY <1>2 DEF Tick, ChainTypeOK
  <2>2. \A entries \in SUBSET Entry : Stamped(entries) => Stamped(entries)'
    BY <2>1 DEF Stamped, Entry
  <2>3. \A c \in Txns : Seen(c)' = Seen(c) /\ Seen(c) \in SUBSET Entry
    BY <1>2, SeenEntries DEF Tick, Seen
  <2>4. StampsOrdered'
    BY <1>2, <2>2, <2>3 DEF Tick, ChainInv, StampsOrdered, ChainTypeOK, Stamped
  <2> QED BY <1>2, <2>4
        DEF Tick, ChainInv, IdsUnique, TailsSound, TailSound, IdsOf, UpTo, Seen
<1>3. CASE UNCHANGED chainVars
  BY <1>3 DEF chainVars, ChainInv, IdsUnique, TailsSound, TailSound, StampsOrdered, Stamped,
              IdsOf, UpTo, Seen
<1> QED BY <1>1, <1>2, <1>3, SelectInv, InsertEntryInv DEF ChainNext

(* Types and the invariant together are inductive: entries follow the       *)
(* latest entry of those their transaction saw, its own among them, and are *)
(* stamped after it.                                                        *)
THEOREM ChainInvariance == ChainSpec => [](ChainTypeOK /\ ChainInv)
<1>1. ChainInit => ChainTypeOK /\ ChainInv
  BY ChainInvInit
<1>2. ChainTypeOK /\ ChainInv /\ [ChainNext]_chainVars => (ChainTypeOK /\ ChainInv)'
  BY ChainTypeStep, ChainInvStep
<1> QED BY <1>1, <1>2, PTL DEF ChainSpec

(* Every state of the log, the clock and the open transactions is typed.    *)
THEOREM ChainTypeCorrect == ChainSpec => []ChainTypeOK
BY ChainInvariance, PTL

(* Whatever rolls back, the entry whose hash a stored entry carries is      *)
(* stored, belongs to the same tenant and is not younger by the clock.      *)
THEOREM EveryPrevIsStored == ChainSpec => []PrevIsStored
<1>1. ASSUME ChainInv, NEW e \in log, e.tail.prev # NoEntry
      PROVE  \E p \in log : p.id = e.tail.prev /\ p.tail.tenant = e.tail.tenant /\ p.at <= e.at
  <2>1. TailSound(e.tail, log)
    BY <1>1 DEF ChainInv, TailsSound
  <2>2. PICK p \in log : p.id = e.tail.prev /\ p.tail.tenant = e.tail.tenant
    BY <1>1, <2>1 DEF TailSound
  <2>3. p.at <= e.at
    BY <1>1, <2>2 DEF ChainInv, StampsOrdered, Stamped
  <2> QED BY <2>2, <2>3
<1>2. ChainTypeOK /\ ChainInv => PrevIsStored
  BY <1>1 DEF PrevIsStored
<1> QED BY <1>2, ChainInvariance, PTL

(* Only overlapping transactions, or an entry that its random id orders     *)
(* before the one it follows, fork a tenant's chain, for any number of them *)
(* and any order of ids.                                                    *)
THEOREM ForksExplained == ChainSpec => []ForksNeedOverlapOrTie
<1>1. ASSUME ChainTypeOK, ChainInv, NEW e \in log, NEW f \in log, SamePrev(e, f),
             e.id \in f.tail.knew
      PROVE  Misordered(e)
  <2>1. TailSound(f.tail, log)
    BY <1>1 DEF ChainInv, TailsSound
  <2>2. f.tail.prev # NoEntry
    BY <1>1, <2>1 DEF TailSound, SamePrev
  <2>3. PICK p \in log : p.id = f.tail.prev /\ UpTo(e, p)
    BY <1>1, <2>1, <2>2 DEF TailSound, SamePrev
  <2>4. p # e /\ p.at <= e.at
    BY <1>1, <2>3 DEF ChainInv, StampsOrdered, Stamped, SamePrev
  <2>5. p.id # e.id
    BY <1>1, <2>4 DEF ChainInv, IdsUnique
  <2>6. \A q \in Entry : q.at \in Nat /\ q.id \in Nat
    <3>1. \A n \in 0 .. MaxClock : n \in Nat
      OBVIOUS
    <3>2. \A i \in EntryIds : i \in Nat
      OBVIOUS
    <3> QED BY <3>1, <3>2 DEF Entry
  <2>7. p.at = e.at /\ e.id < p.id
    BY <1>1, <2>3, <2>4, <2>5, <2>6 DEF UpTo, ChainTypeOK
  <2> QED BY <1>1, <2>3, <2>7 DEF Misordered, SamePrev
<1>2. ChainTypeOK /\ ChainInv => ForksNeedOverlapOrTie
  <2> SUFFICES ASSUME ChainTypeOK, ChainInv, NEW e \in log, NEW f \in log, SamePrev(e, f)
               PROVE  Overlapped(e, f) \/ Misordered(e) \/ Misordered(f)
    BY DEF ForksNeedOverlapOrTie
  <2>1. SamePrev(f, e)
    BY DEF SamePrev
  <2> QED BY <2>1, <1>1 DEF Overlapped
<1> QED BY <1>2, ChainInvariance, PTL
=============================================================================
