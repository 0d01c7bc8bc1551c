----------------------------- MODULE Governance -----------------------------
(***************************************************************************)
(* The governance and allocation repositories over PostgreSQL. A call is a *)
(* transaction under READ COMMITTED: it looks its idempotency key up, runs *)
(* its queries one by one while other calls run theirs, stores its answer  *)
(* under the key with a plain INSERT, and commits. Only row locks and the  *)
(* unique index on the keys keep calls apart.                              *)
(*                                                                         *)
(* The tables differ in their columns only: a row is its key, its tenant   *)
(* and a value. The parts of a row (the members of an account group, the   *)
(* roles of a user) are rows of their own, deleted and inserted again by   *)
(* the calls that give them. The two repositories have a table of keys     *)
(* each; their keys are different members of Keys. The audit row of a call *)
(* is the subject of AuditChain, cloud connections of CloudConnections.    *)
(***************************************************************************)
EXTENDS FiniteSets, Naturals

CONSTANTS
  Clients,   \* calls that can be in progress at once
  Tenants, Names, OwnerOf, Ingested, Ids, DrawnBy, Values, Named, Roles, Keys,
  Requests,  \* as in GovernanceStore; Ids bounds the rows inserted
  None       \* no row, no value, no answer, no request

Targets == Names \cup Ids
Parts == Names \cup Roles

(* A row of account_group_members or user_roles: the account or role, and *)
(* the key of the call that inserted it, which tells it from the same     *)
(* account inserted by another call.                                      *)
Part == [part : Parts, by : Keys]

VARIABLES
  rows,     \* the tables, by primary key
  parts,    \* account_group_members and user_roles, by their group or user
  answers,  \* governance_idempotency and allocation_idempotency
  former,   \* history: the values each row has had
  served,   \* history: the answers callers were given
  pc,       \* the next query of each call
  req,      \* its arguments
  seen,     \* the value it read
  own,      \* the row it has written, and so locked
  draft,    \* what it has written there
  snap,     \* the parts its DELETE saw when it began
  gone,     \* the parts it has deleted, and so locked
  added     \* the parts it has inserted

tables == <<rows, parts, answers>>
history == <<former, served>>
writes == <<own, draft, gone, added>>
locals == <<req, seen, snap>>
vars == <<tables, history, pc, locals, writes>>

(* A part without the call that inserted it. *)
Accounts(ps) == {p.part : p \in ps}

Store == INSTANCE GovernanceStore WITH
  parts <- [x \in Targets |-> Accounts(parts[x])]

(* A natural key is made from the caller's tenant or, for a slug, from none; *)
(* the other rows are named by the UUID of their table.                      *)
ASSUME RequestsAssumption ==
  /\ Requests \subseteq Store!Request
  /\ \A r \in Requests :
       /\ r.op \in Store!Upserts =>
            r.on \in Names /\ r.value \in Values /\ OwnerOf[r.on] \in {r.tenant, None}
       /\ r.op \in Store!Inserts \cup {"rotateCredential"} => r.value \in Values
       /\ r.op \in Store!Updates => r.on \in Ids
       /\ r.op \in Store!Deletes =>
            r.on \in Ids /\ DrawnBy[r.on] = "createAccountGroup"
       /\ r.op = "createDimensionMapping" =>
            r.on \in Ids /\ DrawnBy[r.on] = "createDimension"

(* A key is stored with its tenant: two tenants' keys are never the same. *)
ASSUME KeysAssumption ==
  \A r, s \in Requests : r.key = s.key => r.tenant = s.tenant

ASSUME TablesAssumption ==
  /\ OwnerOf \in [Names -> Tenants \cup {None}]
  /\ DrawnBy \in [Ids -> Store!Inserts]
  /\ Ingested \subseteq Names /\ Named \in Values
  /\ Ids \cap Names = {}

ASSUME NoneAssumption ==
  None \notin Store!Row \cup Store!Answer \cup Store!Request \cup Targets
                \cup Values \cup Tenants

Steps == {"idle", "lookup", "read", "write", "delete", "deleting", "insert",
          "drop", "store", "commit"}

TypeOK ==
  /\ rows \in [Targets -> Store!Row \cup {None}]
  /\ parts \in [Targets -> SUBSET Part]
  /\ answers \in [Keys -> Store!Answer \cup {None}]
  /\ former \in [Targets -> SUBSET Values]
  /\ served \subseteq Store!Answer
  /\ pc \in [Clients -> Steps]
  /\ req \in [Clients -> Requests \cup {None}]
  /\ seen \in [Clients -> Values \cup {None}]
  /\ own \in [Clients -> Targets \cup {None}]
  /\ draft \in [Clients -> Store!Row \cup {None}]
  /\ snap \in [Clients -> SUBSET Part]
  /\ gone \in [Clients -> SUBSET Part]
  /\ added \in [Clients -> SUBSET Part]

Init ==
  /\ rows = [x \in Targets |->
       IF x \in Ingested THEN [owner |-> OwnerOf[x], value |-> Named] ELSE None]
  /\ parts = [x \in Targets |-> {}]
  /\ answers = [k \in Keys |-> None]
  /\ former = [x \in Targets |-> IF rows[x] = None THEN {} ELSE {rows[x].value}]
  /\ served = {}
  /\ pc = [c \in Clients |-> "idle"]
  /\ req = [c \in Clients |-> None]
  /\ seen = [c \in Clients |-> None]
  /\ own = [c \in Clients |-> None]
  /\ draft = [c \in Clients |-> None]
  /\ snap = [c \in Clients |-> {}]
  /\ gone = [c \in Clients |-> {}]
  /\ added = [c \in Clients |-> {}]
-----------------------------------------------------------------------------
Goto(c, step) == pc' = [pc EXCEPT ![c] = step]

Op(c) == req[c].op

(* WHERE id = $1 AND tenant_id = $2 *)
Found(c) ==
  rows[req[c].on] # None /\ rows[req[c].on].owner = req[c].tenant

(* Mutant of EndCall: the connection is released in its transaction. *)
EndCallKeepsLocks(c) ==
  /\ Goto(c, "idle")
  /\ req' = [req EXCEPT ![c] = None]
  /\ seen' = [seen EXCEPT ![c] = None]
  /\ snap' = [snap EXCEPT ![c] = {}]
  /\ UNCHANGED writes

(* The transaction is over, committed or rolled back: its locks are free. *)
EndCall(c) ==
  /\ Goto(c, "idle")
  /\ req' = [req EXCEPT ![c] = None]
  /\ seen' = [seen EXCEPT ![c] = None]
  /\ own' = [own EXCEPT ![c] = None]
  /\ draft' = [draft EXCEPT ![c] = None]
  /\ snap' = [snap EXCEPT ![c] = {}]
  /\ gone' = [gone EXCEPT ![c] = {}]
  /\ added' = [added EXCEPT ![c] = {}]

(* A query or the code threw: ROLLBACK, and the caller gets the error. *)
Throw(c) == EndCall(c) /\ UNCHANGED <<tables, history>>

(* The bound on inserted rows, counting those of the calls in progress. *)
IdsLeft(op) ==
  Cardinality({d \in Clients : req[d] # None /\ Op(d) = op})
    < Cardinality({id \in Ids : DrawnBy[id] = op /\ former[id] = {}})

Call(c) ==
  /\ pc[c] = "idle"
  /\ \E r \in Requests :
       /\ r.op \in Store!Inserts => IdsLeft(r.op)
       /\ req' = [req EXCEPT ![c] = r]
  /\ Goto(c, "lookup")
  /\ UNCHANGED <<tables, history, seen, snap, writes>>

(* withIdempotency: the key has an answer, the caller is given it. *)
Replay(c) ==
  /\ pc[c] = "lookup"
  /\ answers[req[c].key] # None
  /\ served' = served \cup {answers[req[c].key]}
  /\ EndCall(c)
  /\ UNCHANGED <<tables, former>>

FirstQuery(op) ==
  CASE op \in {"updateAccountGroup", "createDimensionMapping"} -> "read"
    [] op = "deleteAccountGroup" -> "delete"
    [] OTHER -> "write"

KeyNotFound(c) ==
  /\ pc[c] = "lookup"
  /\ answers[req[c].key] = None
  /\ Goto(c, FirstQuery(Op(c)))
  /\ UNCHANGED <<tables, history, locals, writes>>

(* getAccountGroup, or the SELECT of the dimension of a mapping. *)
ReadRow(c) ==
  /\ pc[c] = "read"
  /\ Found(c)
  /\ seen' = [seen EXCEPT ![c] = rows[req[c].on].value]
  /\ Goto(c, "write")
  /\ UNCHANGED <<tables, history, req, snap, writes>>

RowNotFound(c) ==
  /\ pc[c] = "read"
  /\ ~Found(c)
  /\ Throw(c)
-----------------------------------------------------------------------------
(* The write of the row. An INSERT or UPDATE locks its row until the       *)
(* transaction ends and waits for one that has locked it.                  *)

RowBlockers(c) == {d \in Clients \ {c} : own[d] = req[c].on}

(* The parts are written next, if the call gives any. *)
AfterRow(c) == Goto(c, IF req[c].parts = {} THEN "store" ELSE "delete")

Write(c, id, row) ==
  /\ own' = [own EXCEPT ![c] = id]
  /\ draft' = [draft EXCEPT ![c] = row]
  /\ AfterRow(c)
  /\ UNCHANGED <<tables, history, locals, gone, added>>

(* INSERT ... ON CONFLICT DO UPDATE, under a natural key. *)
Upsert(c) ==
  /\ pc[c] = "write" /\ Op(c) \in Store!Upserts
  /\ RowBlockers(c) = {}
  /\ Write(c, req[c].on, [owner |-> OwnerOf[req[c].on], value |-> req[c].value])

(* INSERT, under a new random UUID. *)
Insert(c) ==
  /\ pc[c] = "write" /\ Op(c) \in Store!Inserts
  /\ \E id \in Ids :
       /\ DrawnBy[id] = Op(c) /\ former[id] = {}
       /\ \A d \in Clients : own[d] # id
       /\ Write(c, id, [owner |-> req[c].tenant, value |-> req[c].value])

(* Mutant of UpdateGroup: the row is updated only to change its name. *)
UpdateGroupNamed(c) ==
  /\ pc[c] = "write" /\ Op(c) = "updateAccountGroup"
  /\ req[c].value # None => RowBlockers(c) = {}
  /\ rows[req[c].on] # None
  /\ Write(c, req[c].on, [owner |-> req[c].tenant, value |->
             IF req[c].value = None THEN seen[c] ELSE req[c].value])

(* UPDATE account_groups: input.name ?? existing.name, as it was read. *)
UpdateGroup(c) ==
  /\ pc[c] = "write" /\ Op(c) = "updateAccountGroup"
  /\ RowBlockers(c) = {} /\ rows[req[c].on] # None
  /\ Write(c, req[c].on, [owner |-> req[c].tenant, value |->
             IF req[c].value = None THEN seen[c] ELSE req[c].value])

(* UPDATE cloud_credentials, which names the tenant. *)
RotateCredential(c) ==
  /\ pc[c] = "write" /\ Op(c) = "rotateCredential"
  /\ RowBlockers(c) = {} /\ Found(c)
  /\ Write(c, req[c].on, [owner |-> req[c].tenant, value |-> req[c].value])

(* The row is not there, or no more. An update of a group goes on and fails *)
(* at the foreign key of the members or when it reads the group again.      *)
NoRowToUpdate(c) ==
  /\ pc[c] = "write" /\ Op(c) \in Store!Updates
  /\ RowBlockers(c) = {}
  /\ IF Op(c) = "rotateCredential" THEN ~Found(c) ELSE rows[req[c].on] = None
  /\ Throw(c)
-----------------------------------------------------------------------------
(* The parts: DELETE those of the row, then INSERT the ones given.         *)

Target(c) == IF Op(c) = "deleteAccountGroup" THEN req[c].on ELSE own[c]

(* The DELETE begins: it will delete the parts that are committed by now. *)
DeleteParts(c) ==
  /\ pc[c] = "delete"
  /\ snap' = [snap EXCEPT ![c] = parts[Target(c)]]
  /\ Goto(c, "deleting")
  /\ UNCHANGED <<tables, history, req, seen, writes>>

PartBlockers(c) == {d \in Clients \ {c} : gone[d] \cap snap[c] # {}}

(* It has waited for those who delete them too, and passes over what they *)
(* have deleted.                                                          *)
PartsDeleted(c) ==
  /\ pc[c] = "deleting"
  /\ PartBlockers(c) = {}
  /\ gone' = [gone EXCEPT ![c] = snap[c] \cap parts[Target(c)]]
  /\ Goto(c, IF Op(c) = "deleteAccountGroup" THEN "drop" ELSE "insert")
  /\ UNCHANGED <<tables, history, locals, own, draft, added>>

(* Foreign keys: the role is one of the fixed ones, the account is stored. *)
PartsExist(c) ==
  \A p \in UNION req[c].parts : p \in Names => rows[p] # None

(* INSERT ... ON CONFLICT DO NOTHING, one for each part. *)
InsertParts(c) ==
  LET left == parts[Target(c)] \ gone[c]
  IN  /\ pc[c] = "insert"
      /\ PartsExist(c)
      /\ added' = [added EXCEPT ![c] =
           {[part |-> p, by |-> req[c].key] : p \in (UNION req[c].parts) \ Accounts(left)}]
      /\ Goto(c, "store")
      /\ UNCHANGED <<tables, history, locals, own, draft, gone>>

PartUnknown(c) ==
  /\ pc[c] = "insert"
  /\ ~PartsExist(c)
  /\ Throw(c)

(* Members that this DELETE did not see still refer to the group. *)
StillReferenced(c) == parts[req[c].on] \ gone[c] # {}

(* Mutant of DropGroup: rowCount is not looked at, nor the tenant. *)
DropGroupAny(c) ==
  /\ pc[c] = "drop"
  /\ RowBlockers(c) = {} /\ rows[req[c].on] # None /\ ~StillReferenced(c)
  /\ own' = [own EXCEPT ![c] = req[c].on]
  /\ draft' = [draft EXCEPT ![c] = None]
  /\ Goto(c, "store")
  /\ UNCHANGED <<tables, history, locals, gone, added>>

(* DELETE FROM account_groups. *)
DropGroup(c) ==
  /\ pc[c] = "drop"
  /\ RowBlockers(c) = {} /\ Found(c) /\ ~StillReferenced(c)
  /\ own' = [own EXCEPT ![c] = req[c].on]
  /\ draft' = [draft EXCEPT ![c] = None]
  /\ Goto(c, "store")
  /\ UNCHANGED <<tables, history, locals, gone, added>>

(* No row was deleted, or the foreign key forbids it: the ROLLBACK brings *)
(* the members back, another tenant's included.                           *)
CannotDrop(c) ==
  /\ pc[c] = "drop"
  /\ RowBlockers(c) = {} /\ (~Found(c) \/ StillReferenced(c))
  /\ Throw(c)
-----------------------------------------------------------------------------
KeyBlockers(c) ==
  {d \in Clients \ {c} : pc[d] = "commit" /\ req[d].key = req[c].key}

(* Mutant of StoreAnswer: ON CONFLICT DO NOTHING, as the billing agent has it. *)
StoreAnswerOrNothing(c) ==
  /\ pc[c] = "store"
  /\ KeyBlockers(c) = {}
  /\ Goto(c, "commit")
  /\ UNCHANGED <<tables, history, locals, writes>>

(* The INSERT of the answer waits for an open one of the same key. *)
StoreAnswer(c) ==
  /\ pc[c] = "store"
  /\ KeyBlockers(c) = {} /\ answers[req[c].key] = None
  /\ Goto(c, "commit")
  /\ UNCHANGED <<tables, history, locals, writes>>

(* A call with the same key has committed since the lookup. *)
KeyTaken(c) ==
  /\ pc[c] = "store"
  /\ KeyBlockers(c) = {} /\ answers[req[c].key] # None
  /\ Throw(c)

(* COMMIT publishes what the transaction wrote. *)
Publish(c) ==
  LET id == own[c]
  IN  /\ rows' = [rows EXCEPT ![id] = draft[c]]
      /\ parts' = [parts EXCEPT ![id] = (@ \ gone[c]) \cup added[c]]
      /\ answers' = [answers EXCEPT ![req[c].key] =
           [id |-> id, row |-> draft[c], parts |-> Accounts(parts'[id]),
            call |-> req[c]]]
      /\ former' = [former EXCEPT ![id] =
           @ \cup (IF draft[c] = None THEN {} ELSE {draft[c].value})]

Commit(c) ==
  /\ pc[c] = "commit"
  /\ Publish(c)
  /\ served' = served \cup {answers'[req[c].key]}
  /\ EndCall(c)

(* The server commits and the connection breaks before it says so. *)
CommitUnconfirmed(c) ==
  /\ pc[c] = "commit"
  /\ Publish(c)
  /\ EndCall(c)
  /\ UNCHANGED served

(* A query fails, or the process dies: PostgreSQL drops the transaction. *)
Fails(c) ==
  /\ pc[c] # "idle"
  /\ Throw(c)
-----------------------------------------------------------------------------
WaitsFor(c) ==
  CASE pc[c] = "write" /\ Op(c) \notin Store!Inserts -> RowBlockers(c)
    [] pc[c] = "drop" -> RowBlockers(c)
    [] pc[c] = "deleting" -> PartBlockers(c)
    [] pc[c] = "store" -> KeyBlockers(c)
    [] OTHER -> {}

(* PostgreSQL ends a deadlock by failing a transaction that waits in it. *)
DeadlockVictim(c) ==
  /\ \E S \in SUBSET Clients : c \in S /\ \A d \in S : WaitsFor(d) \cap S # {}
  /\ Throw(c)

Step(c) ==
  \/ Replay(c) \/ KeyNotFound(c) \/ ReadRow(c) \/ RowNotFound(c)
  \/ Upsert(c) \/ Insert(c) \/ UpdateGroup(c) \/ RotateCredential(c)
  \/ NoRowToUpdate(c) \/ DeleteParts(c) \/ PartsDeleted(c) \/ InsertParts(c)
  \/ PartUnknown(c) \/ DropGroup(c) \/ CannotDrop(c)
  \/ StoreAnswer(c) \/ KeyTaken(c) \/ Commit(c)

Next ==
  \E c \in Clients :
    Call(c) \/ Step(c) \/ DeadlockVictim(c) \/ CommitUnconfirmed(c) \/ Fails(c)

Spec == Init /\ [][Next]_vars

(***************************************************************************)
(* PostgreSQL answers every query, its lock queues are first come, first   *)
(* served (SF), and its deadlock detector runs on a timer.                 *)
(***************************************************************************)
Fairness == \A c \in Clients : SF_vars(Step(c)) /\ WF_vars(DeadlockVictim(c))

FairSpec == Spec /\ Fairness
-----------------------------------------------------------------------------
(* Seen from its tables, a call is one atomic step of the in-memory         *)
(* repository, in spite of the queries of other calls between its own; only *)
(* a group's name may be put back to one it had, by a PATCH of its members. *)
ImplementsGovernanceStore == Store!Spec

(* The parts of a row are those that one committed call gave: two calls that *)
(* replace the members of a group at once, each by DELETE and INSERT, never  *)
(* leave a mixture. Only the UPDATE of the group's row, which a PATCH of     *)
(* members alone executes for its lock and nothing else, keeps them apart.   *)
PartsAreOneCalls ==
  \A x \in Targets : parts[x] # {} =>
    \E k \in Keys :
      /\ answers[k] # None /\ answers[k].id = x
      /\ parts[x] = {[part |-> p, by |-> k] : p \in UNION answers[k].call.parts}

(* A call changes rows of its own tenant only, though the DELETE of the     *)
(* members of a group names no tenant: what it deletes elsewhere is rolled  *)
(* back when the DELETE of the group finds nothing.                         *)
OthersRowsUntouched ==
  [][\A x \in Targets : (rows'[x] # rows[x] \/ parts'[x] # parts[x]) =>
       \E k \in Keys :
         /\ answers[k] = None /\ answers'[k] # None /\ answers'[k].id = x
         /\ rows[x] # None => rows[x].owner \in {answers'[k].call.tenant, None}]_vars

(* Every call ends, although calls may wait for each other in a cycle: an   *)
(* update locks the group and then its members, a deletion the reverse.     *)
CallsEnd == \A c \in Clients : pc[c] # "idle" ~> pc[c] = "idle"
-----------------------------------------------------------------------------
(***************************************************************************)
(* The invariant that these rest on.                                       *)
(***************************************************************************)

(* What a call has written, and locked, is what it may write at its COMMIT. *)
Written(c) ==
  \/ Store!Upsert(req[c], own[c], draft[c])
  \/ Store!Insert(req[c], own[c], draft[c])
  \/ Store!Update(req[c], own[c], draft[c])
  \/ Store!Delete(req[c], own[c], draft[c])

(* The queries of a call come in the order of its operation. *)
CallInOrder(c) ==
  /\ pc[c] # "idle" => req[c] \in Requests
  /\ pc[c] = "read" => Op(c) \in {"updateAccountGroup", "createDimensionMapping"}
  /\ pc[c] = "write" => Op(c) \notin Store!Deletes
  /\ pc[c] = "drop" => Op(c) \in Store!Deletes
  /\ pc[c] \in {"idle", "lookup", "read", "write", "drop"} => own[c] = None
  /\ pc[c] \in {"insert", "store", "commit"} => own[c] # None
  /\ pc[c] = "insert" => Op(c) \notin Store!Deletes
  /\ pc[c] \in {"delete", "deleting"} => (own[c] = None <=> Op(c) \in Store!Deletes)
  /\ own[c] # None => own[c] \in Targets /\ pc[c] # "idle"

(* What a call read and still relies on: other calls have not undone it. *)
CallRead(c) ==
  /\ pc[c] = "write" /\ Op(c) = "updateAccountGroup" =>
       /\ seen[c] \in former[req[c].on]
       /\ rows[req[c].on] # None => rows[req[c].on].owner = req[c].tenant
  /\ pc[c] \notin {"idle", "lookup", "read"} /\ Op(c) = "createDimensionMapping" =>
       Store!Found(req[c])

(* The parts a call deletes and inserts are those of the row it has locked. *)
CallParts(c) ==
  /\ pc[c] \notin {"insert", "drop", "store", "commit"} => gone[c] = {}
  /\ pc[c] \notin {"store", "commit"} => added[c] = {}
  /\ pc[c] \in {"delete", "deleting", "insert"} /\ own[c] # None => req[c].parts # {}
  /\ pc[c] = "deleting" /\ own[c] # None => snap[c] = parts[own[c]]
  /\ pc[c] = "insert" => gone[c] = parts[own[c]]
  /\ pc[c] \in {"store", "commit"} =>
       IF Op(c) \in Store!Deletes THEN parts[own[c]] \subseteq gone[c] /\ added[c] = {}
       ELSE IF req[c].parts = {} THEN gone[c] = {} /\ added[c] = {}
       ELSE /\ gone[c] = parts[own[c]]
            /\ added[c] = {[part |-> p, by |-> req[c].key] : p \in UNION req[c].parts}

CallOK(c) ==
  /\ CallInOrder(c)
  /\ CallRead(c)
  /\ CallParts(c)
  /\ own[c] # None => Written(c)

(* No two open transactions have written one row, or stored one key. *)
LocksExclusive ==
  \A c, d \in Clients : c # d =>
    /\ own[c] # None => own[c] # own[d]
    /\ pc[c] = "commit" /\ pc[d] = "commit" => req[c].key # req[d].key

KeysUnused == \A c \in Clients : pc[c] = "commit" => answers[req[c].key] = None

RowsOwned ==
  \A x \in Targets : rows[x] # None =>
    /\ rows[x].value \in former[x]
    /\ x \in Names => rows[x].owner = OwnerOf[x]

Inv ==
  /\ \A c \in Clients : CallOK(c)
  /\ LocksExclusive
  /\ KeysUnused
  /\ RowsOwned
  /\ PartsAreOneCalls
=============================================================================
