--------------------------- MODULE GovernanceStore ---------------------------
(***************************************************************************)
(* What the governance and allocation services promise: their in-memory    *)
(* repositories, where every call is one step. A row has a value and, if   *)
(* it is an account group or a user, parts: member accounts, or roles. The *)
(* promise is weakened in one point: an update that names no value leaves  *)
(* the row a value that it has had, not always the latest.                 *)
(***************************************************************************)
CONSTANTS
  Tenants,   \* tenants whose administrators call
  Names,     \* natural keys: a slug, an account, an email, a tagged resource
  OwnerOf,   \* the tenant from which a natural key is made; None for a slug
  Ids,       \* random ids: a bound on the rows that are inserted
  DrawnBy,   \* the operation whose table an id belongs to
  Ingested,  \* accounts that an ingestion has stored before
  Values,    \* contents of a row
  Named,     \* the one that an ingested account has
  Roles,     \* the fixed roles; the accounts are among Names
  Keys,      \* idempotency keys
  Requests,  \* the calls that are made
  None       \* no row, no value, no answer

Targets == Names \cup Ids
Parts == Names \cup Roles

Upserts == {"createTenant", "createAccount", "createUser", "upsertResourceTag"}
Inserts == {"createAccountGroup", "createCredential", "createView",
            "createDimension", "createDimensionMapping"}
Updates == {"updateAccountGroup", "rotateCredential"}
Deletes == {"deleteAccountGroup"}

(* The parts that a call gives: none at all, or a set. *)
Given == {{}} \cup {{ps} : ps \in SUBSET Parts}

(* A call: its operation and tenant, the row it names, what it gives. *)
Request == [op : Upserts \cup Inserts \cup Updates \cup Deletes,
            tenant : Tenants, on : Targets \cup {None},
            value : Values \cup {None}, parts : Given,
            key : Keys]

Row == [owner : Tenants \cup {None}, value : Values]

(* A response_json: what was written, with the call that wrote it. *)
Answer == [id : Targets, row : Row \cup {None}, parts : SUBSET Parts,
           call : Requests]

VARIABLES
  rows,     \* the tables, by key: None where there is no row
  parts,    \* the members of each group, the roles of each user
  answers,  \* the idempotency tables, None where a key is unused
  former,   \* history: the values each row has had
  served    \* history: the answers callers were given

vars == <<rows, parts, answers, former, served>>

Init ==
  /\ rows = [x \in Targets |->
       IF x \in Ingested THEN [owner |-> OwnerOf[x], value |-> Named] ELSE None]
  /\ parts = [x \in Targets |-> {}]
  /\ answers = [k \in Keys |-> None]
  /\ former = [x \in Targets |-> IF rows[x] = None THEN {} ELSE {rows[x].value}]
  /\ served = {}
-----------------------------------------------------------------------------
(* The row a call writes: another tenant's is not found. *)
Found(r) == rows[r.on] # None /\ rows[r.on].owner = r.tenant

(* Map.set under a natural key. *)
Upsert(r, id, row) ==
  /\ r.op \in Upserts
  /\ id = r.on
  /\ row = [owner |-> OwnerOf[id], value |-> r.value]

(* Map.set under a random UUID; a mapping needs its dimension. *)
Insert(r, id, row) ==
  /\ r.op \in Inserts
  /\ id \in Ids /\ DrawnBy[id] = r.op /\ former[id] = {}
  /\ r.op = "createDimensionMapping" => Found(r)
  /\ row = [owner |-> r.tenant, value |-> r.value]

(* input.name ?? existing.name *)
Update(r, id, row) ==
  /\ r.op \in Updates
  /\ id = r.on /\ Found(r)
  /\ \E v \in IF r.value # None THEN {r.value} ELSE former[id] :
       row = [owner |-> r.tenant, value |-> v]

Delete(r, id, row) ==
  /\ r.op \in Deletes
  /\ id = r.on /\ Found(r)
  /\ row = None

(* A call whose key is unused takes effect and stores its answer. *)
Apply(r, id, row) ==
  /\ answers[r.key] = None
  /\ Upsert(r, id, row) \/ Insert(r, id, row) \/ Update(r, id, row)
       \/ Delete(r, id, row)
  /\ rows' = [rows EXCEPT ![id] = row]
  /\ parts' = [parts EXCEPT ![id] =
                 IF row = None THEN {} ELSE IF r.parts = {} THEN @ ELSE UNION r.parts]
  /\ answers' = [answers EXCEPT ![r.key] = 
                   [id |-> id, row |-> row, parts |-> parts'[id], call |-> r]]
  /\ former' = [former EXCEPT ![id] =
                  @ \cup (IF row = None THEN {} ELSE {row.value})]
  /\ \/ served' = served \cup {answers'[r.key]}
     \/ UNCHANGED served  \* the answer is lost with the connection

(* withIdempotency replays the answer of the key, whatever the call. *)
Serve(k) ==
  /\ answers[k] # None
  /\ served' = served \cup {answers[k]}
  /\ UNCHANGED <<rows, parts, answers, former>>

Next ==
  \/ \E r \in Requests, id \in Targets, row \in Row \cup {None} : Apply(r, id, row)
  \/ \E k \in Keys : Serve(k)

Spec == Init /\ [][Next]_vars
=============================================================================
