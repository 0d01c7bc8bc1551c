----------------------------- MODULE Statements -----------------------------
(***************************************************************************)
(* Billing statements of one tenant: BillingAgentService over the          *)
(* PostgreSQL repository. A handler reads the statement, decides, and      *)
(* (to send) mails it, all outside a transaction; then one transaction     *)
(* looks its idempotency key up and writes. Other calls run in between.    *)
(*                                                                         *)
(* The writes of a transaction take row locks that it keeps until COMMIT,  *)
(* and depend on nothing it read after the key, so they are one step, at   *)
(* COMMIT. The audit rows they append are the subject of AuditChain.       *)
(***************************************************************************)
EXTENDS Naturals, FiniteSets

CONSTANTS
  Users,         \* API calls that can be in progress at once
  Agents,        \* billing agent cycles that can be in progress at once
  Stakeholders,  \* rows of table stakeholders
  Periods,       \* billing periods, [start, end]
  Scopes,        \* billing scopes that can be created
  Keys,          \* idempotency keys that calls share: a retry, a reuse
  Fresh,         \* a key of one call only; an agent's is, by its start time
  SendLimit,     \* statement sends allowed in one agent cycle
  Requests,      \* calls that users make, of all those there could be
  MaxGenerations, \* bound: generations that are started
  None           \* no row, no answer, no request

ASSUME ActorsAssumption == Users \cap Agents = {} /\ None \notin Users

ASSUME KeysAssumption == Fresh \notin Keys

ASSUME BoundsAssumption == SendLimit \in Nat /\ MaxGenerations \in Nat

Actors == Users \cup Agents

Statement == [stakeholder : Stakeholders, period : Periods]

(* The schema also allows draft and void; no statement of the code sets them. *)
Status == {"pending_approval", "approved", "sent", "disputed"}

(* What a statement says is named by the generation that wrote it. *)
Content == Nat

(* A delivery or an approval: which content, and in whose name. *)
Act == [statement : Statement, content : Content, by : Users]

Row == [status : Status, content : Content, approvedBy : Users \cup {None},
        evidence : Act \cup {None}]

(* What a generation read: the line items it will write. *)
Draft == [content : Content, scopes : SUBSET Scopes]

(* A mutating call: its operation, what it is on, its idempotency key. *)
Request ==
  [op : {"approve", "send", "dispute"}, on : Statement, key : Keys \cup {Fresh}]
    \cup [op : {"generate"}, on : Periods, key : Keys \cup {Fresh}]
    \cup [op : {"createScope"}, on : Scopes, key : Keys \cup {Fresh}]

ASSUME RequestsAssumption == Requests \subseteq Request

Answer == [op : {"approve", "send", "dispute"}, on : Statement]
            \cup [op : {"generate"}, on : Periods]
            \cup [op : {"createScope"}, on : Scopes]

ASSUME NoneAssumption ==
  None \notin Request \cup Answer \cup Row \cup Draft \cup Periods \cup Act

VARIABLES
  scopes,     \* table billing_scopes
  rows,       \* table statements, None where there is no row
  lines,      \* table statement_line_items: the period of each scope's line
  answers,    \* table billing_agent_idempotency
  generated,  \* generatedAt of the latest generation
  pc,         \* the next step of each actor
  req,        \* the call each actor is executing
  seen,       \* what its handler read
  todo,       \* statements an agent cycle has still to send
  mailed,     \* messages an agent cycle has handed to SMTP
  delivered,  \* history: contents that were mailed
  approvals   \* history: contents that rows held when they became approved

tables == <<scopes, rows, lines, answers>>
cycles == <<todo, mailed>>
history == <<delivered, approvals>>
vars == <<tables, generated, pc, req, seen, cycles, history>>

TypeOK ==
  /\ scopes \subseteq Scopes
  /\ rows \in [Statement -> Row \cup {None}]
  /\ lines \in [Scopes -> Periods \cup {None}]
  /\ answers \in [Keys -> Answer \cup {None}]
  /\ generated \in Nat
  /\ pc \in [Actors -> {"idle", "cycle", "read", "deliver", "begin", "write",
                        "refused", "collided"}]
  /\ req \in [Actors -> Request \cup {None}]
  /\ seen \in [Actors -> Row \cup Draft \cup {None}]
  /\ todo \in [Agents -> SUBSET Statement]
  /\ mailed \in [Agents -> Nat]
  /\ delivered \subseteq Act
  /\ approvals \subseteq Act

Init ==
  /\ scopes = {}
  /\ rows = [s \in Statement |-> None]
  /\ lines = [x \in Scopes |-> None]
  /\ answers = [k \in Keys |-> None]
  /\ generated = 0
  /\ pc = [c \in Actors |-> "idle"]
  /\ req = [c \in Actors |-> None]
  /\ seen = [c \in Actors |-> None]
  /\ todo = [a \in Agents |-> {}]
  /\ mailed = [a \in Agents |-> 0]
  /\ delivered = {}
  /\ approvals = {}
-----------------------------------------------------------------------------
Goto(c, step) == pc' = [pc EXCEPT ![c] = step]

(* A call is over. An agent's call returns to its cycle, answered or not: *)
(* the cycle catches what the call throws.                                *)
EndCall(c) ==
  /\ Goto(c, IF c \in Agents THEN "cycle" ELSE "idle")
  /\ req' = [req EXCEPT ![c] = None]
  /\ seen' = [seen EXCEPT ![c] = None]

(* createBillingScope reads nothing before its transaction. *)
StartCall(c, r) ==
  /\ req' = [req EXCEPT ![c] = r]
  /\ Goto(c, IF r.op = "createScope" THEN "begin" ELSE "read")

(* The bound on generations, counting those that have still to be stamped. *)
CanGenerate ==
  generated + Cardinality({c \in Actors : pc[c] = "read" /\ req[c].op = "generate"})
    < MaxGenerations

Call(u) ==
  /\ pc[u] = "idle"
  /\ \E r \in Requests :
       (r.op = "generate" => CanGenerate) /\ StartCall(u, r)
  /\ UNCHANGED <<tables, generated, seen, cycles, history>>

(* Mutant of Allowed: an approver is enough, whatever the status. *)
AllowedByApprover(op, row) ==
  \/ op = "approve" /\ row.status \in {"pending_approval", "disputed"}
  \/ op = "send" /\ row.approvedBy # None
  \/ op = "dispute"

(* The checks of approveStatement, sendStatement and disputeStatement. *)
Allowed(op, row) ==
  \/ op = "approve" /\ row.status \in {"pending_approval", "disputed"}
  \/ op = "send" /\ row.status = "approved" /\ row.approvedBy # None
  \/ op = "dispute"

(* getStatement finds the row and the handler's check passes. *)
ReadStatement(c) ==
  /\ pc[c] = "read"
  /\ req[c].op # "generate"
  /\ LET row == rows[req[c].on]
     IN  /\ row # None
         /\ Allowed(req[c].op, row)
         /\ seen' = [seen EXCEPT ![c] = row]
  /\ Goto(c, IF req[c].op = "send" THEN "deliver" ELSE "begin")
  /\ UNCHANGED <<tables, generated, req, cycles, history>>

(* 404, or 400 for a status from which the operation is not allowed. *)
Refuse(c) ==
  /\ pc[c] = "read"
  /\ req[c].op # "generate"
  /\ LET row == rows[req[c].on] IN row # None => ~Allowed(req[c].op, row)
  /\ Goto(c, "refused")
  /\ UNCHANGED <<tables, generated, req, seen, cycles, history>>

(* generateStatements reads its inputs and stamps what it will write. *)
ReadInputs(c) ==
  /\ pc[c] = "read"
  /\ req[c].op = "generate"
  /\ generated' = generated + 1
  /\ seen' = [seen EXCEPT ![c] = [content |-> generated + 1, scopes |-> scopes]]
  /\ Goto(c, "begin")
  /\ UNCHANGED <<tables, req, cycles, history>>

(* deliverStatement mails what the handler read. Without an SMTP host it   *)
(* only makes the evidence: that counts as a delivery too.                 *)
Mail(c) ==
  /\ delivered' = delivered \cup
       {[statement |-> req[c].on, content |-> seen[c].content,
         by |-> seen[c].approvedBy]}
  /\ mailed' = IF c \in Agents THEN [mailed EXCEPT ![c] = @ + 1] ELSE mailed

Deliver(c) ==
  /\ pc[c] = "deliver"
  /\ Mail(c)
  /\ Goto(c, "begin")
  /\ UNCHANGED <<tables, generated, req, seen, todo, approvals>>

(* The mail server takes the message and the connection breaks. *)
DeliverUnconfirmed(c) ==
  /\ pc[c] = "deliver"
  /\ Mail(c)
  /\ EndCall(c)
  /\ UNCHANGED <<tables, generated, todo, approvals>>
-----------------------------------------------------------------------------
(* withTransaction and withIdempotency. *)

KeyIsNew(k) == k \notin {j \in Keys : answers[j] # None}

(* BEGIN and the SELECT of the key: its answer, whatever it was given to. *)
Replay(c) ==
  /\ pc[c] = "begin"
  /\ ~KeyIsNew(req[c].key)
  /\ EndCall(c)
  /\ UNCHANGED <<tables, generated, cycles, history>>

KeyNotFound(c) ==
  /\ pc[c] = "begin"
  /\ KeyIsNew(req[c].key)
  /\ Goto(c, "write")
  /\ UNCHANGED <<tables, generated, req, seen, cycles, history>>

(* INSERT INTO billing_agent_idempotency ... ON CONFLICT DO NOTHING. *)
StoreAnswer(c) ==
  answers' = [k \in Keys |->
    IF k = req[c].key /\ answers[k] = None
    THEN [op |-> req[c].op, on |-> req[c].on] ELSE answers[k]]

(* Mutant of Regenerated: the upsert also clears approved_by. *)
RegeneratedUnapproved(s, content) ==
  [status |-> "pending_approval", content |-> content,
   approvedBy |-> None, evidence |-> None]

(* The upsert of a statement: approved_by is not among the columns it sets. *)
Regenerated(s, content) ==
  [status |-> "pending_approval", content |-> content,
   approvedBy |-> IF rows[s] = None THEN None ELSE rows[s].approvedBy,
   evidence |-> None]

(* The id of a line item is made from its scope, not from its statement, and *)
(* a statement's own lines were deleted just before: the primary key fails   *)
(* if the scope has a line in another period.                                *)
LineTaken(c) ==
  \E x \in seen[c].scopes : lines[x] \notin {None, req[c].on}

WriteStatements(c) ==
  /\ pc[c] = "write"
  /\ req[c].op = "generate"
  /\ ~LineTaken(c)
  /\ rows' = [s \in Statement |->
       IF s.period = req[c].on THEN Regenerated(s, seen[c].content) ELSE rows[s]]
  /\ lines' = [x \in Scopes |->
       IF x \in seen[c].scopes THEN req[c].on
       ELSE IF lines[x] = req[c].on THEN None ELSE lines[x]]
  /\ StoreAnswer(c)
  /\ EndCall(c)
  /\ UNCHANGED <<scopes, generated, cycles, history>>

LineCollides(c) ==
  /\ pc[c] = "write"
  /\ req[c].op = "generate"
  /\ LineTaken(c)
  /\ Goto(c, "collided")
  /\ UNCHANGED <<tables, generated, req, seen, cycles, history>>

(* Mutant of Transitioned: the evidence is taken from the row written, not *)
(* from what was mailed.                                                   *)
TransitionedOwnEvidence(c) ==
  LET row == rows[req[c].on]
  IN  CASE req[c].op = "approve" ->
             [row EXCEPT !.status = "approved", !.approvedBy = c]
        [] req[c].op = "send" ->
             [row EXCEPT !.status = "sent", !.evidence =
               [statement |-> req[c].on, content |-> row.content,
                by |-> row.approvedBy]]
        [] req[c].op = "dispute" -> [row EXCEPT !.status = "disputed"]

(* The UPDATE of transitionStatement: no condition on the row's status, and *)
(* COALESCE keeps what the operation does not set.                          *)
Transitioned(c) ==
  LET row == rows[req[c].on]
  IN  CASE req[c].op = "approve" ->
             [row EXCEPT !.status = "approved", !.approvedBy = c]
        [] req[c].op = "send" ->
             [row EXCEPT !.status = "sent", !.evidence =
               [statement |-> req[c].on, content |-> seen[c].content,
                by |-> seen[c].approvedBy]]
        [] req[c].op = "dispute" -> [row EXCEPT !.status = "disputed"]

TransitionStatement(c) ==
  /\ pc[c] = "write"
  /\ req[c].op \in {"approve", "send", "dispute"}
  /\ rows' = [rows EXCEPT ![req[c].on] = Transitioned(c)]
  /\ approvals' = approvals \cup
       (IF req[c].op = "approve"
        THEN {[statement |-> req[c].on, content |-> rows[req[c].on].content,
               by |-> c]}
        ELSE {})
  /\ StoreAnswer(c)
  /\ EndCall(c)
  /\ UNCHANGED <<scopes, lines, generated, cycles, delivered>>

(* createBillingScope: an existing scope is updated, not added. *)
CreateScope(c) ==
  /\ pc[c] = "write"
  /\ req[c].op = "createScope"
  /\ scopes' = scopes \cup {req[c].on}
  /\ StoreAnswer(c)
  /\ EndCall(c)
  /\ UNCHANGED <<rows, lines, generated, cycles, history>>

(* The caller gets the error; the transaction, if open, is rolled back. *)
Reject(c) ==
  /\ pc[c] \in {"refused", "collided"}
  /\ EndCall(c)
  /\ UNCHANGED <<tables, generated, cycles, history>>

(* A query or the mail server fails: nothing of the step is kept. *)
Fail(c) ==
  /\ pc[c] \in {"read", "deliver", "begin", "write"}
  /\ EndCall(c)
  /\ UNCHANGED <<tables, generated, cycles, history>>
-----------------------------------------------------------------------------
(* runAgentCycle, run types statement_send and statement_generation. *)

Approved == {s \in Statement : rows[s] # None /\ rows[s].status = "approved"}

(* Mutant of SendBatch: the cap is not applied. *)
SendBatchUncapped(batch) == batch = Approved

(* listStatements orders by generated_at, newest first; the cycle takes the *)
(* first SendLimit of the list, which is finite: one page of a table.       *)
SendBatch(batch) ==
  /\ batch \subseteq Approved /\ IsFiniteSet(batch)
  /\ Cardinality(batch) =
       IF Cardinality(Approved) < SendLimit THEN Cardinality(Approved)
       ELSE SendLimit
  /\ \A s \in batch, t \in Approved \ batch : rows[s].content >= rows[t].content

StartSendCycle(a) ==
  /\ pc[a] = "idle"
  /\ \E batch \in SUBSET Statement :
       SendBatch(batch) /\ todo' = [todo EXCEPT ![a] = batch]
  /\ Goto(a, "cycle")
  /\ UNCHANGED <<tables, generated, req, seen, mailed, history>>

(* Mutant of NextSend: a statement leaves the list only when it was sent. *)
NextSendUntilSent(a) ==
  /\ pc[a] = "cycle"
  /\ \E s \in todo[a] :
       /\ StartCall(a, [op |-> "send", on |-> s, key |-> Fresh])
       /\ todo' = [todo EXCEPT ![a] =
                     {t \in @ : rows[t].status # "sent"}]
  /\ UNCHANGED <<tables, generated, seen, mailed, history>>

(* The loop over toSend: each statement is tried once. *)
NextSend(a) ==
  /\ pc[a] = "cycle"
  /\ \E s \in todo[a] :
       /\ StartCall(a, [op |-> "send", on |-> s, key |-> Fresh])
       /\ todo' = [todo EXCEPT ![a] = @ \ {s}]
  /\ UNCHANGED <<tables, generated, seen, mailed, history>>

StartGenerationCycle(a) ==
  /\ pc[a] = "idle"
  /\ CanGenerate
  /\ \E p \in Periods :
       StartCall(a, [op |-> "generate", on |-> p, key |-> Fresh])
  /\ UNCHANGED <<tables, generated, seen, cycles, history>>

(* createAgentRun records the cycle, whatever became of its calls. *)
EndCycle(a) ==
  /\ pc[a] = "cycle"
  /\ todo[a] = {}
  /\ Goto(a, "idle")
  /\ mailed' = [mailed EXCEPT ![a] = 0]
  /\ UNCHANGED <<tables, generated, req, seen, todo, history>>

(* The worker process dies: its cycle is not resumed, and not recorded. *)
CrashCycle(a) ==
  /\ pc[a] # "idle"
  /\ Goto(a, "idle")
  /\ req' = [req EXCEPT ![a] = None]
  /\ seen' = [seen EXCEPT ![a] = None]
  /\ todo' = [todo EXCEPT ![a] = {}]
  /\ mailed' = [mailed EXCEPT ![a] = 0]
  /\ UNCHANGED <<tables, generated, history>>
-----------------------------------------------------------------------------
(* The steps a call takes when nothing fails. *)
CallStep(c) ==
  \/ ReadStatement(c) \/ Refuse(c) \/ ReadInputs(c) \/ Deliver(c)
  \/ Replay(c) \/ KeyNotFound(c) \/ WriteStatements(c) \/ LineCollides(c)
  \/ TransitionStatement(c) \/ CreateScope(c) \/ Reject(c)

Fault(c) == DeliverUnconfirmed(c) \/ Fail(c)

CycleStep(a) == NextSend(a) \/ EndCycle(a)

Next ==
  \/ \E u \in Users : Call(u)
  \/ \E a \in Agents : \/ StartSendCycle(a) \/ StartGenerationCycle(a)
                       \/ CycleStep(a) \/ CrashCycle(a)
  \/ \E c \in Actors : CallStep(c) \/ Fault(c)

Spec == Init /\ [][Next]_vars

(***************************************************************************)
(* Node runs every continuation that is ready, PostgreSQL and the mail     *)
(* server answer: a call or a cycle that has begun takes its next step.    *)
(* Nothing makes callers call or the scheduler start a cycle.              *)
(***************************************************************************)
Fairness ==
  /\ \A c \in Actors : WF_vars(CallStep(c))
  /\ \A a \in Agents : WF_vars(CycleStep(a))

FairSpec == Spec /\ Fairness
-----------------------------------------------------------------------------
(* A statement cannot be sent without an approver, though the UPDATE that   *)
(* sends it does not look at the row: regenerations in between reset the    *)
(* status but must leave approved_by.                                       *)
SentHasApprover ==
  \A s \in Statement :
    rows[s] # None /\ rows[s].status = "sent" => rows[s].approvedBy # None

(* Nothing is mailed that was not approved: the mailed content is one that  *)
(* the row held when it became approved, by the person named as approver,   *)
(* however regenerations, disputes and other approvals ran in between.      *)
DeliveredWasApproved == delivered \subseteq approvals

(* A sent statement carries the evidence of a delivery that took place:     *)
(* which content was mailed, and who had approved it.                       *)
EvidenceOfDelivery ==
  \A s \in Statement :
    rows[s] # None /\ rows[s].status = "sent" =>
      rows[s].evidence \in delivered /\ rows[s].evidence.statement = s

(* A misconfigured cycle cannot mass-send: one cycle hands at most SendLimit *)
(* messages to the mail server, whatever fails in it.                        *)
CycleWithinCap == \A a \in Agents : mailed[a] <= SendLimit

(* The answer stored for an idempotency key never changes, not even when    *)
(* two calls with the key looked it up before either stored its answer.     *)
AnswersAreFinal ==
  [][\A k \in Keys : answers[k] # None => answers'[k] = answers[k]]_vars

(* Every call and every agent cycle ends, whatever its calls meet.          *)
ActorsEnd == \A c \in Actors : pc[c] # "idle" ~> pc[c] = "idle"

(***************************************************************************)
(* What a call in progress relies on, and the inductive invariant of which *)
(* the properties above are parts.                                         *)
(***************************************************************************)

(* What the handler of a send read, as a delivery. *)
ActOf(c) ==
  [statement |-> req[c].on, content |-> seen[c].content,
   by |-> seen[c].approvedBy]

(* A call in progress has its request; agents only send and generate. *)
CallsFormed ==
  \A c \in Actors :
    /\ pc[c] \notin {"idle", "cycle"} => req[c] \in Request
    /\ pc[c] \notin {"idle", "cycle"} /\ c \in Agents =>
         req[c].op \in {"send", "generate"}
    /\ pc[c] = "deliver" => req[c].op = "send"
    /\ pc[c] = "collided" => req[c].op = "generate"
    /\ pc[c] = "cycle" => c \in Agents

(* Past its read, a call holds what it read; rows never disappear. *)
CallsRead ==
  \A c \in Actors : pc[c] \in {"deliver", "begin", "write"} =>
    /\ req[c].op = "generate" => seen[c] \in Draft
    /\ req[c].op \in {"approve", "send", "dispute"} =>
         seen[c] \in Row /\ rows[req[c].on] # None

(* A send that passed its check mails an approved content, and writes to a *)
(* row that keeps an approver.                                             *)
SendsApproved ==
  \A c \in Actors :
    pc[c] \in {"deliver", "begin", "write"} /\ req[c].op = "send" =>
      /\ ActOf(c) \in approvals
      /\ pc[c] # "deliver" => ActOf(c) \in delivered
      /\ rows[req[c].on].approvedBy # None

(* A row's approver approved the content it holds while it is approved. *)
RowsApproved ==
  \A s \in Statement :
    rows[s] # None /\ rows[s].status = "approved" =>
      [statement |-> s, content |-> rows[s].content, by |-> rows[s].approvedBy]
        \in approvals

(* The call in progress of a cycle may still mail one message. *)
StillToMail(a) ==
  IF pc[a] \in {"read", "deliver"} /\ req[a].op = "send" THEN 1 ELSE 0

(* A cycle has mailed at most one message for each statement of its batch  *)
(* that it has started on, and may still mail one for each it has not.     *)
CycleCapped(a) ==
  /\ IsFiniteSet(todo[a])
  /\ mailed[a] + StillToMail(a) + Cardinality(todo[a]) <= SendLimit
  /\ pc[a] = "idle" => mailed[a] = 0 /\ todo[a] = {}

CyclesCapped == \A a \in Agents : CycleCapped(a)

Inv ==
  /\ CallsFormed /\ CallsRead /\ SendsApproved /\ RowsApproved
  /\ SentHasApprover /\ DeliveredWasApproved /\ EvidenceOfDelivery

(* What a sent statement says was approved. *)
SentIsApproved ==
  \A s \in Statement :
    rows[s] # None /\ rows[s].status = "sent" =>
      \E act \in approvals :
        act.statement = s /\ act.content = rows[s].content

(* A call that was answered is answered again when it is retried. *)
RetryIsAnswered ==
  \A c \in Actors : pc[c] = "refused" /\ req[c].key \in Keys =>
    answers[req[c].key] # [op |-> req[c].op, on |-> req[c].on]

(* Statements can be generated for each period. *)
GenerationNeverCollides == \A c \in Actors : pc[c] # "collided"
=============================================================================
