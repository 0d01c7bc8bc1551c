-------------------------- MODULE StatementsProofs --------------------------
(***************************************************************************)
(* TLAPS proofs of Statements: for any number of callers, agent cycles,    *)
(* statements and idempotency keys, and without the bound on generations.  *)
(***************************************************************************)
EXTENDS Statements, FiniteSetTheorems, TLAPS

USE ActorsAssumption, KeysAssumption, BoundsAssumption,
    NoneAssumption

Transitions == {"approve", "send", "dispute"}

LEMMA RequestFacts ==
  ASSUME NEW r \in Request
  PROVE  /\ r.op \in Transitions \cup {"generate", "createScope"}
         /\ r.op \in Transitions => r.on \in Statement
         /\ r.op = "generate" => r.on \in Periods
         /\ r.op = "createScope" => r.on \in Scopes
         /\ [op |-> r.op, on |-> r.on] \in Answer
BY DEF Request, Answer, Transitions

LEMMA NoneIsNoRow == \A row \in Row : row # None
OBVIOUS

LEMMA InvInit == Init => TypeOK /\ Inv
BY DEF Init, TypeOK, Inv, CallsFormed, CallsRead, SendsApproved, RowsApproved,
       SentHasApprover, DeliveredWasApproved, EvidenceOfDelivery

(* What a call that ends, or moves to its next step, does to its own state. *)
LEMMA EndCallEffect ==
  ASSUME TypeOK, NEW c \in Actors, EndCall(c)
  PROVE  /\ pc'[c] \in {"idle", "cycle"} /\ (pc'[c] = "cycle" => c \in Agents)
         /\ \A d \in Actors \ {c} :
              pc'[d] = pc[d] /\ req'[d] = req[d] /\ seen'[d] = seen[d]
         /\ pc' \in [Actors -> {"idle", "cycle", "read", "deliver", "begin",
                                "write", "refused", "collided"}]
         /\ req' \in [Actors -> Request \cup {None}]
         /\ seen' \in [Actors -> Row \cup Draft \cup {None}]
BY DEF EndCall, Goto, TypeOK

LEMMA StoreAnswerType ==
  ASSUME TypeOK, NEW c \in Actors, req[c] \in Request, StoreAnswer(c)
  PROVE  answers' \in [Keys -> Answer \cup {None}]
BY RequestFacts DEF StoreAnswer, TypeOK

LEMMA MailType ==
  ASSUME TypeOK, Inv, NEW c \in Actors, pc[c] = "deliver", Mail(c)
  PROVE  delivered' \subseteq Act /\ mailed' \in [Agents -> Nat]
<1>1. ActOf(c) \in Act
  BY DEF Inv, CallsFormed, SendsApproved, TypeOK
<1>2. mailed' \in [Agents -> Nat]
  BY DEF Mail, TypeOK
<1> QED BY <1>1, <1>2 DEF Mail, ActOf, TypeOK

LEMMA RowWritten ==
  ASSUME TypeOK, Inv, NEW c \in Actors, pc[c] = "write",
         req[c].op \in Transitions
  PROVE  /\ req[c].on \in Statement /\ rows[req[c].on] \in Row
         /\ Transitioned(c) \in Row
         /\ Transitioned(c).content = rows[req[c].on].content
         /\ req[c].op = "approve" =>
              /\ c \in Users
              /\ Transitioned(c).status = "approved"
              /\ Transitioned(c).approvedBy = c
         /\ req[c].op # "approve" =>
              Transitioned(c).approvedBy = rows[req[c].on].approvedBy
         /\ req[c].op = "send" =>
              /\ Transitioned(c).status = "sent"
              /\ Transitioned(c).evidence = ActOf(c)
              /\ ActOf(c) \in delivered
         /\ req[c].op = "dispute" => Transitioned(c).status = "disputed"
<1> DEFINE row == rows[req[c].on]
<1>1. /\ req[c] \in Request /\ req[c].on \in Statement
      /\ rows[req[c].on] \in Row
  BY RequestFacts DEF Inv, CallsFormed, CallsRead, TypeOK, Transitions
<1>2. CASE req[c].op = "approve"
  <2>1. c \in Users
    BY <1>2 DEF Inv, CallsFormed, Actors
  <2>2. Transitioned(c) = [row EXCEPT !.status = "approved", !.approvedBy = c]
    BY <1>2 DEF Transitioned
  <2> QED BY <1>1, <1>2, <2>1, <2>2 DEF Row, Status
<1>3. CASE req[c].op = "send"
  <2>1. ActOf(c) \in Act /\ ActOf(c) \in delivered
    BY <1>3 DEF Inv, SendsApproved, TypeOK
  <2>2. Transitioned(c) = [row EXCEPT !.status = "sent", !.evidence = ActOf(c)]
    BY <1>3 DEF Transitioned, ActOf
  <2> QED BY <1>1, <1>3, <2>1, <2>2 DEF Row, Status
<1>4. CASE req[c].op = "dispute"
  <2>1. Transitioned(c) = [row EXCEPT !.status = "disputed"]
    BY <1>4 DEF Transitioned
  <2> QED BY <1>1, <1>4, <2>1 DEF Row, Status
<1> QED BY <1>1, <1>2, <1>3, <1>4 DEF Transitions

LEMMA RowGenerated ==
  ASSUME TypeOK, Inv, NEW s \in Statement, NEW content \in Content
  PROVE  Regenerated(s, content) \in Row
BY DEF Regenerated, TypeOK, Row, Status
-----------------------------------------------------------------------------
LEMMA TypeStep == TypeOK /\ Inv /\ [Next]_vars => TypeOK'
<1> SUFFICES ASSUME TypeOK, Inv, [Next]_vars PROVE TypeOK'
  OBVIOUS
<1> USE DEF tables, cycles, history
<1>1. ASSUME NEW u \in Users, Call(u) PROVE TypeOK'
  BY <1>1, RequestsAssumption DEF Call, StartCall, Goto, TypeOK, Actors
<1>2. ASSUME NEW a \in Agents, StartSendCycle(a) PROVE TypeOK'
  BY <1>2 DEF StartSendCycle, Goto, TypeOK, Actors
<1>3. ASSUME NEW a \in Agents, StartGenerationCycle(a) PROVE TypeOK'
  BY <1>3 DEF StartGenerationCycle, StartCall, Goto, TypeOK, Actors, Request
<1>4. ASSUME NEW a \in Agents, NextSend(a) PROVE TypeOK'
  <2>1. PICK s \in todo[a] :
          /\ StartCall(a, [op |-> "send", on |-> s, key |-> Fresh])
          /\ todo' = [todo EXCEPT ![a] = @ \ {s}]
    BY <1>4 DEF NextSend
  <2>2. [op |-> "send", on |-> s, key |-> Fresh] \in Request
    BY DEF TypeOK, Request
  <2> QED BY <1>4, <2>1, <2>2 DEF NextSend, StartCall, Goto, TypeOK, Actors
<1>5. ASSUME NEW a \in Agents, EndCycle(a) PROVE TypeOK'
  BY <1>5 DEF EndCycle, Goto, TypeOK, Actors
<1>6. ASSUME NEW a \in Agents, CrashCycle(a) PROVE TypeOK'
  BY <1>6 DEF CrashCycle, Goto, TypeOK, Actors
<1>7. ASSUME NEW c \in Actors, ReadStatement(c) PROVE TypeOK'
  <2>1. req[c].on \in Statement /\ rows[req[c].on] \in Row
    BY <1>7, RequestFacts
       DEF ReadStatement, Inv, CallsFormed, TypeOK, Allowed, Transitions
  <2> QED BY <1>7, <2>1 DEF ReadStatement, Goto, TypeOK
<1>8. ASSUME NEW c \in Actors, Refuse(c) \/ KeyNotFound(c) \/ LineCollides(c)
      PROVE  TypeOK'
  BY <1>8 DEF Refuse, KeyNotFound, LineCollides, Goto, TypeOK
<1>9. ASSUME NEW c \in Actors, ReadInputs(c) PROVE TypeOK'
  <2>1. [content |-> generated + 1, scopes |-> scopes] \in Draft
    BY DEF TypeOK, Draft, Content
  <2> QED BY <1>9, <2>1 DEF ReadInputs, Goto, TypeOK
<1>10. ASSUME NEW c \in Actors, Deliver(c) PROVE TypeOK'
  BY <1>10, MailType DEF Deliver, Goto, TypeOK
<1>11. ASSUME NEW c \in Actors, DeliverUnconfirmed(c) PROVE TypeOK'
  BY <1>11, MailType, EndCallEffect DEF DeliverUnconfirmed, TypeOK
<1>12. ASSUME NEW c \in Actors, Replay(c) \/ Reject(c) \/ Fail(c) PROVE TypeOK'
  BY <1>12, EndCallEffect DEF Replay, Reject, Fail, TypeOK
<1>13. ASSUME NEW c \in Actors, WriteStatements(c) PROVE TypeOK'
  <2>1. /\ req[c] \in Request /\ req[c].on \in Periods /\ seen[c] \in Draft
    BY <1>13, RequestFacts DEF WriteStatements, Inv, CallsFormed, CallsRead
  <2>2. rows' \in [Statement -> Row \cup {None}]
    BY <1>13, <2>1, RowGenerated DEF WriteStatements, TypeOK, Draft
  <2>3. lines' \in [Scopes -> Periods \cup {None}]
    BY <1>13, <2>1 DEF WriteStatements, TypeOK
  <2> QED BY <1>13, <2>1, <2>2, <2>3, StoreAnswerType, EndCallEffect
          DEF WriteStatements, TypeOK
<1>14. ASSUME NEW c \in Actors, TransitionStatement(c) PROVE TypeOK'
  <2>1. req[c] \in Request
    BY <1>14 DEF TransitionStatement, Inv, CallsFormed
  <2>2. rows' \in [Statement -> Row \cup {None}]
    BY <1>14, RowWritten DEF TransitionStatement, TypeOK, Transitions
  <2>3. approvals' \subseteq Act
    BY <1>14, RowWritten DEF TransitionStatement, TypeOK, Transitions, Row, Act
  <2> QED BY <1>14, <2>1, <2>2, <2>3, StoreAnswerType, EndCallEffect
          DEF TransitionStatement, TypeOK
<1>15. ASSUME NEW c \in Actors, CreateScope(c) PROVE TypeOK'
  <2>1. req[c] \in Request /\ req[c].on \in Scopes
    BY <1>15, RequestFacts DEF CreateScope, Inv, CallsFormed
  <2> QED BY <1>15, <2>1, StoreAnswerType, EndCallEffect DEF CreateScope, TypeOK
<1>16. CASE UNCHANGED vars
  BY <1>16 DEF vars, TypeOK
<1> QED
  BY <1>1, <1>2, <1>3, <1>4, <1>5, <1>6, <1>7, <1>8, <1>9, <1>10, <1>11, <1>12,
     <1>13, <1>14, <1>15, <1>16
  DEF Next, CycleStep, CallStep, Fault
-----------------------------------------------------------------------------
(* The invariant, seen from one call and from the rows. *)
CallOK(c) ==
  /\ pc[c] \notin {"idle", "cycle"} => req[c] \in Request
  /\ pc[c] \notin {"idle", "cycle"} /\ c \in Agents =>
       req[c].op \in {"send", "generate"}
  /\ pc[c] = "deliver" => req[c].op = "send"
  /\ pc[c] = "collided" => req[c].op = "generate"
  /\ pc[c] = "cycle" => c \in Agents
  /\ pc[c] \in {"deliver", "begin", "write"} =>
       /\ req[c].op = "generate" => seen[c] \in Draft
       /\ req[c].op \in {"approve", "send", "dispute"} =>
            seen[c] \in Row /\ rows[req[c].on] # None
  /\ pc[c] \in {"deliver", "begin", "write"} /\ req[c].op = "send" =>
       /\ ActOf(c) \in approvals
       /\ pc[c] # "deliver" => ActOf(c) \in delivered
       /\ rows[req[c].on].approvedBy # None

RowOK(s) ==
  rows[s] # None =>
    /\ rows[s].status = "approved" =>
         [statement |-> s, content |-> rows[s].content,
          by |-> rows[s].approvedBy] \in approvals
    /\ rows[s].status = "sent" =>
         /\ rows[s].approvedBy # None
         /\ rows[s].evidence \in delivered /\ rows[s].evidence.statement = s

LEMMA InvIs ==
  Inv <=> /\ \A c \in Actors : CallOK(c)
          /\ \A s \in Statement : RowOK(s)
          /\ delivered \subseteq approvals
BY DEF Inv, CallsFormed, CallsRead, SendsApproved, RowsApproved, CallOK, RowOK,
       SentHasApprover, DeliveredWasApproved, EvidenceOfDelivery

(* Calls rely on rows only as far as rows stay and keep an approver. *)
RowsKept ==
  \A s \in Statement : rows[s] # None =>
    /\ rows'[s] # None
    /\ rows[s].approvedBy # None => rows'[s].approvedBy # None

(* A step of one call: the others are as they were. *)
LEMMA OneCall ==
  ASSUME TypeOK, Inv, NEW c \in Actors, CallOK(c)',
         \A d \in Actors \ {c} :
           pc'[d] = pc[d] /\ req'[d] = req[d] /\ seen'[d] = seen[d],
         approvals \subseteq approvals', delivered \subseteq delivered',
         delivered' \subseteq approvals',
         RowsKept, \A s \in Statement : RowOK(s)'
  PROVE  Inv'
<1>1. ASSUME NEW d \in Actors \ {c} PROVE CallOK(d)'
  <2>1. CallOK(d) /\ ActOf(d)' = ActOf(d)
    BY InvIs DEF ActOf
  <2>2. pc[d] \in {"deliver", "begin", "write"} /\ req[d].op \in Transitions =>
          /\ req[d].on \in Statement
          /\ rows'[req[d].on] # None
          /\ rows[req[d].on].approvedBy # None => rows'[req[d].on].approvedBy # None
    BY <2>1, RequestFacts DEF CallOK, RowsKept, Transitions
  <2> QED BY <2>1, <2>2 DEF CallOK, Transitions
<1>2. \A d \in Actors : CallOK(d)'
  BY <1>1
<1> QED
  BY <1>2
  DEF Inv, CallsFormed, CallsRead, SendsApproved, RowsApproved, CallOK, RowOK,
      SentHasApprover, DeliveredWasApproved, EvidenceOfDelivery

(* A step that leaves rows and history alone. *)
LEMMA OneCallOnly ==
  ASSUME TypeOK, Inv, NEW c \in Actors, CallOK(c)', UNCHANGED <<rows, history>>,
         \A d \in Actors \ {c} :
           pc'[d] = pc[d] /\ req'[d] = req[d] /\ seen'[d] = seen[d]
  PROVE  Inv'
<1>1. delivered' \subseteq approvals' /\ RowsKept
  BY InvIs DEF history, RowsKept
<1>2. \A s \in Statement : RowOK(s)'
  BY InvIs DEF RowOK, history
<1> QED BY <1>1, <1>2, OneCall DEF history

LEMMA EndedCallOK ==
  ASSUME TypeOK, NEW c \in Actors, EndCall(c) PROVE CallOK(c)'
BY EndCallEffect DEF CallOK
-----------------------------------------------------------------------------
LEMMA CallsInv ==
  ASSUME TypeOK, Inv, NEW c \in Actors, NEW r \in Request, StartCall(c, r),
         c \in Agents => r.op \in {"send", "generate"},
         UNCHANGED <<rows, history, seen>>, pc[c] \in {"idle", "cycle"}
  PROVE  Inv'
<1>1. /\ req'[c] = r /\ seen'[c] = seen[c]
      /\ pc'[c] = IF r.op = "createScope" THEN "begin" ELSE "read"
      /\ \A d \in Actors \ {c} :
           pc'[d] = pc[d] /\ req'[d] = req[d] /\ seen'[d] = seen[d]
  BY DEF StartCall, Goto, TypeOK
<1>2. CallOK(c)'
  BY <1>1 DEF CallOK
<1> QED BY <1>1, <1>2, OneCallOnly

LEMMA ReadInv ==
  ASSUME TypeOK, Inv, NEW c \in Actors,
         ReadStatement(c) \/ Refuse(c) \/ ReadInputs(c)
  PROVE  Inv'
<1>1. /\ req' = req /\ UNCHANGED <<rows, history>> /\ pc[c] = "read"
      /\ \A d \in Actors \ {c} : pc'[d] = pc[d] /\ seen'[d] = seen[d]
      /\ CallOK(c) /\ req[c] \in Request
  BY InvIs DEF ReadStatement, Refuse, ReadInputs, Goto, TypeOK, tables, CallOK
<1>2. CASE ReadStatement(c)
  <2>1. /\ rows[req[c].on] # None /\ Allowed(req[c].op, rows[req[c].on])
        /\ seen'[c] = rows[req[c].on] /\ req[c].op \in Transitions
        /\ pc'[c] = IF req[c].op = "send" THEN "deliver" ELSE "begin"
    BY <1>2 DEF ReadStatement, TypeOK, Goto, Allowed, Transitions
  <2>2. req[c].on \in Statement
    BY <1>1, <2>1, RequestFacts
  <2>3. PICK s \in Statement : s = req[c].on
    BY <2>2
  <2>4. PICK row \in Row : row = rows[s] /\ Allowed(req[c].op, row)
    BY <2>1, <2>3 DEF TypeOK
  <2>5. row # None /\ rows'[s] = row /\ seen'[c] = row /\ req'[c].on = s
    BY <1>1, <2>1, <2>3, <2>4
  <2>6. ASSUME req[c].op = "send" PROVE CallOK(c)'
    <3>1. row.status = "approved" /\ row.approvedBy # None
      BY <2>4, <2>6 DEF Allowed
    <3>2. ActOf(c)' =
            [statement |-> s, content |-> row.content, by |-> row.approvedBy]
      BY <2>5 DEF ActOf
    <3>3. ActOf(c)' \in approvals'
      BY <1>1, <2>1, <2>4, <3>1, <3>2, InvIs DEF RowOK, history
    <3> QED BY <1>1, <2>1, <2>5, <2>6, <3>1, <3>3 DEF CallOK
  <2>7. ASSUME req[c].op # "send" PROVE CallOK(c)'
    BY <1>1, <2>1, <2>5, <2>7 DEF CallOK, Transitions
  <2>8. CallOK(c)'
    BY <2>6, <2>7
  <2> QED BY <1>1, <2>8, OneCallOnly
<1>3. CASE Refuse(c)
  <2>1. pc'[c] = "refused" /\ seen' = seen
    BY <1>3 DEF Refuse, Goto, TypeOK
  <2>2. CallOK(c)'
    BY <1>1, <2>1 DEF CallOK
  <2> QED BY <1>1, <2>2, OneCallOnly
<1>4. CASE ReadInputs(c)
  <2>1. /\ pc'[c] = "begin" /\ req[c].op = "generate"
        /\ seen'[c] = [content |-> generated + 1, scopes |-> scopes]
    BY <1>4 DEF ReadInputs, Goto, TypeOK
  <2>2. seen'[c] \in Draft
    BY <2>1 DEF TypeOK, Draft, Content
  <2>3. CallOK(c)'
    BY <1>1, <2>1, <2>2 DEF CallOK
  <2> QED BY <1>1, <2>3, OneCallOnly
<1> QED BY <1>2, <1>3, <1>4

(* Mail adds a delivery that an approval covers. *)
LEMMA MailInv ==
  ASSUME TypeOK, Inv, NEW c \in Actors, pc[c] = "deliver", Mail(c)
  PROVE  /\ delivered \subseteq delivered' /\ delivered' \subseteq approvals
         /\ ActOf(c) \in delivered'
         /\ \A s \in Statement : rows' = rows /\ approvals' = approvals => RowOK(s)'
<1>1. ActOf(c) \in approvals
  BY InvIs DEF CallOK
<1>2. delivered' = delivered \cup {ActOf(c)}
  BY DEF Mail, ActOf
<1>3. ASSUME NEW s \in Statement, rows' = rows, approvals' = approvals
      PROVE  RowOK(s)'
  BY <1>2, <1>3, InvIs DEF RowOK
<1> QED BY <1>1, <1>2, <1>3, InvIs

LEMMA DeliverInv ==
  ASSUME TypeOK, Inv, NEW c \in Actors, Deliver(c) \/ DeliverUnconfirmed(c)
  PROVE  Inv'
<1>1. /\ pc[c] = "deliver" /\ Mail(c)
      /\ rows' = rows /\ approvals' = approvals
  BY DEF Deliver, DeliverUnconfirmed, tables
<1>2. RowsKept /\ CallOK(c)
  BY <1>1, InvIs DEF RowsKept
<1>3. CASE Deliver(c)
  <2>1. /\ pc'[c] = "begin" /\ req' = req /\ seen' = seen
        /\ \A d \in Actors \ {c} : pc'[d] = pc[d]
    BY <1>3 DEF Deliver, Goto, TypeOK
  <2>2. CallOK(c)'
    BY <1>1, <1>2, <2>1, MailInv DEF CallOK, ActOf
  <2> QED BY <1>1, <1>2, <2>1, <2>2, MailInv, OneCall
<1>4. CASE DeliverUnconfirmed(c)
  <2>1. EndCall(c) /\ CallOK(c)'
    BY <1>4, EndedCallOK DEF DeliverUnconfirmed
  <2> QED BY <1>1, <1>2, <2>1, MailInv, OneCall, EndCallEffect
<1> QED BY <1>3, <1>4

LEMMA KeyInv ==
  ASSUME TypeOK, Inv, NEW c \in Actors, KeyNotFound(c) \/ LineCollides(c)
  PROVE  Inv'
<1>1. /\ UNCHANGED <<rows, history, req, seen>> /\ CallOK(c)
      /\ \A d \in Actors \ {c} : pc'[d] = pc[d]
      /\ \/ pc[c] = "begin" /\ pc'[c] = "write"
         \/ pc[c] = "write" /\ pc'[c] = "collided" /\ req[c].op = "generate"
  BY InvIs DEF KeyNotFound, LineCollides, Goto, TypeOK, tables
<1>2. CallOK(c)'
  BY <1>1 DEF CallOK, ActOf, history
<1> QED BY <1>1, <1>2, OneCallOnly

(* A call ends without touching statements. *)
LEMMA EndInv ==
  ASSUME TypeOK, Inv, NEW c \in Actors, EndCall(c), UNCHANGED <<rows, history>>
  PROVE  Inv'
BY EndedCallOK, EndCallEffect, OneCallOnly

LEMMA WriteInv ==
  ASSUME TypeOK, Inv, NEW c \in Actors, WriteStatements(c)
  PROVE  Inv'
<1>1. EndCall(c) /\ UNCHANGED history /\ seen[c] \in Draft
  BY InvIs DEF WriteStatements, CallOK
<1>2. rows' = [s \in Statement |->
                IF s.period = req[c].on THEN Regenerated(s, seen[c].content)
                ELSE rows[s]]
  BY DEF WriteStatements
<1>3. \A s \in Statement :
        \/ rows'[s] = rows[s]
        \/ /\ rows'[s] = Regenerated(s, seen[c].content)
           /\ rows'[s] \in Row
  BY <1>1, <1>2, RowGenerated DEF Draft
<1>4. RowsKept
  <2> SUFFICES ASSUME NEW s \in Statement, rows[s] # None
               PROVE  /\ rows'[s] # None
                      /\ rows[s].approvedBy # None => rows'[s].approvedBy # None
    BY DEF RowsKept
  <2>1. CASE rows'[s] = rows[s]
    BY <2>1
  <2>2. CASE rows'[s] = Regenerated(s, seen[c].content) /\ rows'[s] \in Row
    <3>1. rows'[s].approvedBy = rows[s].approvedBy
      BY <2>2 DEF Regenerated
    <3> QED BY <2>2, <3>1, NoneIsNoRow
  <2> QED BY <1>3, <2>1, <2>2
<1>5. ASSUME NEW s \in Statement PROVE RowOK(s)'
  <2>1. CASE rows'[s] = rows[s]
    BY <1>1, <2>1, InvIs DEF RowOK, history
  <2>2. CASE rows'[s] = Regenerated(s, seen[c].content)
    <3>1. rows'[s].status = "pending_approval"
      BY <2>2 DEF Regenerated
    <3> QED BY <3>1 DEF RowOK
  <2> QED BY <1>3, <2>1, <2>2
<1>6. \A s \in Statement : RowOK(s)'
  BY <1>5
<1> QED
  BY <1>1, <1>4, <1>6, InvIs, EndedCallOK, EndCallEffect, OneCall DEF history

LEMMA TransitionInv ==
  ASSUME TypeOK, Inv, NEW c \in Actors, TransitionStatement(c)
  PROVE  Inv'
<1>1. /\ pc[c] = "write" /\ req[c].op \in Transitions /\ EndCall(c)
      /\ delivered' = delivered /\ CallOK(c)
      /\ req[c].on \in Statement
  BY InvIs, RowWritten DEF TransitionStatement, Transitions
<1>2. PICK on \in Statement : on = req[c].on
  BY <1>1
<1>3. PICK new \in Row : new = Transitioned(c)
  BY <1>1, RowWritten
<1>4. /\ rows[on] \in Row /\ rows'[on] = new /\ new # None
      /\ \A s \in Statement \ {on} : rows'[s] = rows[s]
      /\ new.content = rows[on].content
      /\ approvals' = approvals \cup
           (IF req[c].op = "approve"
            THEN {[statement |-> on, content |-> new.content, by |-> c]} ELSE {})
  BY <1>1, <1>2, <1>3, RowWritten DEF TransitionStatement, TypeOK
<1>5. RowsKept
  <2>1. rows[on].approvedBy # None => new.approvedBy # None
    BY <1>1, <1>2, <1>3, RowWritten
  <2> QED BY <1>4, <2>1 DEF RowsKept
<1>6. RowOK(on)'
  <2>1. CASE req[c].op = "approve"
    <3>1. new.status = "approved" /\ new.approvedBy = c
      BY <1>1, <1>3, <2>1, RowWritten
    <3> QED BY <1>4, <2>1, <3>1 DEF RowOK
  <2>2. CASE req[c].op = "send"
    <3>1. rows[on].approvedBy # None /\ ActOf(c).statement = on
      BY <1>1, <1>2, <2>2 DEF CallOK, ActOf
    <3>2. /\ new.status = "sent" /\ new.approvedBy # None
          /\ new.evidence \in delivered /\ new.evidence.statement = on
      BY <1>1, <1>2, <1>3, <2>2, <3>1, RowWritten
    <3> QED BY <1>1, <1>4, <3>2 DEF RowOK
  <2>3. CASE req[c].op = "dispute"
    <3>1. new.status = "disputed"
      BY <1>1, <1>3, <2>3, RowWritten
    <3> QED BY <1>4, <3>1 DEF RowOK
  <2> QED BY <1>1, <2>1, <2>2, <2>3 DEF Transitions
<1>7. ASSUME NEW s \in Statement \ {on} PROVE RowOK(s)'
  BY <1>1, <1>4, InvIs DEF RowOK
<1>8. \A s \in Statement : RowOK(s)'
  BY <1>6, <1>7
<1> QED
  BY <1>1, <1>4, <1>5, <1>8, InvIs, EndedCallOK, EndCallEffect, OneCall

LEMMA CycleInv ==
  ASSUME TypeOK, Inv, NEW a \in Agents,
         StartSendCycle(a) \/ EndCycle(a) \/ CrashCycle(a)
  PROVE  Inv'
<1>1. /\ UNCHANGED <<rows, history>> /\ pc'[a] \in {"idle", "cycle"}
      /\ \A d \in Actors \ {a} :
           pc'[d] = pc[d] /\ req'[d] = req[d] /\ seen'[d] = seen[d]
  BY DEF StartSendCycle, EndCycle, CrashCycle, Goto, TypeOK, Actors, tables
<1>2. CallOK(a)'
  BY <1>1 DEF CallOK
<1> QED BY <1>1, <1>2, OneCallOnly DEF Actors
-----------------------------------------------------------------------------
LEMMA InvStep == TypeOK /\ Inv /\ [Next]_vars => Inv'
<1> SUFFICES ASSUME TypeOK, Inv, [Next]_vars PROVE Inv'
  OBVIOUS
<1>1. ASSUME NEW u \in Users, Call(u) PROVE Inv'
  <2>1. u \in Actors /\ u \notin Agents
    BY DEF Actors
  <2> QED BY <1>1, <2>1, CallsInv, RequestsAssumption DEF Call, tables
<1>2. ASSUME NEW a \in Agents, StartGenerationCycle(a) PROVE Inv'
  <2>1. PICK p \in Periods :
          StartCall(a, [op |-> "generate", on |-> p, key |-> Fresh])
    BY <1>2 DEF StartGenerationCycle
  <2>2. [op |-> "generate", on |-> p, key |-> Fresh] \in Request
    BY DEF Request
  <2> QED BY <1>2, <2>1, <2>2, CallsInv DEF StartGenerationCycle, Actors, tables
<1>3. ASSUME NEW a \in Agents, NextSend(a) PROVE Inv'
  <2>1. PICK s \in todo[a] :
          StartCall(a, [op |-> "send", on |-> s, key |-> Fresh])
    BY <1>3 DEF NextSend
  <2>2. [op |-> "send", on |-> s, key |-> Fresh] \in Request
    BY DEF TypeOK, Request
  <2> QED BY <1>3, <2>1, <2>2, CallsInv DEF NextSend, Actors, tables
<1>4. ASSUME NEW c \in Actors,
             Replay(c) \/ Reject(c) \/ Fail(c) \/ CreateScope(c)
      PROVE  Inv'
  BY <1>4, EndInv DEF Replay, Reject, Fail, CreateScope, tables
<1>5. CASE UNCHANGED vars
  BY <1>5
  DEF vars, tables, history, Inv, CallsFormed, CallsRead, SendsApproved,
      RowsApproved, SentHasApprover, DeliveredWasApproved, EvidenceOfDelivery,
      ActOf
<1> QED
  BY <1>1, <1>2, <1>3, <1>4, <1>5, ReadInv, DeliverInv, KeyInv, WriteInv,
     TransitionInv, CycleInv
  DEF Next, CycleStep, CallStep, Fault

(* Types and the invariant together are inductive: a send in progress mails *)
(* an approved content, and the row it will write keeps an approver.        *)
THEOREM Invariance == Spec => [](TypeOK /\ Inv)
<1>1. Init => TypeOK /\ Inv
  BY InvInit
<1>2. TypeOK /\ Inv /\ [Next]_vars => (TypeOK /\ Inv)'
  BY TypeStep, InvStep
<1> QED BY <1>1, <1>2, PTL DEF Spec

(* Every state of the tables, the calls and the cycles is well typed.       *)
THEOREM TypeCorrect == Spec => []TypeOK
BY Invariance, PTL

(* No statement is ever sent without an approver, whatever regenerations    *)
(* and disputes run between a send's check and its UPDATE.                  *)
THEOREM NoSendWithoutApprover == Spec => []SentHasApprover
<1>1. Inv => SentHasApprover
  BY DEF Inv
<1> QED BY <1>1, Invariance, PTL

(* Every content that was mailed had been approved, by the approver named.  *)
THEOREM OnlyApprovedIsDelivered == Spec => []DeliveredWasApproved
<1>1. Inv => DeliveredWasApproved
  BY DEF Inv
<1> QED BY <1>1, Invariance, PTL

(* The evidence of a sent statement is of a delivery that took place.       *)
THEOREM EvidenceIsReal == Spec => []EvidenceOfDelivery
<1>1. Inv => EvidenceOfDelivery
  BY DEF Inv
<1> QED BY <1>1, Invariance, PTL
-----------------------------------------------------------------------------
(* The cap of a cycle. The list of a cycle is finite, so the messages it    *)
(* may still mail can be counted.                                           *)
LEMMA ToMailType ==
  ASSUME TypeOK, NEW a \in Agents, CycleCapped(a)
  PROVE  /\ Cardinality(todo[a]) \in Nat /\ mailed[a] \in Nat
         /\ StillToMail(a) \in 0 .. 1
BY FS_CardinalityType DEF CycleCapped, StillToMail, TypeOK

(* A step that neither mails nor adds to the list of the cycle. *)
LEMMA CapKept ==
  ASSUME TypeOK, NEW a \in Agents, CycleCapped(a),
         todo'[a] = todo[a], mailed'[a] = mailed[a],
         StillToMail(a)' = 1 => StillToMail(a) = 1,
         pc'[a] = "idle" => pc[a] = "idle"
  PROVE  CycleCapped(a)'
<1>1. StillToMail(a)' \in 0 .. 1
  BY DEF StillToMail
<1> QED BY <1>1, ToMailType DEF CycleCapped

(* The batch of a cycle, whichever way the list is cut, fits in the cap.    *)
LEMMA BatchFits ==
  ASSUME NEW batch, SendBatch(batch)
  PROVE  IsFiniteSet(batch) /\ Cardinality(batch) <= SendLimit
<1>1. IsFiniteSet(batch) /\ Cardinality(batch) \in Nat
  BY FS_CardinalityType DEF SendBatch
<1> QED BY <1>1 DEF SendBatch

LEMMA CapInit == Init => CyclesCapped
BY FS_EmptySet DEF Init, CyclesCapped, CycleCapped, StillToMail, Actors

LEMMA CallsCapped ==
  ASSUME TypeOK, Inv, NEW a \in Agents, CycleCapped(a), CallStep(a) \/ Fault(a)
  PROVE  CycleCapped(a)'
<1>1. a \in Actors /\ CallOK(a) /\ mailed[a] \in Nat
  BY InvIs DEF Actors, TypeOK
<1>2. ASSUME EndCall(a), todo' = todo, mailed' = mailed PROVE CycleCapped(a)'
  <2>1. pc'[a] = "cycle"
    BY <1>1, <1>2 DEF EndCall, Goto, TypeOK
  <2> QED BY <1>2, <2>1, CapKept DEF StillToMail
<1>3. CASE Deliver(a) \/ DeliverUnconfirmed(a)
  <2>1. /\ StillToMail(a) = 1 /\ todo' = todo /\ mailed'[a] = mailed[a] + 1
    BY <1>1, <1>3
    DEF Deliver, DeliverUnconfirmed, Mail, StillToMail, TypeOK, CallOK
  <2>2. pc'[a] \in {"begin", "cycle"}
    BY <1>1, <1>3 DEF Deliver, DeliverUnconfirmed, EndCall, Goto, TypeOK
  <2>3. StillToMail(a)' = 0
    BY <2>2 DEF StillToMail
  <2> QED BY <2>1, <2>2, <2>3, ToMailType DEF CycleCapped
<1>4. CASE ReadStatement(a) \/ Refuse(a) \/ ReadInputs(a) \/ KeyNotFound(a)
             \/ LineCollides(a)
  <2>1. /\ todo' = todo /\ mailed' = mailed /\ req' = req
        /\ pc'[a] \in {"deliver", "begin", "refused", "write", "collided"}
        /\ pc'[a] = "deliver" => pc[a] = "read"
    BY <1>1, <1>4 DEF ReadStatement, Refuse, ReadInputs, KeyNotFound,
                     LineCollides, Goto, TypeOK, cycles
  <2>2. StillToMail(a)' = 1 => StillToMail(a) = 1
    BY <2>1 DEF StillToMail
  <2> QED BY <2>1, <2>2, CapKept
<1>5. CASE Replay(a) \/ WriteStatements(a) \/ TransitionStatement(a)
             \/ CreateScope(a) \/ Reject(a) \/ Fail(a)
  BY <1>2, <1>5 DEF Replay, WriteStatements, TransitionStatement, CreateScope,
                   Reject, Fail, cycles
<1> QED BY <1>3, <1>4, <1>5 DEF CallStep, Fault

LEMMA CycleStepsCapped ==
  ASSUME TypeOK, Inv, NEW a \in Agents, CycleCapped(a),
         \/ StartSendCycle(a) \/ StartGenerationCycle(a)
         \/ CycleStep(a) \/ CrashCycle(a)
  PROVE  CycleCapped(a)'
<1> USE DEF Actors
<1>1. CASE StartSendCycle(a)
  <2>1. PICK batch \in SUBSET Statement :
          SendBatch(batch) /\ todo' = [todo EXCEPT ![a] = batch]
    BY <1>1 DEF StartSendCycle
  <2>2. pc'[a] = "cycle" /\ mailed'[a] = 0 /\ todo'[a] = batch
    BY <1>1, <2>1 DEF StartSendCycle, Goto, TypeOK, CycleCapped
  <2>3. Cardinality(batch) \in Nat
    BY <2>1, BatchFits, FS_CardinalityType
  <2> QED BY <2>1, <2>2, <2>3, BatchFits DEF CycleCapped, StillToMail
<1>2. CASE StartGenerationCycle(a)
  <2>1. /\ pc'[a] = "read" /\ req'[a].op = "generate"
        /\ todo' = todo /\ mailed' = mailed
    BY <1>2 DEF StartGenerationCycle, StartCall, Goto, TypeOK, cycles
  <2> QED BY <2>1, CapKept DEF StillToMail
<1>3. CASE NextSend(a)
  <2>1. PICK s \in todo[a] :
          /\ StartCall(a, [op |-> "send", on |-> s, key |-> Fresh])
          /\ todo' = [todo EXCEPT ![a] = @ \ {s}]
    BY <1>3 DEF NextSend
  <2>2. /\ StillToMail(a) = 0 /\ mailed' = mailed /\ pc'[a] = "read"
        /\ todo'[a] = todo[a] \ {s}
    BY <1>3, <2>1 DEF NextSend, StartCall, Goto, StillToMail, TypeOK
  <2>3. IsFiniteSet(todo'[a]) /\ Cardinality(todo'[a]) = Cardinality(todo[a]) - 1
    BY <2>2, FS_RemoveElement DEF CycleCapped
  <2>4. StillToMail(a)' \in 0 .. 1
    BY DEF StillToMail
  <2> QED BY <2>2, <2>3, <2>4, ToMailType DEF CycleCapped
<1>4. CASE EndCycle(a) \/ CrashCycle(a)
  <2>1. pc'[a] = "idle" /\ todo'[a] = {} /\ mailed'[a] = 0
    BY <1>4 DEF EndCycle, CrashCycle, Goto, TypeOK
  <2> QED BY <2>1, FS_EmptySet DEF CycleCapped, StillToMail
<1> QED BY <1>1, <1>2, <1>3, <1>4 DEF CycleStep

(* What a step does to a cycle that it is not a step of: nothing. *)
LEMMA OthersCapped ==
  ASSUME TypeOK, NEW a \in Agents, CycleCapped(a),
         pc'[a] = pc[a], req'[a] = req[a], todo'[a] = todo[a],
         mailed'[a] = mailed[a]
  PROVE  CycleCapped(a)'
BY DEF CycleCapped, StillToMail

LEMMA OneActor ==
  ASSUME TypeOK, NEW a \in Agents, NEW c \in Actors, c # a,
         \/ c \in Users /\ Call(c)
         \/ /\ c \in Agents
            /\ \/ StartSendCycle(c) \/ StartGenerationCycle(c)
               \/ CycleStep(c) \/ CrashCycle(c)
         \/ CallStep(c) \/ Fault(c)
  PROVE  pc'[a] = pc[a] /\ req'[a] = req[a] /\ todo'[a] = todo[a]
         /\ mailed'[a] = mailed[a]
<1> USE DEF Actors, TypeOK, Goto, cycles
<1>1. CASE c \in Users /\ Call(c)
  BY <1>1 DEF Call, StartCall
<1>2. CASE c \in Agents /\ (StartSendCycle(c) \/ StartGenerationCycle(c)
                             \/ CycleStep(c) \/ CrashCycle(c))
  BY <1>2 DEF StartSendCycle, StartGenerationCycle, StartCall, CycleStep,
             NextSend, EndCycle, CrashCycle
<1>3. CASE CallStep(c)
  BY <1>3 DEF CallStep, ReadStatement, Refuse, ReadInputs, Deliver, Mail, Replay,
             KeyNotFound, WriteStatements, LineCollides, TransitionStatement,
             CreateScope, Reject, EndCall
<1>4. CASE Fault(c)
  BY <1>4 DEF Fault, DeliverUnconfirmed, Mail, Fail, EndCall
<1> QED BY <1>1, <1>2, <1>3, <1>4

LEMMA CapStep == TypeOK /\ Inv /\ CyclesCapped /\ [Next]_vars => CyclesCapped'
<1> SUFFICES ASSUME TypeOK, Inv, CyclesCapped, [Next]_vars, NEW a \in Agents
             PROVE  CycleCapped(a)'
  BY DEF CyclesCapped
<1>1. CycleCapped(a) /\ a \in Actors /\ a \notin Users
  BY DEF CyclesCapped, Actors
<1>2. CASE UNCHANGED vars
  BY <1>1, <1>2, OthersCapped DEF vars, cycles
<1>3. ASSUME NEW u \in Users, Call(u) PROVE CycleCapped(a)'
  BY <1>1, <1>3, OneActor, OthersCapped DEF Actors
<1>4. ASSUME NEW b \in Agents, \/ StartSendCycle(b) \/ StartGenerationCycle(b)
                              \/ CycleStep(b) \/ CrashCycle(b)
      PROVE  CycleCapped(a)'
  BY <1>1, <1>4, OneActor, OthersCapped, CycleStepsCapped DEF Actors
<1>5. ASSUME NEW c \in Actors, CallStep(c) \/ Fault(c) PROVE CycleCapped(a)'
  BY <1>1, <1>5, OneActor, OthersCapped, CallsCapped
<1> QED BY <1>2, <1>3, <1>4, <1>5 DEF Next

(* One agent cycle hands at most SendLimit messages to the mail server, for *)
(* any number of cycles at once and whatever fails or crashes in them.      *)
THEOREM CyclesWithinCap == Spec => []CycleWithinCap
<1>1. Init => CyclesCapped
  BY CapInit
<1>2. TypeOK /\ Inv /\ CyclesCapped /\ [Next]_vars => CyclesCapped'
  BY CapStep
<1>3. TypeOK /\ CyclesCapped => CycleWithinCap
  <2> SUFFICES ASSUME TypeOK, CyclesCapped, NEW a \in Agents
               PROVE  mailed[a] <= SendLimit
    BY DEF CycleWithinCap
  <2> QED BY ToMailType DEF CyclesCapped, CycleCapped
<1> QED BY <1>1, <1>2, <1>3, Invariance, PTL DEF Spec
-----------------------------------------------------------------------------
(* A step stores no answer, or stores one under a key that had none. *)
LEMMA AnswersStep ==
  ASSUME TypeOK, [Next]_vars, NEW k \in Keys, answers[k] # None
  PROVE  answers'[k] = answers[k]
<1>1. CASE UNCHANGED answers
  BY <1>1
<1>2. ASSUME NEW c \in Actors, StoreAnswer(c) PROVE answers'[k] = answers[k]
  BY <1>2 DEF StoreAnswer
<1>3. UNCHANGED answers \/ \E c \in Actors : StoreAnswer(c)
  BY DEF vars, tables, Next, CallStep, Fault, CycleStep, Call, StartSendCycle,
         StartGenerationCycle, NextSend, EndCycle, CrashCycle, ReadStatement,
         Refuse, ReadInputs, Deliver, DeliverUnconfirmed, Replay, KeyNotFound,
         LineCollides, WriteStatements, TransitionStatement, CreateScope, Reject,
         Fail
<1> QED BY <1>1, <1>2, <1>3

(* The answer stored for an idempotency key is final, also when calls that  *)
(* share the key looked it up before any of them stored its own.            *)
THEOREM AnswersFinal == Spec => AnswersAreFinal
<1>1. TypeOK /\ [Next]_vars =>
        [\A k \in Keys : answers[k] # None => answers'[k] = answers[k]]_vars
  BY AnswersStep
<1> QED BY <1>1, TypeCorrect, PTL DEF Spec, AnswersAreFinal
=============================================================================
