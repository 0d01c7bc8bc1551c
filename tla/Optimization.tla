---------------------------- MODULE Optimization ----------------------------
(***************************************************************************)
(* Recommendations of one tenant, over PostgreSQL. A call that lists or    *)
(* updates them first brings them up to date with the billing data: each   *)
(* candidate is upserted by a statement, and a transaction, of its own.    *)
(* An update then gives a recommendation its status under an idempotency   *)
(* key and, when it is applied, books the saving that billing has shown,   *)
(* in one transaction. The audit row it appends is AuditChain's subject.   *)
(*                                                                         *)
(* A recommendation is its place in the order of the cost records; its     *)
(* baseline, actual cost, delta and estimate are its figure.               *)
(***************************************************************************)
EXTENDS Naturals

CONSTANTS
  Calls,     \* calls that can be in progress at once
  Count,     \* the recommendations there may be
  Figures,   \* what billing may show of one, its delta positive
  Bills,     \* the candidates the first 200 cost records may give
  Requests,  \* the updates users send
  Keys,      \* their idempotency keys
  None       \* no row, no saving, no answer, no request

Ids == 1..Count

Decision == {"applied", "dismissed"}
Recommendation == [status : Decision \cup {"open"}, figure : Figures]
Request == [on : Ids, status : Decision, key : Keys]
Candidates == UNION {[S -> Figures] : S \in SUBSET Ids}

ASSUME OptimizationAssumption ==
  /\ Count \in Nat
  /\ Bills \subseteq Candidates
  /\ Requests \subseteq Request
  /\ None \notin Recommendation \cup Figures \cup Request

VARIABLES
  billing,          \* the candidates the cost records give now
  recommendations,  \* the table, by primary key
  savings,          \* realized_savings, by recommendation
  answers,          \* optimization_idempotency
  pc,               \* the next query of each call
  req,              \* the update it is to make, None if it only lists
  todo,             \* the candidates it has still to upsert
  seen,             \* the recommendation it has read
  own               \* the recommendation it has written, and so locked

tables == <<recommendations, savings, answers>>
locals == <<req, todo, seen, own>>
vars == <<billing, tables, pc, locals>>

NoCandidates == [i \in {} |-> None]

TypeOK ==
  /\ billing \in Bills \cup {NoCandidates}
  /\ recommendations \in [Ids -> Recommendation \cup {None}]
  /\ savings \in [Ids -> Figures \cup {None}]
  /\ answers \in [Keys -> Recommendation \cup {None}]
  /\ pc \in [Calls -> {"idle", "load", "sync", "lookup", "read", "write",
                       "book", "store", "commit"}]
  /\ req \in [Calls -> Request \cup {None}]
  /\ todo \in [Calls -> Candidates]
  /\ seen \in [Calls -> Recommendation \cup {None}]
  /\ own \in [Calls -> Recommendation \cup {None}]

Init ==
  /\ billing = NoCandidates
  /\ recommendations = [i \in Ids |-> None]
  /\ savings = [i \in Ids |-> None]
  /\ answers = [k \in Keys |-> None]
  /\ pc = [c \in Calls |-> "idle"]
  /\ req = [c \in Calls |-> None]
  /\ todo = [c \in Calls |-> NoCandidates]
  /\ seen = [c \in Calls |-> None]
  /\ own = [c \in Calls |-> None]
-----------------------------------------------------------------------------
Goto(c, step) == pc' = [pc EXCEPT ![c] = step]

(* Row locks: the transactions that have written recommendation i. *)
Lockers(i) == {d \in Calls : own[d] # None /\ req[d].on = i}

EndCall(c) ==
  /\ Goto(c, "idle")
  /\ req' = [req EXCEPT ![c] = None]
  /\ todo' = [todo EXCEPT ![c] = NoCandidates]
  /\ seen' = [seen EXCEPT ![c] = None]
  /\ own' = [own EXCEPT ![c] = None]

Throw(c) == EndCall(c) /\ UNCHANGED <<billing, tables>>

(* The cost records are the subject of SaveIngestion. *)
Ingest ==
  /\ billing' \in Bills \ {billing}
  /\ UNCHANGED <<tables, pc, locals>>

(* listRecommendations or updateRecommendation. *)
Call(c) ==
  /\ pc[c] = "idle"
  /\ \E r \in Requests \cup {None} : req' = [req EXCEPT ![c] = r]
  /\ Goto(c, "load")
  /\ UNCHANGED <<billing, tables, todo, seen, own>>
-----------------------------------------------------------------------------
(* syncFromBillingData.                                                    *)

LoadRecords(c) ==
  /\ pc[c] = "load"
  /\ todo' = [todo EXCEPT ![c] = billing]
  /\ Goto(c, "sync")
  /\ UNCHANGED <<billing, tables, req, seen, own>>

(* ... ON CONFLICT DO UPDATE ... WHERE status = 'open'. *)
Refreshes(i) ==
  recommendations[i] = None \/ recommendations[i].status = "open"

(* One upsert, committed at once. It waits for an update of its row. *)
SyncOne(c) ==
  /\ pc[c] = "sync"
  /\ \E i \in DOMAIN todo[c] :
       /\ \A j \in DOMAIN todo[c] : i <= j
       /\ Lockers(i) = {}
       /\ recommendations' = [recommendations EXCEPT ![i] =
            IF ~Refreshes(i) THEN @
            ELSE [status |-> IF @ = None THEN "open" ELSE @.status,
                  figure |-> todo[c][i]]]
       /\ todo' = [todo EXCEPT ![c] = [j \in DOMAIN @ \ {i} |-> @[j]]]
  /\ UNCHANGED <<billing, savings, answers, pc, req, seen, own>>

(* All is in step. A call that lists reads the page and ends. *)
Synced(c) ==
  /\ pc[c] = "sync" /\ DOMAIN todo[c] = {}
  /\ IF req[c] = None THEN EndCall(c)
     ELSE Goto(c, "lookup") /\ UNCHANGED locals
  /\ UNCHANGED <<billing, tables>>
-----------------------------------------------------------------------------
(* updateRecommendation.                                                   *)

Replay(c) ==
  /\ pc[c] = "lookup" /\ answers[req[c].key] # None
  /\ Throw(c)

KeyNotFound(c) ==
  /\ pc[c] = "lookup" /\ answers[req[c].key] = None
  /\ Goto(c, "read")
  /\ UNCHANGED <<billing, tables, locals>>

Read(c) ==
  /\ pc[c] = "read" /\ recommendations[req[c].on] # None
  /\ seen' = [seen EXCEPT ![c] = recommendations[req[c].on]]
  /\ Goto(c, "write")
  /\ UNCHANGED <<billing, tables, req, todo, own>>

NotFound(c) ==
  /\ pc[c] = "read" /\ recommendations[req[c].on] = None
  /\ Throw(c)

(* Mutant of SetStatus: through the pool, so outside the transaction. *)
SetStatusByPool(c) ==
  LET i == req[c].on
  IN  /\ pc[c] = "write" /\ Lockers(i) = {}
      /\ own' = [own EXCEPT ![c] = [recommendations[i] EXCEPT !.status = req[c].status]]
      /\ recommendations' = [recommendations EXCEPT ![i] = own'[c]]
      /\ Goto(c, IF req[c].status = "applied" THEN "book" ELSE "store")
      /\ UNCHANGED <<billing, savings, answers, req, todo, seen>>

(* UPDATE of the status alone, whatever it was. *)
SetStatus(c) ==
  LET i == req[c].on
  IN  /\ pc[c] = "write" /\ Lockers(i) = {}
      /\ own' = [own EXCEPT ![c] = [recommendations[i] EXCEPT !.status = req[c].status]]
      /\ Goto(c, IF req[c].status = "applied" THEN "book" ELSE "store")
      /\ UNCHANGED <<billing, tables, req, todo, seen>>

(* createRealizedSaving, from the row as it was read before the UPDATE; its *)
(* delta is positive, as all that are stored. A saving booked before stays. *)
Book(c) ==
  /\ pc[c] = "book"
  /\ Goto(c, "store")
  /\ UNCHANGED <<billing, tables, locals>>

KeyBlockers(c) ==
  {d \in Calls \ {c} : pc[d] = "commit" /\ req[d].key = req[c].key}

(* ON CONFLICT DO NOTHING. *)
StoreAnswer(c) ==
  /\ pc[c] = "store" /\ KeyBlockers(c) = {}
  /\ Goto(c, "commit")
  /\ UNCHANGED <<billing, tables, locals>>

Booked(c) ==
  IF req[c].status = "applied" /\ savings[req[c].on] = None
    THEN seen[c].figure ELSE savings[req[c].on]

Commit(c) ==
  LET r == req[c]
  IN  /\ pc[c] = "commit"
      /\ recommendations' = [recommendations EXCEPT ![r.on] = own[c]]
      /\ savings' = [savings EXCEPT ![r.on] = Booked(c)]
      /\ answers' = [answers EXCEPT ![r.key] = IF @ = None THEN own[c] ELSE @]
      /\ EndCall(c)
      /\ UNCHANGED billing
-----------------------------------------------------------------------------
(* A query fails or the process dies. What was synced stays. *)
Fails(c) ==
  /\ pc[c] # "idle"
  /\ Throw(c)

Step(c) ==
  \/ LoadRecords(c) \/ SyncOne(c) \/ Synced(c)
  \/ Replay(c) \/ KeyNotFound(c) \/ Read(c) \/ NotFound(c)
  \/ SetStatus(c) \/ Book(c) \/ StoreAnswer(c) \/ Commit(c)

Next ==
  \/ Ingest
  \/ \E c \in Calls : Call(c) \/ Step(c) \/ Fails(c)

Spec == Init /\ [][Next]_vars

-----------------------------------------------------------------------------
Decided(i) == recommendations[i] # None /\ recommendations[i].status # "open"

(* An applied recommendation has its saving: no failure between the two     *)
(* writes, and no call that dismisses it at the same time, parts them.      *)
AppliedHasSaving ==
  \A i \in Ids :
    recommendations[i] # None /\ recommendations[i].status = "applied" =>
      savings[i] # None

(* A saving is booked at the figure that the user applied. Not so: a sync   *)
(* refreshes the row between the read and the UPDATE of the same call.      *)
BookedAsDecided ==
  [][\A i \in Ids : savings[i] = None /\ savings'[i] # None =>
       savings'[i] = recommendations'[i].figure]_vars

(* What was decided is not made anew by the billing data that come after:   *)
(* a decided recommendation keeps its figure and never opens again, though  *)
(* a call that was reading the records meanwhile still upserts it, and the  *)
(* saving it was booked with stays, though it is dismissed and applied      *)
(* again.                                                                   *)
DecidedIsFinal ==
  [][\A i \in Ids :
       /\ Decided(i) => Decided(i)' /\ recommendations'[i].figure = recommendations[i].figure
       /\ savings[i] # None => savings'[i] = savings[i]]_vars
-----------------------------------------------------------------------------
(* What the proofs rest on: what a call that has written holds, ...         *)
HasUpdate(c) ==
  pc[c] \in {"lookup", "read", "write", "book", "store", "commit"} => req[c] # None

HasRead(c) ==
  pc[c] \in {"write", "book", "store", "commit"} =>
    seen[c] # None /\ recommendations[req[c].on] # None

HasWritten(c) ==
  IF pc[c] \in {"book", "store", "commit"}
    THEN /\ own[c] # None /\ own[c].status = req[c].status
         /\ own[c].figure = recommendations[req[c].on].figure
    ELSE own[c] = None

(* ... that no other has written the same recommendation, ...               *)
LocksExclusive ==
  \A c, d \in Calls :
    own[c] # None /\ own[d] # None /\ req[c].on = req[d].on => c = d

(* ... and that what is applied has been paid for.                          *)
Inv ==
  /\ \A c \in Calls : HasUpdate(c) /\ HasRead(c) /\ HasWritten(c)
  /\ LocksExclusive
  /\ AppliedHasSaving
=============================================================================
