------------------------- MODULE OptimizationProofs -------------------------
(***************************************************************************)
(* TLAPS proofs of Optimization: a decision and its saving belong together *)
(* and stay, for any number of calls, recommendations and figures.         *)
(***************************************************************************)
EXTENDS Optimization, TLAPS

USE OptimizationAssumption

(* Candidates without one of them are candidates. *)
LEMMA Remaining ==
  ASSUME NEW t \in Candidates, NEW i \in Ids
  PROVE  [j \in DOMAIN t \ {i} |-> t[j]] \in Candidates
<1>1. PICK S \in SUBSET Ids : t \in [S -> Figures]
  BY DEF Candidates
<1>2. [j \in DOMAIN t \ {i} |-> t[j]] \in [S \ {i} -> Figures]
  BY <1>1
<1> QED BY <1>2 DEF Candidates

LEMMA NoneLeft == NoCandidates \in Candidates
<1>1. NoCandidates \in [{} -> Figures]
  BY DEF NoCandidates
<1> QED BY <1>1 DEF Candidates

(* What Request and Recommendation are made of. *)
LEMMA Shapes ==
  /\ None \notin Recommendation /\ None \notin Figures /\ None \notin Request
  /\ \A r \in Request : r.on \in Ids /\ r.status \in Decision /\ r.key \in Keys
  /\ \A r \in Recommendation : r.status \in Decision \cup {"open"} /\ r.figure \in Figures
BY DEF Request, Recommendation

LEMMA InvInit == Init => TypeOK /\ Inv
BY NoneLeft DEF Init, TypeOK, Inv, HasUpdate, HasRead, HasWritten, LocksExclusive,
  AppliedHasSaving

(* A call that ends lets go of what it holds. *)
LEMMA EndCallType ==
  ASSUME TypeOK, NEW c \in Calls, EndCall(c)
  PROVE  /\ pc' \in [Calls -> {"idle", "load", "sync", "lookup", "read", "write",
                               "book", "store", "commit"}]
         /\ req' \in [Calls -> Request \cup {None}]
         /\ todo' \in [Calls -> Candidates]
         /\ seen' \in [Calls -> Recommendation \cup {None}]
         /\ own' \in [Calls -> Recommendation \cup {None}]
BY NoneLeft DEF TypeOK, EndCall, Goto

LEMMA TypeStep == TypeOK /\ Inv /\ [Next]_vars => TypeOK'
<1> SUFFICES ASSUME TypeOK, Inv, [Next]_vars PROVE TypeOK'
  OBVIOUS
<1> USE DEF tables, locals, Goto
<1>1. CASE Ingest
  BY <1>1 DEF Ingest, TypeOK
<1>2. ASSUME NEW c \in Calls, Call(c) PROVE TypeOK'
  BY <1>2 DEF Call, TypeOK
<1>3. ASSUME NEW c \in Calls, Throw(c) PROVE TypeOK'
  BY <1>3, EndCallType DEF Throw, TypeOK
<1>4. ASSUME NEW c \in Calls, LoadRecords(c) PROVE TypeOK'
  <2>1. billing \in Candidates
    BY NoneLeft DEF TypeOK
  <2> QED BY <1>4, <2>1 DEF LoadRecords, TypeOK
<1>5. ASSUME NEW c \in Calls, SyncOne(c) PROVE TypeOK'
  <2>1. PICK i \in DOMAIN todo[c] :
          /\ recommendations' = [recommendations EXCEPT ![i] =
               IF ~Refreshes(i) THEN @
               ELSE [status |-> IF @ = None THEN "open" ELSE @.status,
                     figure |-> todo[c][i]]]
          /\ todo' = [todo EXCEPT ![c] = [j \in DOMAIN @ \ {i} |-> @[j]]]
    BY <1>5 DEF SyncOne
  <2>2. PICK S \in SUBSET Ids : todo[c] \in [S -> Figures]
    BY DEF TypeOK, Candidates
  <2>3. i \in Ids /\ todo[c][i] \in Figures
    BY <2>2
  <2>4. todo' \in [Calls -> Candidates]
    BY <2>1, <2>3, Remaining DEF TypeOK
  <2>5. recommendations' \in [Ids -> Recommendation \cup {None}]
    BY <2>1, <2>3 DEF TypeOK, Recommendation
  <2> QED BY <1>5, <2>4, <2>5 DEF SyncOne, TypeOK
<1>6. ASSUME NEW c \in Calls, Synced(c) PROVE TypeOK'
  BY <1>6, EndCallType DEF Synced, TypeOK
<1>7. ASSUME NEW c \in Calls, KeyNotFound(c) PROVE TypeOK'
  BY <1>7 DEF KeyNotFound, TypeOK
<1>8. ASSUME NEW c \in Calls, Read(c) PROVE TypeOK'
  <2>1. req[c] # None
    BY <1>8 DEF Read, Inv, HasUpdate
  <2> QED BY <1>8, <2>1, Shapes DEF Read, TypeOK
<1>9. ASSUME NEW c \in Calls, SetStatus(c) PROVE TypeOK'
  <2>1. req[c] \in Request /\ recommendations[req[c].on] \in Recommendation
    BY <1>9, Shapes DEF SetStatus, Inv, HasUpdate, HasRead, TypeOK
  <2>2. [recommendations[req[c].on] EXCEPT !.status = req[c].status] \in Recommendation
    BY <2>1, Shapes DEF Recommendation
  <2> QED BY <1>9, <2>2 DEF SetStatus, TypeOK
<1>10. ASSUME NEW c \in Calls, Book(c) \/ StoreAnswer(c) PROVE TypeOK'
  BY <1>10 DEF Book, StoreAnswer, TypeOK
<1>11. ASSUME NEW c \in Calls, Commit(c) PROVE TypeOK'
  <2>1. req[c] \in Request /\ seen[c] \in Recommendation /\ own[c] \in Recommendation
    BY <1>11 DEF Commit, Inv, HasUpdate, HasRead, HasWritten, TypeOK
  <2>2. Booked(c) \in Figures \cup {None}
    BY <2>1, Shapes DEF Booked, TypeOK
  <2>3. savings' \in [Ids -> Figures \cup {None}]
    BY <1>11, <2>2 DEF Commit, TypeOK
  <2>4. recommendations' \in [Ids -> Recommendation \cup {None}]
    BY <1>11, <2>1 DEF Commit, TypeOK
  <2>5. answers' \in [Keys -> Recommendation \cup {None}]
    BY <1>11, <2>1 DEF Commit, TypeOK
  <2> QED BY <1>11, <2>3, <2>4, <2>5, EndCallType DEF Commit, TypeOK
<1>12. CASE UNCHANGED vars
  BY <1>12 DEF vars, TypeOK
<1> QED
  BY <1>1, <1>2, <1>3, <1>4, <1>5, <1>6, <1>7, <1>8, <1>9, <1>10, <1>11, <1>12
  DEF Next, Step, Fails, Replay, NotFound

(* A call that ends, or one that moves on, disturbs no other. *)
LEMMA ThrowInv ==
  ASSUME TypeOK, Inv, NEW c \in Calls, Throw(c) PROVE Inv'
<1>1. \A d \in Calls \ {c} : pc'[d] = pc[d] /\ req'[d] = req[d] /\ seen'[d] = seen[d]
                             /\ own'[d] = own[d]
  BY DEF TypeOK, Throw, EndCall, Goto
<1>2. pc'[c] = "idle" /\ own'[c] = None
  BY DEF TypeOK, Throw, EndCall, Goto
<1>3. UNCHANGED <<recommendations, savings>>
  BY DEF Throw, tables
<1> QED BY <1>1, <1>2, <1>3 DEF Inv, HasUpdate, HasRead, HasWritten, LocksExclusive,
          AppliedHasSaving

(* An upsert refreshes only what no call has decided or is deciding. *)
LEMMA SyncInv ==
  ASSUME TypeOK, Inv, NEW c \in Calls, SyncOne(c) PROVE Inv'
<1>1. PICK i \in DOMAIN todo[c] :
        /\ Lockers(i) = {}
        /\ recommendations' = [recommendations EXCEPT ![i] =
             IF ~Refreshes(i) THEN @
             ELSE [status |-> IF @ = None THEN "open" ELSE @.status,
                   figure |-> todo[c][i]]]
  BY DEF SyncOne
<1>2. i \in Ids /\ todo[c][i] \in Figures
  BY DEF TypeOK, Candidates
<1>3. \A x \in Ids : x # i => recommendations'[x] = recommendations[x]
  BY <1>1, <1>2 DEF TypeOK
<1>4. UNCHANGED <<savings, pc, req, seen, own>>
  BY DEF SyncOne
<1>5. recommendations'[i] # None
  BY <1>1, <1>2, Shapes DEF TypeOK, Refreshes, Recommendation
<1>6. recommendations'[i].status = "applied" =>
        recommendations[i] # None /\ recommendations[i].status = "applied"
  BY <1>1, <1>2 DEF TypeOK, Refreshes
<1>7. AppliedHasSaving'
  BY <1>3, <1>4, <1>6 DEF AppliedHasSaving, Inv
<1>8. ASSUME NEW d \in Calls PROVE (HasUpdate(d) /\ HasRead(d) /\ HasWritten(d))'
  <2>1. own[d] # None => req[d].on # i
    BY <1>1 DEF Lockers
  <2>2. req[d] # None => req[d].on \in Ids
    BY Shapes DEF TypeOK
  <2> QED BY <1>3, <1>4, <1>5, <2>1, <2>2 DEF Inv, HasUpdate, HasRead, HasWritten
<1> QED BY <1>4, <1>7, <1>8 DEF Inv, LocksExclusive

(* The figure a call writes is the one in the table, which it locks. *)
LEMMA SetStatusInv ==
  ASSUME TypeOK, Inv, NEW c \in Calls, SetStatus(c) PROVE Inv'
<1>1. req[c] \in Request /\ recommendations[req[c].on] \in Recommendation
  BY Shapes DEF SetStatus, Inv, HasUpdate, HasRead, TypeOK
<1>2. /\ own'[c] = [recommendations[req[c].on] EXCEPT !.status = req[c].status]
      /\ \A d \in Calls \ {c} : own'[d] = own[d] /\ pc'[d] = pc[d]
      /\ pc'[c] \in {"book", "store"}
      /\ UNCHANGED <<recommendations, savings, req, seen>>
  BY DEF SetStatus, Goto, TypeOK, tables
<1>3. own'[c] \in Recommendation /\ own'[c].status = req[c].status
      /\ own'[c].figure = recommendations[req[c].on].figure
  BY <1>1, <1>2, Shapes DEF Recommendation
<1>4. \A d \in Calls : own[d] # None => req[d].on # req[c].on
  BY DEF SetStatus, Lockers
<1>5. LocksExclusive'
  BY <1>2, <1>4 DEF LocksExclusive, Inv
<1>6. ASSUME NEW d \in Calls PROVE (HasUpdate(d) /\ HasRead(d) /\ HasWritten(d))'
  BY <1>2, <1>3, <1>1, Shapes DEF Inv, HasUpdate, HasRead, HasWritten, SetStatus
<1> QED BY <1>2, <1>5, <1>6 DEF Inv, AppliedHasSaving

(* The status and the saving of an update are committed together. *)
LEMMA CommitInv ==
  ASSUME TypeOK, Inv, NEW c \in Calls, Commit(c) PROVE Inv'
<1>1. /\ req[c] \in Request /\ seen[c] \in Recommendation /\ own[c] \in Recommendation
      /\ own[c].status = req[c].status
  BY DEF Commit, Inv, HasUpdate, HasRead, HasWritten, TypeOK
<1>2. DEFINE i == req[c].on
<1>3. i \in Ids
  BY <1>1, Shapes
<1>4. /\ recommendations'[i] = own[c] /\ savings'[i] = Booked(c)
      /\ \A x \in Ids : x # i => /\ recommendations'[x] = recommendations[x]
                                 /\ savings'[x] = savings[x]
  BY <1>3 DEF Commit, TypeOK
<1>5. \A d \in Calls \ {c} : pc'[d] = pc[d] /\ req'[d] = req[d] /\ seen'[d] = seen[d]
                             /\ own'[d] = own[d]
  BY DEF TypeOK, Commit, EndCall, Goto
<1>6. pc'[c] = "idle" /\ own'[c] = None
  BY DEF TypeOK, Commit, EndCall, Goto
<1>7. ASSUME NEW d \in Calls \ {c} PROVE (HasUpdate(d) /\ HasRead(d) /\ HasWritten(d))'
  <2>1. own[d] # None => req[d].on # i
    BY <1>1, Shapes DEF Inv, LocksExclusive
  <2>2. req[d] # None => req[d].on \in Ids
    BY Shapes DEF TypeOK
  <2> QED BY <1>1, <1>4, <1>5, <2>1, <2>2, Shapes DEF Inv, HasUpdate, HasRead, HasWritten
<1>8. req[c].status = "applied" => Booked(c) # None
  BY <1>1, Shapes DEF Booked
<1>9. AppliedHasSaving'
  BY <1>1, <1>3, <1>4, <1>8 DEF AppliedHasSaving, Inv
<1> QED BY <1>5, <1>6, <1>7, <1>9 DEF Inv, HasUpdate, HasRead, HasWritten, LocksExclusive

LEMMA InvStep == TypeOK /\ Inv /\ [Next]_vars => Inv'
<1> SUFFICES ASSUME TypeOK, Inv, [Next]_vars PROVE Inv'
  OBVIOUS
<1> USE DEF tables, locals, Goto, HasUpdate, HasRead, HasWritten, LocksExclusive,
            AppliedHasSaving
<1>1. CASE Ingest
  BY <1>1 DEF Ingest, Inv
<1>2. ASSUME NEW c \in Calls, Call(c) PROVE Inv'
  BY <1>2 DEF Call, TypeOK, Inv
<1>3. ASSUME NEW c \in Calls, LoadRecords(c) PROVE Inv'
  BY <1>3 DEF LoadRecords, TypeOK, Inv
<1>4. ASSUME NEW c \in Calls, Synced(c) PROVE Inv'
  <2>1. CASE req[c] = None
    BY <1>4, <2>1, ThrowInv DEF Synced, Throw
  <2>2. CASE req[c] # None
    BY <1>4, <2>2 DEF Synced, TypeOK, Inv
  <2> QED BY <2>1, <2>2
<1>5. ASSUME NEW c \in Calls, KeyNotFound(c) PROVE Inv'
  BY <1>5 DEF KeyNotFound, TypeOK, Inv
<1>6. ASSUME NEW c \in Calls, Read(c) PROVE Inv'
  BY <1>6 DEF Read, TypeOK, Inv
<1>7. ASSUME NEW c \in Calls, Book(c) \/ StoreAnswer(c) PROVE Inv'
  BY <1>7 DEF Book, StoreAnswer, TypeOK, Inv
<1>8. CASE UNCHANGED vars
  BY <1>8 DEF vars, Inv
<1> QED
  BY <1>1, <1>2, <1>3, <1>4, <1>5, <1>6, <1>7, <1>8,
     SyncInv, SetStatusInv, CommitInv, ThrowInv
  DEF Next, Step, Fails, Replay, NotFound

(* What a call has read, written and locked is as its next query expects,   *)
(* in every state.                                                          *)
THEOREM Invariance == Spec => [](TypeOK /\ Inv)
<1>1. TypeOK /\ Inv /\ [Next]_vars => (TypeOK /\ Inv)'
  BY TypeStep, InvStep
<1> QED BY InvInit, <1>1, PTL DEF Spec

(* No call brings a row, an answer or its own state out of its type. *)
THEOREM TypeCorrect == Spec => []TypeOK
BY Invariance, PTL

(* An applied recommendation has its saving, whatever calls fail or meet. *)
THEOREM AppliedIsBooked == Spec => []AppliedHasSaving
BY Invariance, PTL DEF Inv

(* No step reopens a decision, or changes its figure or its saving. *)
THEOREM DecisionStays == Spec => DecidedIsFinal
<1>1. TypeOK /\ Inv /\ [Next]_vars =>
        [\A i \in Ids :
           /\ Decided(i) => Decided(i)' /\ recommendations'[i].figure = recommendations[i].figure
           /\ savings[i] # None => savings'[i] = savings[i]]_vars
  <2> SUFFICES ASSUME TypeOK, Inv, Next, NEW i \in Ids
               PROVE  /\ Decided(i) => Decided(i)' /\ recommendations'[i].figure
                                                      = recommendations[i].figure
                      /\ savings[i] # None => savings'[i] = savings[i]
    OBVIOUS
  <2>1. ASSUME NEW c \in Calls, SyncOne(c)
        PROVE  savings' = savings /\ (Decided(i) => recommendations'[i] = recommendations[i])
    BY <2>1 DEF SyncOne, TypeOK, Refreshes, Decided
  <2>2. ASSUME NEW c \in Calls, Commit(c)
        PROVE  /\ Decided(i) => Decided(i)' /\ recommendations'[i].figure
                                               = recommendations[i].figure
               /\ savings[i] # None => savings'[i] = savings[i]
    <3>1. /\ req[c] \in Request /\ own[c] \in Recommendation
          /\ own[c].status = req[c].status
          /\ own[c].figure = recommendations[req[c].on].figure
      BY <2>2 DEF Commit, Inv, HasUpdate, HasWritten, TypeOK
    <3>2. /\ recommendations'[i] = IF i = req[c].on THEN own[c] ELSE recommendations[i]
          /\ savings'[i] = IF i = req[c].on THEN Booked(c) ELSE savings[i]
      BY <2>2, <3>1, Shapes DEF Commit, TypeOK
    <3> QED BY <3>1, <3>2, Shapes DEF Booked, Decided, Decision
  <2>3. ASSUME ~ \E c \in Calls : SyncOne(c) \/ Commit(c)
        PROVE  UNCHANGED <<recommendations, savings>>
    BY <2>3 DEF Next, Step, Ingest, Call, LoadRecords, Synced, Replay, KeyNotFound, Read,
      NotFound, SetStatus, Book, StoreAnswer, Fails, Throw, tables
  <2> QED BY <2>1, <2>2, <2>3 DEF Decided
<1> QED BY Invariance, <1>1, PTL DEF Spec, DecidedIsFinal
=============================================================================
