----------------------------- MODULE AuditChain -----------------------------
(***************************************************************************)
(* The hash-chained audit log: appendAudit as every PostgreSQL repository  *)
(* has it. A transaction that changed something SELECTs the hash of its    *)
(* tenant's latest entry, stamps and hashes its own with it and INSERTs    *)
(* it; validateCloudConnection does so twice, for the run it records and   *)
(* for itself. Then it COMMITs. Nothing locks the end of the chain in      *)
(* between.                                                                *)
(*                                                                         *)
(* A hash covers the whole entry, its random id included, so an entry's id *)
(* stands for its hash. Timestamps are those of one clock: the API and the *)
(* worker run on one host.                                                 *)
(***************************************************************************)
EXTENDS Naturals, FiniteSets

CONSTANTS
  Txns,      \* transactions that can be open at once
  Owners,    \* tenants, each with a chain of its own
  EntryIds,  \* ids of entries, in the order the database sorts uuids
  MaxClock,  \* bound: milliseconds that pass
  NoEntry    \* no previous entry

ASSUME EntryIdsAssumption == EntryIds \subseteq Nat /\ NoEntry \notin EntryIds

ASSUME ClockAssumption == MaxClock \in Nat

VARIABLES
  log,    \* table audit_log, committed rows
  clock,  \* wall clock, in milliseconds
  query,  \* the query each transaction sends next
  tail,   \* what its SELECT returned: tenant, hash of the latest entry
  mine    \* the rows it inserted and has not committed

chainVars == <<log, clock, query, tail, mine>>

(* The ids committed when the SELECT ran, "knew", are history. *)
Tail == [tenant : Owners, prev : EntryIds \cup {NoEntry}, knew : SUBSET EntryIds]

Entry == [id : EntryIds, at : 0 .. MaxClock, tail : Tail]

ChainTypeOK ==
  /\ log \subseteq Entry
  /\ clock \in 0 .. MaxClock
  /\ query \in [Txns -> {"select", "insert", "commit"}]
  /\ tail \in [Txns -> Tail \cup {NoEntry}]
  /\ mine \in [Txns -> SUBSET Entry]

ChainInit ==
  /\ log = {}
  /\ clock = 0
  /\ query = [c \in Txns |-> "select"]
  /\ tail = [c \in Txns |-> NoEntry]
  /\ mine = [c \in Txns |-> {}]
-----------------------------------------------------------------------------
IdsOf(entries) == {e.id : e \in entries}

(* The rows a query of transaction c sees: what is committed, and its own. *)
Seen(c) == log \cup mine[c]

ChainOf(c, t) == {e \in Seen(c) : e.tail.tenant = t}

(* ORDER BY created_at, id. *)
UpTo(e, f) == e.at < f.at \/ (e.at = f.at /\ e.id <= f.id)

(* Mutant of Latest: ORDER BY id. *)
LatestById(c, t, e) == e \in ChainOf(c, t) /\ \A f \in ChainOf(c, t) : f.id <= e.id

(* ORDER BY created_at DESC, id DESC LIMIT 1, of the tenant's rows. *)
Latest(c, t, e) == e \in ChainOf(c, t) /\ \A f \in ChainOf(c, t) : UpTo(f, e)

Holds(c, t, prev) ==
  tail' = [tail EXCEPT ![c] = [tenant |-> t, prev |-> prev, knew |-> IdsOf(Seen(c))]]

Find(c, t) ==
  /\ \/ ChainOf(c, t) = {} /\ Holds(c, t, NoEntry)
     \/ \E e \in Seen(c) : Latest(c, t, e) /\ Holds(c, t, e.id)
  /\ query' = [query EXCEPT ![c] = "insert"]
  /\ UNCHANGED <<log, clock, mine>>

(* The operation has written its tables; appendAudit reads the chain's end. *)
Select(c) ==
  /\ query[c] = "select"
  /\ \E t \in Owners : Find(c, t)

(* validateCloudConnection has recorded its run, and appends its own entry. *)
SelectAgain(c) ==
  /\ query[c] = "commit" /\ Cardinality(mine[c]) = 1
  /\ Find(c, tail[c].tenant)

(* randomUUID never gives an id that is in use. *)
UnusedId(i) == \A d \in Txns : i \notin IdsOf(Seen(d))

(* The entry is stamped and hashed, then inserted. *)
InsertEntry(c) ==
  /\ query[c] = "insert"
  /\ \E i \in EntryIds :
       /\ UnusedId(i)
       /\ mine' = [mine EXCEPT ![c] =
                     @ \cup {[id |-> i, at |-> clock, tail |-> tail[c]]}]
  /\ query' = [query EXCEPT ![c] = "commit"]
  /\ UNCHANGED <<log, clock, tail>>

EndTxn(c) ==
  /\ query' = [query EXCEPT ![c] = "select"]
  /\ tail' = [tail EXCEPT ![c] = NoEntry]
  /\ mine' = [mine EXCEPT ![c] = {}]
  /\ UNCHANGED clock

CommitEntries(c) ==
  /\ query[c] = "commit"
  /\ log' = log \cup mine[c]
  /\ EndTxn(c)

(* Any later query of the transaction fails, or its process dies. *)
Rollback(c) ==
  /\ query[c] # "select"
  /\ EndTxn(c)
  /\ UNCHANGED log

Tick ==
  /\ clock < MaxClock
  /\ clock' = clock + 1
  /\ UNCHANGED <<log, query, tail, mine>>

ChainNext ==
  \/ \E c \in Txns :
       Select(c) \/ SelectAgain(c) \/ InsertEntry(c) \/ CommitEntries(c) \/ Rollback(c)
  \/ Tick

ChainSpec == ChainInit /\ [][ChainNext]_chainVars
-----------------------------------------------------------------------------
(* Every entry can be verified: the entry whose hash it holds is stored, in *)
(* the same tenant's chain, and not later than it by the clock, although    *)
(* transactions that read the chain's end may still roll back.              *)
PrevIsStored ==
  \A e \in log : e.tail.prev # NoEntry =>
    \E p \in log : p.id = e.tail.prev /\ p.tail.tenant = e.tail.tenant
                     /\ p.at <= e.at

(* Each of two transactions read the chain before the other committed. *)
Overlapped(e, f) == e.id \notin f.tail.knew /\ f.id \notin e.tail.knew

SamePrev(e, f) ==
  e # f /\ e.tail.tenant = f.tail.tenant /\ e.tail.prev = f.tail.prev

(* An entry of the same millisecond as the one it follows, and with the    *)
(* lower id: ordered before it, it is not the latest when it is the last.  *)
Misordered(e) ==
  \E p \in log : p.id = e.tail.prev /\ p.at = e.at /\ e.id < p.id

(* The chain forks only where transactions overlap, or where an entry was   *)
(* misordered by its random id. So operations that run one after another    *)
(* extend one chain, as long as each entry has a millisecond of its own;    *)
(* the two entries of one validation need not have, and then a later        *)
(* operation may fork the chain though nothing overlaps it.                 *)
ForksNeedOverlapOrTie ==
  \A e, f \in log : SamePrev(e, f) => Overlapped(e, f) \/ Misordered(e) \/ Misordered(f)

(***************************************************************************)
(* Why that is so, as an inductive invariant: what a transaction read      *)
(* stays the latest of the entries it knew, whatever commits after.        *)
(***************************************************************************)

(* Ids identify entries, the open transactions' included. *)
IdsUnique ==
  /\ \A e, f \in log : e.id = f.id => e = f
  /\ \A c \in Txns : \A e \in mine[c] :
       /\ e.id \notin IdsOf(log)
       /\ \A d \in Txns : \A f \in mine[d] : f.id = e.id => f = e /\ d = c

(* The previous entry is the latest of the tenant's entries that were known. *)
TailSound(t, entries) ==
  /\ t.knew \subseteq IdsOf(entries)
  /\ t.prev = NoEntry =>
       \A f \in entries : f.tail.tenant = t.tenant => f.id \notin t.knew
  /\ t.prev # NoEntry =>
       \E p \in entries :
         /\ p.id = t.prev /\ p.tail.tenant = t.tenant
         /\ \A f \in entries :
              f.tail.tenant = t.tenant /\ f.id \in t.knew => UpTo(f, p)

TailsSound ==
  /\ \A e \in log : TailSound(e.tail, log)
  /\ \A c \in Txns :
       /\ query[c] = "select" => mine[c] = {}
       /\ query[c] # "select" => tail[c] \in Tail /\ TailSound(tail[c], Seen(c))
       /\ \A e \in mine[c] : TailSound(e.tail, Seen(c))

(* Entries are stamped after the entry they follow, never with one to come. *)
Stamped(entries) ==
  \A e \in entries :
    /\ e.at <= clock
    /\ \A p \in entries : e.tail.prev = p.id => p # e /\ p.at <= e.at

StampsOrdered == Stamped(log) /\ \A c \in Txns : Stamped(Seen(c))

ChainInv == IdsUnique /\ TailsSound /\ StampsOrdered

(* The log is a chain: no two entries follow the same one. *)
ChainIsLinear == \A e, f \in log : ~SamePrev(e, f)
=============================================================================
