--------------------------- MODULE BillingExports ---------------------------
(***************************************************************************)
(* How an export of a cloud provider becomes cost records: which source is *)
(* read and refused, which object is chosen, how its rows are normalized   *)
(* and when two rows are taken for one charge. Texts are taken apart as    *)
(* far as the code looks into them: a text is the set of the words found   *)
(* in it, a CSV value the set of the special characters in it.             *)
(***************************************************************************)
EXTENDS Integers, Sequences, FiniteSets

CONSTANTS
  ListLimit,  \* objects listed of a prefix: 50
  MaxRows,    \* rows queried of a table: 5000
  None

-----------------------------------------------------------------------------
(* Sources. A URI has a kind, a place (a bucket, a container, a table) and *)
(* a path, a sequence of which the registered path must be a prefix.       *)

ProviderOf == [s3 |-> "aws", blob |-> "azure", bigquery |-> "gcp"]

IsPrefix(p, q) == \E n \in 0..Len(q) : p = SubSeq(q, 1, n)

Within(uri, registered) ==
  /\ uri.kind = registered.kind /\ uri.place = registered.place
  /\ uri.kind # "bigquery" => IsPrefix(registered.path, uri.path)

(* A file of the repository needs no connection. An S3 source is also      *)
(* refused if the role that is assumed is of another account.              *)
Refused(provider, uri, connection) ==
  /\ uri.kind # "file"
  /\ \/ provider # ProviderOf[uri.kind]
     \/ connection = None
     \/ ~Within(uri, connection.exportUri)
     \/ uri.kind = "s3" /\ connection.roleAccount # connection.account

-----------------------------------------------------------------------------
(* Objects of a prefix, each with its place in the order of keys, when it  *)
(* was modified, whether it is CSV and whether it is empty.                *)

(* The listing goes by key and is not continued. *)
Listed(objects) ==
  {o \in objects : Cardinality({p \in objects : p.key < o.key}) < ListLimit}

Readable(objects) == {o \in objects : o.isCsv /\ ~o.isEmpty}

Newest(objects) ==
  {o \in objects : \A p \in objects :
     p.modified < o.modified \/ (p.modified = o.modified /\ o.key <= p.key)}

(* Mutant of Resolved: the first by key. *)
FirstListed(objects) ==
  LET readable == Readable(Listed(objects))
  IN  {o \in readable : \A p \in readable : o.key <= p.key}

(* resolveObjectKey, resolveAzureBlobName: none, if nothing can be read. *)
Resolved(objects) == Newest(Readable(Listed(objects)))

(* A path that names an object is read as it is, whatever else is there. *)
Located(objects, uri) ==
  IF uri.path = <<>> THEN Resolved(objects)
  ELSE {o \in objects : IsPrefix(uri.path, <<o.key>>)}

(* The BigQuery rows of the last 90 days, the latest first. Times are *)
(* <<day, hour>>.                                                     *)
StartsLater(s, r) ==
  s["from"][1] > r["from"][1] \/ (s["from"][1] = r["from"][1] /\ s["from"][2] > r["from"][2])

Queried(rows) ==
  {r \in rows : Cardinality({s \in rows : StartsLater(s, r)}) < MaxRows}

-----------------------------------------------------------------------------
(* CSV. Values are quoted when they need it, but lines are split before    *)
(* the quotes are looked at, and a doubled quote is read as none. Here the *)
(* family, a free text, has such characters.                               *)

SplitsLine(value) == "newline" \in value

ReadBack(value) == value \ {"quote"}

-----------------------------------------------------------------------------
(* Rows. A row is a function of its columns; one that lacks a required     *)
(* value, as the rest of a split line does, makes the whole export         *)
(* unreadable.                                                             *)

Required == {"account", "resource", "service", "family", "pricing",
             "transaction", "rate", "hours", "from", "to"}

Unreadable(rows) ==
  \E r \in rows : SplitsLine(r["family"]) \/ \E c \in Required : r[c] = None

Parsed(rows) == {[r EXCEPT !["family"] = ReadBack(@)] : r \in rows}

(* classifyLeaseType of the adapters: the first word that is found. *)
LeaseType(provider, words) ==
  IF words \cap {"spot", "preemptible"} # {} THEN "spot"
  ELSE IF \/ "reserved" \in words
          \/ provider = "gcp" /\ "committed" \in words THEN "reserved"
  ELSE IF \/ provider = "aws" /\ "savingsplan" \in words
          \/ provider = "azure" /\ "savings" \in words THEN "savings_plan"
  ELSE "on_demand"

(* Only AWS knows kinds of line items, the others keep the text. *)
TransactionType(provider, words) ==
  IF provider # "aws" THEN IF words = {} THEN {"usage"} ELSE words
  ELSE IF "recurring" \in words THEN {"recurring_charge"}
  ELSE IF "credit" \in words THEN {"credit"}
  ELSE IF "tax" \in words THEN {"tax"}
  ELSE {"usage"}

(* What tells one charge from another: not the meter, for Azure, and not *)
(* the SKU, for GCP.                                                     *)
Fingerprint(provider, row) ==
  <<provider, row["account"], row["resource"],
    IF provider = "aws" THEN row["family"] ELSE row["pricing"],
    TransactionType(provider, row["transaction"]), row["from"], row["to"]>>

Normalize(provider, row) ==
  LET lease == LeaseType(provider,
                 CASE provider = "aws" -> row["family"]
                   [] provider = "azure" -> row["pricing"]
                   [] provider = "gcp" -> row["pricing"] \cup row["family"])
  IN  [id |-> Fingerprint(provider, row), provider |-> provider,
       account |-> row["account"], resource |-> row["resource"],
       service |-> row["service"], family |-> row["family"],
       lease |-> lease, isEstimate |-> lease = "spot",
       transaction |-> TransactionType(provider, row["transaction"]),
       rate |-> row["rate"], hours |-> row["hours"],
       from |-> row["from"], to |-> row["to"]]
=============================================================================
