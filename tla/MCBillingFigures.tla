--------------------------- MODULE MCBillingFigures ---------------------------
(***************************************************************************)
(* Two providers that use the same account number. AWS charges two         *)
(* services over five days, with a spike of usage on the fourth that is    *)
(* restated, a credit and one incomplete row; GCP two resources of one     *)
(* service, and a row whose text breaks its line. Usage is corrected by    *)
(* negative hours: AWS takes back more of the fifth day than was used, GCP *)
(* more than was used without a commitment on the fourth, and all on the   *)
(* fifth. One listing returns two of the three objects of AWS, of which    *)
(* the first is also read directly; a bucket that is not registered is     *)
(* asked for as well.                                                      *)
(***************************************************************************)
EXTENDS BillingFigures

CONSTANTS u1, u2

MCConnections == [p \in Providers |->
  [account |-> 7, roleAccount |-> 7,
   exportUri |-> [kind |-> IF p = "gcp" THEN "bigquery" ELSE "s3", place |-> p, path |-> <<>>]]]

MCSources ==
  {MCConnections[p].exportUri : p \in Providers}
    \cup {[kind |-> "s3", place |-> "aws", path |-> <<1>>],
          [kind |-> "s3", place |-> "other", path |-> <<>>]}

MCKeys == [p \in Providers |-> IF p = "gcp" THEN {1} ELSE 1..3]

Row(n, resource, service, kind, rate, hours, day) ==
  [c \in Exports!Required \cup {"n"} |->
     CASE c = "n" -> n [] c = "account" -> 7 [] c = "resource" -> resource
       [] c = "service" -> service [] c = "family" -> {"box"}
       [] c = "pricing" -> IF n % 2 = 0 THEN {"committed"} ELSE {"box"}
       [] c = "transaction" -> kind [] c = "rate" -> rate [] c = "hours" -> hours
       [] c = "from" -> <<day, 0>> [] c = "to" -> <<day + 1, 0>>]

Usage == <<1, 4, 1, 2, 30>>
AwsDay(d) == Row(d, "r1", 1, {"usage"}, IF d = 4 THEN 45 ELSE 33, Usage[d], d)
Credit == Row(6, "r1", 1, {"credit"}, -45, 2, 4)
Disk == Row(7, "r2", 2, {"usage"}, 51, 3, 4)
Incomplete == [AwsDay(5) EXCEPT !["hours"] = Missing]
Restated == [AwsDay(4) EXCEPT !["n"] = 10, !["hours"] = 3]
Correction == [AwsDay(5) EXCEPT !["n"] = 12, !["hours"] = -40, !["from"] = <<5, 1>>]
Gcp(d) == [Row(7 + d, "r" \o ToString(d), 3, {}, 39 + d, 3, d) EXCEPT
            !["family"] = {"box", "quote"} \cup (IF d = 4 THEN {"newline"} ELSE {})]

Refund(n, hours, day) ==
  [Row(n, "r3", 3, {}, 30, hours, day) EXCEPT !["from"] = <<day, n>>]

MCDeliveries == [p \in Providers |->
  IF p = "gcp" THEN {{Gcp(2)}, {Gcp(2), Gcp(3)}, {Gcp(4)},
                     {Refund(13, -4, 4), Refund(14, 2, 4)}, {Refund(15, -4, 5), Refund(16, -2, 5)}}
  ELSE {{AwsDay(1), AwsDay(2), AwsDay(3), AwsDay(4)},
        {AwsDay(d) : d \in 1..5}, {AwsDay(5), Correction},
        {AwsDay(1), AwsDay(3), Restated, Credit, Disk},
        {AwsDay(4), Incomplete}, {}}]

MCGroups == [a \in {7} |-> {"g"}]
MCTags == [r \in {"r1", "r2", "r3"} |->
             IF r = "r1" THEN {<<"team", "x">>} ELSE IF r = "r2" THEN {<<"team", "y">>} ELSE {}]
MCDimensions == [d \in {"x"} |-> {[key |-> "team", pattern |-> "x"]}]

Scope(type, ref, resources) ==
  [type |-> type, ref |-> ref, accounts |-> {}, resources |-> resources]
MCScopes == {
  [s \in {u1, u2} |-> IF s = u1 THEN {Scope("dimension", "x", {})}
                      ELSE {Scope("view", "v", {"r2"})}],
  [s \in {u1, u2} |-> IF s = u1 THEN {Scope("account_group", "g", {}), Scope("dimension", "x", {})}
                      ELSE {Scope("view", "v", {"r2"})}]}

MCQueries == {[k \in {} |-> 0], [provider |-> "aws"], [from |-> 3, dimension |-> MCDimensions["x"]]}
MCViews == {[service |-> 1], [provider |-> "gcp", from |-> 3], [dimension |-> MCDimensions["x"]]}
=============================================================================
