---------------------------- MODULE MCCloudAccess ----------------------------
(* An instance of CloudAccess for TLC: two tenants in one AWS account, one  *)
(* of which registers a second time with another role and another export,   *)
(* Azure with and without an export, GCP, a body that is refused and one    *)
(* that only the probe finds wrong.                                         *)
EXTENDS CloudAccess

CONSTANTS t1, t2

Account(name) == [isPath |-> FALSE, of |-> <<name>>]

RoleOf(path, name) ==
  [kind |-> "role", account |-> Account("acme"), path |-> path, of |-> name]

App == [kind |-> "app", of |-> "costalyx-app"]
Pool == [kind |-> "pool", of |-> "pool", provider |-> "main"]
Subscription(isPath) ==
  [isPath |-> isPath,
   of |-> IF isPath THEN <<"subscriptions", "sub">> ELSE <<"sub">>]

Uri(kind, place, path) == [kind |-> kind, place |-> place, path |-> path, marks |-> {}]
Cur(path) == Uri("s3", <<"cur">>, path)
Blob == Uri("blob", <<"container">>, <<"exports">>)
Table == Uri("bigquery", <<"project", "dataset", "table">>, <<>>)
Signed == [Blob EXCEPT !.marks = {"query"}]

Body(tenant, provider, account, principal, export) ==
  [tenant |-> tenant, provider |-> provider, account |-> account, mode |-> provider,
   label |-> {}, principal |-> principal, export |-> export]

MCRegistrations == {
  Body(t1, "aws", Account("acme"), RoleOf(FALSE, "billing"), Cur(<<"a">>)),
  Body(t1, "aws", Account("acme"), RoleOf(TRUE, NoName), Cur(<<>>)),
  Body(t2, "aws", Account("acme"), RoleOf(FALSE, "billing"), Cur(<<"b">>)),
  Body(t1, "azure", Subscription(FALSE), App, Blob),
  Body(t1, "azure", Subscription(FALSE), Pool, None),
  Body(t2, "azure", Subscription(TRUE), App, Cur(<<"a">>)),
  Body(t2, "azure", Subscription(TRUE), App, Blob),
  Body(t1, "gcp", Account("billing"), Pool, Table),
  Body(t2, "azure", Subscription(TRUE), App, Signed) }

Broker == [account |-> "costalyx", of |-> "broker"]
Root == [account |-> "costalyx", of |-> "root"]
Self == [aws |-> Broker, azure |-> "costalyx-app", gcp |-> "pool"]

Environment(broker, live) ==
  [broker |-> broker, live |-> live, mocks |-> FALSE, self |-> Self]

MCEnvironments == {
  Environment(Broker, TRUE), Environment(Root, TRUE), Environment(None, FALSE),
  Environment(Malformed, TRUE) }

File(place, path) == [place |-> place, path |-> path]

MCObjects == {
  File(<<"cur">>, <<"a", "x">>), File(<<"cur">>, <<"b">>),
  File(<<"container">>, <<"exports", "1">>), File(<<"project", "dataset", "table">>, <<>>) }

MCPieces == {"a", "b", "x", "exports", "1"}
=============================================================================
