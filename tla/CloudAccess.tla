----------------------------- MODULE CloudAccess -----------------------------
(***************************************************************************)
(* How access to a customer's billing export comes about. An admin         *)
(* registers a connection and loads its onboarding guide; the customer     *)
(* deploys a copy of the guide in the cloud account, at once or much       *)
(* later; validation probes the export with the runtime's own identity,    *)
(* and so does ingestion. The operator changes the runtime's environment,  *)
(* consults the readiness page and may run a preflight of the probe from   *)
(* a shell. The four parts name what they need of the cloud separately.    *)
(*                                                                         *)
(* A handler is one step: CloudConnections has their interleavings. A      *)
(* hash is the tuple it is taken of, a URI what the parsers find in it.    *)
(***************************************************************************)
EXTENDS Naturals, Sequences, FiniteSets

CONSTANTS
  Registrations,  \* bodies of POST /cloud-connections, with the tenant's id
  Environments,   \* what a runtime may be started with
  Objects,        \* files of S3 and Blob exports, and rows of tables
  Pieces,         \* pieces of the text of a path
  DefaultRole, NoName,
  Malformed,      \* a broker principal that is not an IAM ARN
  MaxRegistrations, MaxGuides, MaxDeployments, MaxReconfigurations,  \* bounds
  None

ASSUME ObjectsAssumption == \A o \in Objects : o.path \in Seq(Pieces)

ASSUME RegistrationsAssumption ==
  \A r \in Registrations :
    /\ r.provider \in {"aws", "azure", "gcp"}
    /\ {"tenant", "provider", "account", "mode", "principal", "export"} \subseteq DOMAIN r

VARIABLES
  connections, \* table cloud_connections, None where there is no row
  guides,      \* the copy of a connection's guide that the customer holds
  cloud,       \* roles, role assignments and IAM bindings of the customers
  objects,     \* what the exports hold
  env,         \* the environment of the API process
  registered,  \* history: <<id, billing export>> of every registration
  used         \* registrations, guides, deployments, reconfigurations so far

vars == <<connections, guides, cloud, objects, env, registered, used>>

-----------------------------------------------------------------------------
(* Connections. *)

StableId(r) == <<r.tenant, r.provider, r.account>>

Ids == {StableId(r) : r \in Registrations}

(* buildCloudConnectionExternalId *)
ExternalId(c) == <<c.tenant, c.id>>

Connection(id, r) ==
  [id |-> id, tenant |-> r.tenant, provider |-> r.provider, account |-> r.account,
   mode |-> r.mode, principal |-> r.principal, export |-> r.export,
   status |-> "pending_validation", code |-> None]

KindOfExport == [aws |-> "s3", azure |-> "blob", gcp |-> "bigquery"]

KindOfPrincipal == [aws |-> "role", azure |-> "app", gcp |-> "pool"]

(* parseS3Uri, parseAzureBlobUri, parseBigQueryUri: the bucket, container  *)
(* or table and the path in it. Only the first accepts a query.            *)
Location(provider, uri) ==
  IF /\ uri # None
     /\ uri.kind = KindOfExport[provider] /\ uri.place # None
     /\ provider = "aws" \/ "query" \notin uri.marks
  THEN [place |-> uri.place, path |-> uri.path]
  ELSE None

(* findCloudConnectionSecretMaterial: a value, decoded or not, or the name *)
(* of a query parameter looks like a secret; an export has a query at all. *)
HasSecretMaterial(r) ==
  \/ r.label \cap {"secretValue", "encodedSecret", "secretQuery"} # {}
  \/ /\ r.export # None
     /\ r.export.marks \cap {"secretValue", "encodedSecret", "query", "hash"} # {}

(* validateCloudConnectionShape *)
ShapeIsValid(c) ==
  c.mode = c.provider /\ c.principal.kind = KindOfPrincipal[c.provider]

-----------------------------------------------------------------------------
(* Guides: the status, the IAM roles an AWS customer can make from it, and *)
(* the role assignments or IAM bindings it asks for.                       *)

(* Mutant of AzureScope: the account as it is written. *)
AzureScopeAsWritten(account) == account.of

(* azureScope: a plain subscription id is completed. *)
AzureScope(account) ==
  IF account.isPath THEN account.of ELSE <<"subscriptions">> \o account.of

(* gcpPrincipalSet: the pool of a provider. *)
PrincipalSet(principal) == principal.of

(* The condition on the listed prefix is left out for a whole bucket. *)
Statement(action, bucket, like) ==
  [action |-> action, bucket |-> bucket, like |-> like]

TrustPolicy(broker, externalId) == [broker |-> broker, externalId |-> externalId]

(* Mutant of CurReadPolicy: the objects of the whole bucket. *)
CurReadPolicyOfBucket(loc) ==
  {Statement("s3:ListBucket", loc.place, {p \in {loc.path} : p # <<>>}),
   Statement("s3:GetObject", loc.place, {})}

(* buildAwsCurReadPolicy *)
CurReadPolicy(loc) ==
  {Statement("s3:ListBucket", loc.place, {p \in {loc.path} : p # <<>>}),
   Statement("s3:GetObject", loc.place, {p \in {loc.path} : p # <<>>})}

(* customerRoleName: the last segment of the role's path, if it can be the *)
(* name of a role.                                                         *)
RoleName(principal) ==
  IF principal.kind = "role" /\ principal.of # NoName THEN principal.of
  ELSE DefaultRole

(* A role that is created without a path, in the account it is created in. *)
RoleArn(account, name) ==
  [kind |-> "role", account |-> account, path |-> FALSE, of |-> name]

Role(arn, trust, policy) == [arn |-> arn, trust |-> trust, policy |-> policy]

CloudFormationRole(c, broker, loc) ==
  Role(RoleArn(c.account, RoleName(c.principal)),
       TrustPolicy(broker, ExternalId(c)),
       IF loc.path # <<>>
       THEN {Statement("s3:ListBucket", loc.place, {loc.path}),
             Statement("s3:GetObject", loc.place, {loc.path})}
       ELSE {Statement("s3:ListBucket", loc.place, {}),
             Statement("s3:GetObject", loc.place, {})})

TerraformRole(c, broker, loc) ==
  LET like == {p \in {loc.path} : p # <<>>}
  IN  Role(RoleArn(c.account, RoleName(c.principal)),
           TrustPolicy(broker, ExternalId(c)),
           {Statement(a, loc.place, like) : a \in {"s3:ListBucket", "s3:GetObject"}})

(* The role that was registered, if it can be made in the account, made by *)
(* hand from the two policies.                                             *)
PolicyRole(c, trust, policy) ==
  Role([RoleArn(c.account, RoleName(c.principal)) EXCEPT
          !.path = c.principal.kind = "role" /\ c.principal.path], trust, policy)

Guide(status, roles, grants) ==
  [status |-> status, roles |-> roles, grants |-> grants]

AwsOnboarding(c, broker) ==
  LET loc    == Location("aws", c.export)
      policy == IF loc = None THEN {} ELSE CurReadPolicy(loc)
      byHand == PolicyRole(c, TrustPolicy(broker, ExternalId(c)), policy)
  IN  CASE broker = None      -> Guide("broker_principal_missing", {}, {})
        [] broker = Malformed -> Guide("broker_principal_invalid", {}, {})
        [] broker \notin {None, Malformed} /\ loc = None ->
             Guide("billing_export_missing", {byHand}, {})
        [] broker \notin {None, Malformed} /\ loc # None ->
             Guide("ready",
                   {byHand, CloudFormationRole(c, broker, loc),
                    TerraformRole(c, broker, loc)}, {})

Grant(role, principal, on) == [role |-> role, principal |-> principal, on |-> on]

(* The storage role is asked for on the container of the export. *)
AzureOnboarding(c) ==
  LET loc == Location("azure", c.export)
  IN  Guide("ready", {},
        {Grant("Reader", c.principal.of, AzureScope(c.account)),
         Grant("Cost Management Reader", c.principal.of, AzureScope(c.account))}
        \cup {Grant("Storage Blob Data Reader", c.principal.of, l.place) :
                l \in {loc} \ {None}})

(* A table is <<project, dataset, name>>. *)
GcpOnboarding(c) ==
  LET loc == Location("gcp", c.export)
      member == PrincipalSet(c.principal)
  IN  IF loc = None THEN Guide("billing_export_missing", {}, {})
      ELSE Guide("ready", {},
             {Grant("roles/billing.viewer", member, c.account),
              Grant("roles/bigquery.dataViewer", member, SubSeq(loc.place, 1, 2)),
              Grant("roles/bigquery.jobUser", member, SubSeq(loc.place, 1, 1))})

(* buildCloudConnectionOnboarding *)
Onboarding(c, broker) ==
  CASE c.provider = "aws"   -> AwsOnboarding(c, broker)
    [] c.provider = "azure" -> AzureOnboarding(c)
    [] c.provider = "gcp"   -> GcpOnboarding(c)

-----------------------------------------------------------------------------
(* The clouds, as far as the code relies on them. *)

IsPrefix(p, q) == \E n \in 0 .. Len(q) : p = SubSeq(q, 1, n)

(* A trust in an account's root is one in every principal of the account. *)
Trusts(trust, self, externalId) ==
  /\ trust.externalId = externalId
  /\ \/ trust.broker = self
     \/ trust.broker.of = "root" /\ trust.broker.account = self.account

(* The roles that STS lets the identity assume: at most one has the ARN. *)
Assumable(cl, arn, self, externalId) ==
  {r \in cl.roles : r.arn = arn /\ Trusts(r.trust, self, externalId)}

Allows(role, action, bucket, path) ==
  \E s \in role.policy :
    /\ s.action = action /\ s.bucket = bucket
    /\ s.like = {} \/ \E p \in s.like : IsPrefix(p, path)

Holds(cl, principal, role, on) == Grant(role, principal, on) \in cl.grants

Under(objs, loc) ==
  {o \in objs : o.place = loc.place /\ IsPrefix(loc.path, o.path)}

(* The identity may query a table's data. *)
MayQuery(cl, self, table) ==
  /\ Holds(cl, self, "roles/bigquery.dataViewer", SubSeq(table, 1, 2))
  /\ Holds(cl, self, "roles/bigquery.jobUser", SubSeq(table, 1, 1))

MakeRole(cl, role) ==
  [cl EXCEPT !.roles = {r \in @ : r.arn # role.arn} \cup {role}]

-----------------------------------------------------------------------------
(* Probes. The code of the result; a call to the cloud may also fail.      *)

AwsProbe(c, e, cl, objs) ==
  LET loc   == Location("aws", c.export)
      roles == Assumable(cl, c.principal, e.self.aws, ExternalId(c))
  IN  IF loc = None THEN "aws_billing_export_required"
      ELSE IF roles = {} THEN "aws_probe_failed"
      ELSE IF c.principal.account # c.account THEN "aws_account_mismatch"
      ELSE IF ~\E r \in roles : Allows(r, "s3:ListBucket", loc.place, loc.path)
        THEN "aws_probe_failed"
      ELSE IF Under(objs, loc) = {} THEN "aws_billing_export_empty"
      ELSE "aws_probe_passed"

AzureBillingScope(account) ==
  IF account.isPath THEN account.of ELSE <<"subscriptions">> \o account.of

AzureProbe(c, e, cl, objs) ==
  LET loc == Location("azure", c.export)
  IN  IF loc = None THEN "azure_billing_export_required"
      ELSE IF ~Holds(cl, e.self.azure, "Cost Management Reader", AzureBillingScope(c.account))
        THEN "azure_probe_failed"
      ELSE IF ~Holds(cl, e.self.azure, "Storage Blob Data Reader", loc.place)
        THEN "azure_probe_failed"
      ELSE IF Under(objs, loc) = {} THEN "azure_billing_export_empty"
      ELSE "azure_probe_passed"

GcpProbe(c, e, cl, objs) ==
  LET loc == Location("gcp", c.export)
  IN  IF loc = None THEN "gcp_billing_export_required"
      ELSE IF ~MayQuery(cl, e.self.gcp, loc.place) THEN "gcp_probe_failed"
      ELSE IF Under(objs, loc) = {} THEN "gcp_billing_export_empty"
      ELSE "gcp_probe_passed"

(* probeCloudConnection *)
Probe(c, e, cl, objs) ==
  CASE ~ShapeIsValid(c) -> "shape_invalid"
    [] ShapeIsValid(c) /\ ~e.live -> "live_probes_disabled"
    [] ShapeIsValid(c) /\ e.live /\ c.provider = "aws"   -> AwsProbe(c, e, cl, objs)
    [] ShapeIsValid(c) /\ e.live /\ c.provider = "azure" -> AzureProbe(c, e, cl, objs)
    [] ShapeIsValid(c) /\ e.live /\ c.provider = "gcp"   -> GcpProbe(c, e, cl, objs)

Passed == {"aws_probe_passed", "azure_probe_passed", "gcp_probe_passed"}

FailedOf == [aws |-> "aws_probe_failed", azure |-> "azure_probe_failed",
             gcp |-> "gcp_probe_failed"]

(* No request has been made by the time these are returned. *)
Unasked == {"shape_invalid", "live_probes_disabled", "aws_billing_export_required",
            "azure_billing_export_required", "gcp_billing_export_required"}

StatusOf(code) ==
  CASE code \in Passed -> "validated"
    [] code = "live_probes_disabled" -> "ready_for_live_probe"
    [] OTHER -> "validation_failed"

-----------------------------------------------------------------------------
(* Preflights: the connection of the values of an operator's shell, whose  *)
(* id may be among them, probed live whatever the environment says.        *)

(* Mutant of PreflightId: the seed has no provider. *)
PreflightIdOfAccount(r, given) ==
  IF given # None THEN given ELSE <<r.tenant, r.account>>

PreflightId(r, given) == IF given # None THEN given ELSE StableId(r)

(* readAwsLiveProbePreflightInput: all four values are required. *)
PreflightAccepts(r) == r.export # None

AwsPreflight(r, given) == Connection(PreflightId(r, given), [r EXCEPT !.mode = "aws"])

AzurePreflight(r, given) == Connection(PreflightId(r, given), [r EXCEPT !.mode = "azure"])

GcpPreflight(r, given) == Connection(PreflightId(r, given), [r EXCEPT !.mode = "gcp"])

PreflightConnection(r, given) ==
  CASE r.provider = "aws"   -> AwsPreflight(r, given)
    [] r.provider = "azure" -> AzurePreflight(r, given)
    [] r.provider = "gcp"   -> GcpPreflight(r, given)

Preflight(r, given, e, cl, objs) ==
  Probe(PreflightConnection(r, given), [e EXCEPT !.live = TRUE], cl, objs)

-----------------------------------------------------------------------------
(* The readiness page: the checks that block. *)

HasConfigured(broker) == broker # None

Blockers(e) ==
  {x \in {"use-mocks", "aws-broker-principal", "live-cloud-probes"} :
     CASE x = "use-mocks" -> e.mocks
       [] x = "aws-broker-principal" -> ~HasConfigured(e.broker)
       [] x = "live-cloud-probes" -> ~e.live}

-----------------------------------------------------------------------------
(* Ingestion of a connection's own export: the objects it could read.      *)

ReadAwsS3(c, e, cl, objs) ==
  LET loc   == Location("aws", c.export)
      roles == {r \in Assumable(cl, c.principal, e.self.aws, ExternalId(c)) :
                  c.principal.account = c.account}
  IN  {o \in objs : loc # None /\ o \in Under(objs, loc) /\ \E r \in roles :
         /\ Allows(r, "s3:ListBucket", loc.place, loc.path)
         /\ Allows(r, "s3:GetObject", loc.place, o.path)}

ReadAzureBlob(c, e, cl, objs) ==
  LET loc == Location("azure", c.export)
  IN  {o \in objs : loc # None /\ o \in Under(objs, loc) /\
         Holds(cl, e.self.azure, "Storage Blob Data Reader", loc.place)}

ReadGcpBigQuery(c, e, cl, objs) ==
  LET loc == Location("gcp", c.export)
  IN  {o \in objs : loc # None /\ o \in Under(objs, loc) /\
         MayQuery(cl, e.self.gcp, loc.place)}

Readable(c, e, cl, objs) ==
  CASE c.provider = "aws"   -> ReadAwsS3(c, e, cl, objs)
    [] c.provider = "azure" -> ReadAzureBlob(c, e, cl, objs)
    [] c.provider = "gcp"   -> ReadGcpBigQuery(c, e, cl, objs)

(* What the assumed role lets an AWS connection get, within the export the *)
(* request names or not.                                                   *)
Reach(c, e, cl, objs) ==
  {o \in objs : \E r \in Assumable(cl, c.principal, e.self.aws, ExternalId(c)) :
     Allows(r, "s3:GetObject", o.place, o.path)}

-----------------------------------------------------------------------------
Use(what) == used' = [used EXCEPT ![what] = @ + 1]

(* createCloudConnection: ON CONFLICT the row keeps its id. *)
Register(r) ==
  /\ used.registrations < MaxRegistrations
  /\ ~HasSecretMaterial(r)
  /\ connections' = [connections EXCEPT ![StableId(r)] = Connection(StableId(r), r)]
  /\ registered' = registered \cup {<<StableId(r), r.export>>}
  /\ Use("registrations")
  /\ UNCHANGED <<guides, cloud, objects, env>>

(* getCloudConnectionOnboarding: the customer is given a copy. *)
LoadOnboarding(id) ==
  /\ used.guides < MaxGuides
  /\ connections[id] # None
  /\ guides' = [guides EXCEPT ![id] = Onboarding(connections[id], env.broker)]
  /\ Use("guides")
  /\ UNCHANGED <<connections, cloud, objects, env, registered>>

(* The customer makes one of the roles, in place of one with that name, or *)
(* grants what the guide asks for.                                         *)
Deploy(id) ==
  /\ used.deployments < MaxDeployments
  /\ guides[id] # None
  /\ \/ \E role \in guides[id].roles : cloud' = MakeRole(cloud, role)
     \/ /\ guides[id].grants # {}
        /\ cloud' = [cloud EXCEPT !.grants = @ \cup guides[id].grants]
  /\ Use("deployments")
  /\ UNCHANGED <<connections, guides, objects, env, registered>>

(* The provider writes an export. *)
Deliver(o) ==
  /\ objects' = objects \cup {o}
  /\ o \notin objects
  /\ UNCHANGED <<connections, guides, cloud, env, registered, used>>

(* validateCloudConnection *)
Validate(id) ==
  /\ connections[id] # None
  /\ LET c == connections[id]
         code == Probe(c, env, cloud, objects)
     IN  \E answer \in {code} \cup (IF code \in Unasked THEN {} ELSE {FailedOf[c.provider]}) :
           connections' = [connections EXCEPT ![id].status = StatusOf(answer),
                                              ![id].code = answer]
  /\ UNCHANGED <<guides, cloud, objects, env, registered, used>>

(* The API is started again with another environment. *)
Reconfigure ==
  /\ used.reconfigurations < MaxReconfigurations
  /\ env' \in Environments \ {env}
  /\ Use("reconfigurations")
  /\ UNCHANGED <<connections, guides, cloud, objects, registered>>

Init ==
  /\ connections = [id \in Ids |-> None]
  /\ guides = [id \in Ids |-> None]
  /\ cloud = [roles |-> {}, grants |-> {}]
  /\ objects = {}
  /\ env \in Environments
  /\ registered = {}
  /\ used = [registrations |-> 0, guides |-> 0, deployments |-> 0, reconfigurations |-> 0]

Next ==
  \/ \E r \in Registrations : Register(r)
  \/ \E id \in Ids : LoadOnboarding(id)
  \/ \E id \in Ids : Deploy(id)
  \/ \E id \in Ids : Validate(id)
  \/ \E o \in Objects : Deliver(o)
  \/ Reconfigure

Spec == Init /\ [][Next]_vars

-----------------------------------------------------------------------------
(* Every variable has its type; a row is a registration's, under its id.   *)
TypeOK ==
  /\ connections = [id \in Ids |-> connections[id]]
  /\ \A id \in Ids : connections[id] # None =>
       \E r \in Registrations :
         /\ StableId(r) = id
         /\ connections[id] = [Connection(id, r) EXCEPT
              !.status = connections[id].status, !.code = connections[id].code]
  /\ guides = [id \in Ids |-> guides[id]]
  /\ cloud = [roles |-> cloud.roles, grants |-> cloud.grants]
  /\ objects \subseteq Objects
  /\ env \in Environments

(* The identity the guide makes the customer trust is the runtime's: the   *)
(* broker principal, for AWS, and the registered principal otherwise.      *)
NamesRuntime(c, e) ==
  CASE c.provider = "aws"   -> /\ e.broker \notin {None, Malformed}
                               /\ Trusts(TrustPolicy(e.broker, None), e.self.aws, None)
    [] c.provider = "azure" -> c.principal.of = e.self.azure
    [] c.provider = "gcp"   -> PrincipalSet(c.principal) = e.self.gcp

(* The connection and the cloud once the customer has deployed the guide   *)
(* in one of its forms and returned the ARN of the role that was made.     *)
Followed(c, guide) ==
  IF c.provider = "aws"
  THEN {[by |-> [c EXCEPT !.principal = role.arn], cloud |-> MakeRole(cloud, role)] :
          role \in guide.roles}
  ELSE {[by |-> c, cloud |-> [cloud EXCEPT !.grants = @ \cup guide.grants]]}

(* A customer who follows a guide that calls itself ready, in any of its   *)
(* forms and whatever is in the cloud already, has given enough: if the    *)
(* readiness page names no blocker and the guide names the runtime's own   *)
(* identity, validation passes once the export holds anything, and all of  *)
(* it can be ingested. The guide (cloud-connection-onboarding.ts), the     *)
(* probe (cloud-connection-probe.ts), the reader (billing-source-reader)   *)
(* and the page state separately what each needs.                          *)
GuideSuffices ==
  \A id \in Ids : connections[id] # None /\ Blockers(env) = {} =>
    LET c     == connections[id]
        loc   == Location(c.provider, c.export)
        guide == Onboarding(c, env.broker)
    IN  /\ guide.status # "broker_principal_missing"
        /\ guide.status = "ready" /\ ShapeIsValid(c) /\ loc # None /\ NamesRuntime(c, env)
           => \A then \in Followed(c, guide) :
                /\ Under(objects, loc) # {} =>
                     Probe(then.by, env, then.cloud, objects) \in Passed
                /\ Readable(then.by, env, then.cloud, objects) = Under(objects, loc)

(* Whatever guides, old or new, of whatever tenants have been deployed and *)
(* whichever role a connection names, it reaches nothing outside an export *)
(* that was registered under its own id: the external ID of the trust      *)
(* keeps connections apart, and the policies name the export's prefix.     *)
ReachIsRegistered ==
  \A id \in Ids : connections[id] # None /\ connections[id].provider = "aws" =>
    \A o \in Reach(connections[id], env, cloud, Objects) :
      \E uri \in {reg[2] : reg \in {x \in registered : x[1] = id}} :
        /\ Location("aws", uri) # None
        /\ o \in Under(Objects, Location("aws", uri))

(* A preflight answers what validation will answer once the same values    *)
(* are registered and live probes are enabled, in any state of the cloud,  *)
(* whether the id of an existing connection is given or derived: the two   *)
(* build the connection and its external ID in separate places.            *)
PreflightForetells ==
  \A r \in Registrations :
    PreflightAccepts(r) /\ ~HasSecretMaterial(r) /\ r.mode = r.provider =>
      \A given \in {None, StableId(r)} :
        Preflight(r, given, env, cloud, objects) =
          Probe(Connection(StableId(r), r), [env EXCEPT !.live = TRUE], cloud, objects)
=============================================================================
