-------------------------- MODULE CloudAccessProofs --------------------------
(***************************************************************************)
(* Proofs about CloudAccess, for any number of tenants, connections,       *)
(* guides and roles. The invariant follows a role back to the guide it was *)
(* made from, and the guide to the registration it was computed from.      *)
(***************************************************************************)
EXTENDS CloudAccess, TLAPS

(* A role can have been made from a guide of a registered connection: its  *)
(* trust has the connection's external ID, and what it lets be read is     *)
(* what one export registered under the id has.                            *)
Covered(s, id) ==
  \E uri \in {reg[2] : reg \in {x \in registered : x[1] = id}} :
    LET loc == Location("aws", uri)
    IN  /\ loc # None
        /\ s.bucket = loc.place
        /\ s.like = {p \in {loc.path} : p # <<>>}

FromGuide(role) ==
  \E id \in Ids :
    /\ role.trust.externalId = <<id[1], id>>
    /\ \A s \in role.policy : Covered(s, id)

(* The rows are what was registered under their ids.                       *)
RowsAreRegistered ==
  \A id \in Ids : connections[id] # None =>
    /\ connections[id].id = id
    /\ connections[id].tenant = id[1]
    /\ <<id, connections[id].export>> \in registered

IInv ==
  /\ TypeOK
  /\ RowsAreRegistered
  /\ \A id \in Ids : guides[id] # None => \A role \in guides[id].roles : FromGuide(role)
  /\ \A role \in cloud.roles : FromGuide(role)

-----------------------------------------------------------------------------
(* What a guide's roles grant.                                             *)

LEMMA PolicyCovered ==
  ASSUME NEW id \in Ids, NEW uri, <<id, uri>> \in registered,
         NEW loc, loc = Location("aws", uri), loc # None
  PROVE  /\ \A s \in CurReadPolicy(loc) : Covered(s, id)
         /\ \A c, b : \A s \in CloudFormationRole(c, b, loc).policy : Covered(s, id)
         /\ \A c, b : \A s \in TerraformRole(c, b, loc).policy : Covered(s, id)
<1> DEFINE like == {p \in {loc.path} : p # <<>>}
<1>1. uri \in {reg[2] : reg \in {x \in registered : x[1] = id}}
  OBVIOUS
<1>2. ASSUME NEW a PROVE Covered(Statement(a, loc.place, like), id)
  BY <1>1 DEF Covered, Statement
<1>3. loc.path # <<>> => like = {loc.path}
  OBVIOUS
<1>4. loc.path = <<>> => like = {}
  OBVIOUS
<1>5. \A s \in CurReadPolicy(loc) : Covered(s, id)
  BY <1>2 DEF CurReadPolicy
<1>6. ASSUME NEW c, NEW b, NEW s \in CloudFormationRole(c, b, loc).policy
      PROVE  Covered(s, id)
  <2>1. s \in {Statement("s3:ListBucket", loc.place, like),
               Statement("s3:GetObject", loc.place, like)}
    BY <1>3, <1>4, <1>6 DEF CloudFormationRole, Role
  <2> QED BY <2>1, <1>2
<1>7. ASSUME NEW c, NEW b, NEW s \in TerraformRole(c, b, loc).policy
      PROVE  Covered(s, id)
  BY <1>2, <1>7 DEF TerraformRole, Role
<1> QED BY <1>5, <1>6, <1>7

(* A guide computed from a registered row has roles of its own only.       *)
LEMMA GuideRoles ==
  ASSUME IInv, NEW id \in Ids, connections[id] # None, NEW broker,
         NEW role \in Onboarding(connections[id], broker).roles
  PROVE  FromGuide(role)
<1> DEFINE c == connections[id]
           loc == Location("aws", c.export)
           policy == IF loc = None THEN {} ELSE CurReadPolicy(loc)
           byHand == PolicyRole(c, TrustPolicy(broker, ExternalId(c)), policy)
<1>1. ExternalId(c) = <<id[1], id>> /\ <<id, c.export>> \in registered
  BY DEF IInv, RowsAreRegistered, ExternalId
<1>2. role \in AwsOnboarding(c, broker).roles
  <2>1. c.provider \in {"aws", "azure", "gcp"}
    BY RegistrationsAssumption DEF IInv, TypeOK, Connection
  <2>2. CASE c.provider = "aws"
    BY <2>2 DEF Onboarding
  <2>3. CASE c.provider = "azure"
    BY <2>3 DEF Onboarding, AzureOnboarding, Guide
  <2>4. CASE c.provider = "gcp"
    BY <2>4 DEF Onboarding, GcpOnboarding, Guide
  <2> QED BY <2>1, <2>2, <2>3, <2>4
<1>3. \/ role = byHand
      \/ loc # None /\ role = CloudFormationRole(c, broker, loc)
      \/ loc # None /\ role = TerraformRole(c, broker, loc)
  BY <1>2 DEF AwsOnboarding, Guide
<1>4. /\ role.trust.externalId = <<id[1], id>>
      /\ role.policy = policy \/ loc # None
  <2>1. /\ byHand.trust.externalId = ExternalId(c)
        /\ byHand.policy = policy
    BY DEF PolicyRole, Role, TrustPolicy
  <2>2. /\ CloudFormationRole(c, broker, loc).trust.externalId = ExternalId(c)
        /\ TerraformRole(c, broker, loc).trust.externalId = ExternalId(c)
    BY DEF CloudFormationRole, TerraformRole, Role, TrustPolicy
  <2> QED BY <1>1, <1>3, <2>1, <2>2
<1>5. \A s \in role.policy : Covered(s, id)
  BY <1>1, <1>3, PolicyCovered DEF PolicyRole, Role
<1> QED BY <1>4, <1>5 DEF FromGuide

(* Registrations are never forgotten.                                      *)
LEMMA FromGuideStays ==
  ASSUME registered \subseteq registered', NEW role, FromGuide(role)
  PROVE  FromGuide(role)'
<1>1. ASSUME NEW s, NEW id, Covered(s, id) PROVE Covered(s, id)'
  BY <1>1 DEF Covered
<1> QED BY <1>1 DEF FromGuide
-----------------------------------------------------------------------------
(* The invariant.                                                          *)

LEMMA InvInit == Init => IInv
BY DEF Init, IInv, TypeOK, RowsAreRegistered

LEMMA InvRegister ==
  ASSUME IInv, NEW r \in Registrations, Register(r)
  PROVE  IInv'
<1> DEFINE id == StableId(r)
           row == Connection(id, r)
<1>1. id \in Ids /\ id[1] = r.tenant
  BY DEF Ids, StableId
<1>2. connections' = [connections EXCEPT ![id] = row]
  BY DEF Register
<1>3. \A x \in Ids : connections'[x] = IF x = id THEN row ELSE connections[x]
  BY <1>2 DEF IInv, TypeOK
<1>4. /\ row.id = id /\ row.tenant = r.tenant /\ row.export = r.export
      /\ row = [Connection(id, r) EXCEPT !.status = row.status, !.code = row.code]
  BY DEF Connection
<1>5. TypeOK'
  <2>1. connections' = [x \in Ids |-> connections'[x]]
    BY <1>2 DEF IInv, TypeOK
  <2>2. ASSUME NEW x \in Ids, connections'[x] # None
        PROVE  \E q \in Registrations :
                 /\ StableId(q) = x
                 /\ connections'[x] = [Connection(x, q) EXCEPT
                      !.status = connections'[x].status, !.code = connections'[x].code]
    <3>1. CASE x = id
      BY <3>1, <1>3, <1>4
    <3>2. CASE x # id
      BY <3>2, <1>3, <2>2 DEF IInv, TypeOK
    <3> QED BY <3>1, <3>2
  <2> QED BY <2>1, <2>2 DEF IInv, TypeOK, Register
<1>6. RowsAreRegistered'
  <2> SUFFICES ASSUME NEW x \in Ids, connections'[x] # None
               PROVE  /\ connections'[x].id = x
                      /\ connections'[x].tenant = x[1]
                      /\ <<x, connections'[x].export>> \in registered'
    BY DEF RowsAreRegistered
  <2>1. registered' = registered \cup {<<id, r.export>>}
    BY DEF Register
  <2>2. CASE x = id
    BY <2>1, <2>2, <1>1, <1>3, <1>4
  <2>3. CASE x # id
    BY <2>1, <2>3, <1>3 DEF IInv, RowsAreRegistered
  <2> QED BY <2>2, <2>3
<1>7. registered \subseteq registered' /\ guides' = guides /\ cloud' = cloud
  BY DEF Register
<1> QED BY <1>5, <1>6, <1>7, FromGuideStays DEF IInv

LEMMA InvLoadOnboarding ==
  ASSUME IInv, NEW id \in Ids, LoadOnboarding(id)
  PROVE  IInv'
<1>1. /\ guides' = [guides EXCEPT ![id] = Onboarding(connections[id], env.broker)]
      /\ connections[id] # None
      /\ UNCHANGED <<connections, cloud, objects, env, registered>>
  BY DEF LoadOnboarding
<1>2. \A x \in Ids : guides'[x] =
        IF x = id THEN Onboarding(connections[id], env.broker) ELSE guides[x]
  BY <1>1 DEF IInv, TypeOK
<1>3. guides' = [x \in Ids |-> guides'[x]]
  BY <1>1 DEF IInv, TypeOK
<1>4. TypeOK' /\ RowsAreRegistered'
  BY <1>1, <1>3 DEF IInv, TypeOK, RowsAreRegistered
<1>5. ASSUME NEW x \in Ids, guides'[x] # None, NEW role \in guides'[x].roles
      PROVE  FromGuide(role)
  BY <1>1, <1>2, <1>5, GuideRoles DEF IInv
<1>6. registered \subseteq registered'
  BY <1>1
<1> QED BY <1>1, <1>4, <1>5, <1>6, FromGuideStays DEF IInv

LEMMA InvDeploy ==
  ASSUME IInv, NEW id \in Ids, Deploy(id)
  PROVE  IInv'
<1>1. /\ guides[id] # None
      /\ UNCHANGED <<connections, guides, objects, env, registered>>
  BY DEF Deploy
<1>2. /\ cloud' = [roles |-> cloud'.roles, grants |-> cloud'.grants]
      /\ \A role \in cloud'.roles : role \in cloud.roles \/ role \in guides[id].roles
  <2>1. CASE \E role \in guides[id].roles : cloud' = MakeRole(cloud, role)
    <3>1. PICK role \in guides[id].roles : cloud' = MakeRole(cloud, role)
      BY <2>1
    <3>2. cloud = [roles |-> cloud.roles, grants |-> cloud.grants]
      BY DEF IInv, TypeOK
    <3>3. cloud' = [roles |-> {r \in cloud.roles : r.arn # role.arn} \cup {role},
                    grants |-> cloud.grants]
      BY <3>1, <3>2 DEF MakeRole
    <3> QED BY <3>3
  <2>2. CASE cloud' = [cloud EXCEPT !.grants = @ \cup guides[id].grants]
    BY <2>2 DEF IInv, TypeOK
  <2> QED BY <2>1, <2>2 DEF Deploy
<1>3. TypeOK' /\ RowsAreRegistered'
  BY <1>1, <1>2 DEF IInv, TypeOK, RowsAreRegistered
<1>4. \A role \in cloud'.roles : FromGuide(role)
  BY <1>1, <1>2 DEF IInv
<1>5. registered \subseteq registered'
  BY <1>1
<1> QED BY <1>1, <1>3, <1>4, <1>5, FromGuideStays DEF IInv

LEMMA InvValidate ==
  ASSUME IInv, NEW id \in Ids, Validate(id)
  PROVE  IInv'
<1>1. PICK answer :
        connections' = [connections EXCEPT ![id].status = StatusOf(answer),
                                           ![id].code = answer]
  BY DEF Validate
<1>2. /\ connections[id] # None
      /\ UNCHANGED <<guides, cloud, objects, env, registered>>
  BY DEF Validate
<1>3. PICK r \in Registrations :
        /\ StableId(r) = id
        /\ connections[id] = [Connection(id, r) EXCEPT
             !.status = connections[id].status, !.code = connections[id].code]
  BY <1>2 DEF IInv, TypeOK
<1>4. connections'[id] =
        [connections[id] EXCEPT !.status = StatusOf(answer), !.code = answer]
  BY <1>1 DEF IInv, TypeOK
<1>5. /\ connections'[id] = [Connection(id, r) EXCEPT
           !.status = connections'[id].status, !.code = connections'[id].code]
      /\ connections'[id].id = connections[id].id
      /\ connections'[id].tenant = connections[id].tenant
      /\ connections'[id].export = connections[id].export
  BY <1>3, <1>4 DEF Connection
<1>6. \A x \in Ids : x # id => connections'[x] = connections[x]
  BY <1>1 DEF IInv, TypeOK
<1>7. connections' = [x \in Ids |-> connections'[x]]
  BY <1>1 DEF IInv, TypeOK
<1>8. TypeOK'
  <2>1. ASSUME NEW x \in Ids, connections'[x] # None
        PROVE  \E q \in Registrations :
                 /\ StableId(q) = x
                 /\ connections'[x] = [Connection(x, q) EXCEPT
                      !.status = connections'[x].status, !.code = connections'[x].code]
    <3>1. CASE x = id
      BY <3>1, <1>3, <1>5
    <3>2. CASE x # id
      BY <3>2, <2>1, <1>6 DEF IInv, TypeOK
    <3> QED BY <3>1, <3>2
  <2> QED BY <2>1, <1>2, <1>7 DEF IInv, TypeOK
<1>9. RowsAreRegistered'
  <2> SUFFICES ASSUME NEW x \in Ids, connections'[x] # None
               PROVE  /\ connections'[x].id = x
                      /\ connections'[x].tenant = x[1]
                      /\ <<x, connections'[x].export>> \in registered
    BY <1>2 DEF RowsAreRegistered
  <2>1. CASE x = id
    BY <2>1, <1>2, <1>5 DEF IInv, RowsAreRegistered
  <2>2. CASE x # id
    BY <2>2, <1>6 DEF IInv, RowsAreRegistered
  <2> QED BY <2>1, <2>2
<1>10. registered \subseteq registered'
  BY <1>2
<1> QED BY <1>2, <1>8, <1>9, <1>10, FromGuideStays DEF IInv

LEMMA InvOthers ==
  ASSUME IInv,
         \/ \E o \in Objects : Deliver(o)
         \/ Reconfigure
         \/ UNCHANGED vars
  PROVE  IInv'
<1>1. UNCHANGED <<connections, guides, cloud, registered>>
  BY DEF Deliver, Reconfigure, vars
<1>2. objects' \subseteq Objects /\ env' \in Environments
  BY DEF IInv, TypeOK, Deliver, Reconfigure, vars
<1>3. TypeOK' /\ RowsAreRegistered'
  BY <1>1, <1>2 DEF IInv, TypeOK, RowsAreRegistered
<1>4. registered \subseteq registered'
  BY <1>1
<1> QED BY <1>1, <1>3, <1>4, FromGuideStays DEF IInv

(* The inductive invariant holds in every reachable state.                 *)
THEOREM Invariance == Spec => []IInv
<1>1. IInv /\ [Next]_vars => IInv'
  BY InvRegister, InvLoadOnboarding, InvDeploy, InvValidate, InvOthers DEF Next
<1> QED BY InvInit, <1>1, PTL DEF Spec

(* Every variable keeps its type: a row keeps the id of its registration.  *)
THEOREM TypeCorrect == Spec => []TypeOK
<1>1. IInv => TypeOK
  BY DEF IInv
<1> QED BY Invariance, <1>1, PTL
-----------------------------------------------------------------------------
(* The objects a statement allows to read are under the export it covers.  *)
LEMMA AllowedIsUnder ==
  ASSUME NEW role, NEW id \in Ids, \A s \in role.policy : Covered(s, id),
         NEW o \in Objects, Allows(role, "s3:GetObject", o.place, o.path)
  PROVE  \E uri \in {reg[2] : reg \in {x \in registered : x[1] = id}} :
           Location("aws", uri) # None /\ o \in Under(Objects, Location("aws", uri))
<1>1. PICK s \in role.policy :
        /\ s.bucket = o.place
        /\ s.like = {} \/ \E p \in s.like : IsPrefix(p, o.path)
  BY DEF Allows
<1>2. PICK uri \in {reg[2] : reg \in {x \in registered : x[1] = id}} :
        LET loc == Location("aws", uri)
        IN  /\ loc # None
            /\ s.bucket = loc.place
            /\ s.like = {p \in {loc.path} : p # <<>>}
  BY DEF Covered
<1> DEFINE loc == Location("aws", uri)
<1>3. IsPrefix(loc.path, o.path)
  <2>1. CASE s.like = {}
    <3>1. loc.path = <<>>
      BY <2>1, <1>2
    <3>2. /\ Len(o.path) \in Nat
          /\ SubSeq(o.path, 1, 0) = <<>>
      BY ObjectsAssumption
    <3>3. 0 \in 0 .. Len(o.path)
      BY <3>2
    <3> QED BY <3>1, <3>2, <3>3 DEF IsPrefix
  <2>2. CASE s.like # {}
    BY <2>2, <1>1, <1>2
  <2> QED BY <2>1, <2>2
<1> QED BY <1>1, <1>2, <1>3 DEF Under

(* A connection reaches nothing outside an export registered under its own *)
(* id, whatever guides of whatever tenants were deployed, for any number   *)
(* of them.                                                                *)
THEOREM ReachStaysRegistered == Spec => []ReachIsRegistered
<1>1. IInv => ReachIsRegistered
  <2> SUFFICES ASSUME IInv, NEW id \in Ids, connections[id] # None,
                      NEW o \in Reach(connections[id], env, cloud, Objects)
               PROVE  \E uri \in {reg[2] : reg \in {x \in registered : x[1] = id}} :
                        /\ Location("aws", uri) # None
                        /\ o \in Under(Objects, Location("aws", uri))
    BY DEF ReachIsRegistered
  <2>1. PICK role \in cloud.roles :
          /\ Trusts(role.trust, env.self.aws, ExternalId(connections[id]))
          /\ Allows(role, "s3:GetObject", o.place, o.path)
    BY DEF Reach, Assumable
  <2>2. PICK x \in Ids :
          /\ role.trust.externalId = <<x[1], x>>
          /\ \A s \in role.policy : Covered(s, x)
    BY <2>1 DEF IInv, FromGuide
  <2>3. x = id
    <3>1. role.trust.externalId = <<connections[id].tenant, connections[id].id>>
      BY <2>1 DEF Trusts, ExternalId
    <3>2. connections[id].id = id
      BY DEF IInv, RowsAreRegistered
    <3> QED BY <2>2, <3>1, <3>2
  <2>4. o \in Objects
    BY DEF Reach
  <2> QED BY <2>1, <2>2, <2>3, <2>4, AllowedIsUnder
<1> QED BY Invariance, <1>1, PTL
-----------------------------------------------------------------------------
(* The preflight of the values of a registration is of the connection that *)
(* registering them makes.                                                 *)
LEMMA PreflightIsRegistered ==
  ASSUME NEW r \in Registrations, r.mode = r.provider, NEW given \in {None, StableId(r)}
  PROVE  PreflightConnection(r, given) = Connection(StableId(r), r)
<1>1. PreflightId(r, given) = StableId(r)
  BY DEF PreflightId
<1>2. /\ r.provider \in {"aws", "azure", "gcp"}
      /\ {"tenant", "provider", "account", "mode", "principal", "export"} \subseteq DOMAIN r
  BY RegistrationsAssumption
<1>3. Connection(StableId(r), [r EXCEPT !.mode = r.provider]) = Connection(StableId(r), r)
  <2> DEFINE q == [r EXCEPT !.mode = r.provider]
  <2>1. /\ q.tenant = r.tenant /\ q.provider = r.provider /\ q.account = r.account
        /\ q.mode = r.mode /\ q.principal = r.principal /\ q.export = r.export
    BY <1>2
  <2> HIDE DEF q
  <2>2. Connection(StableId(r), q) = Connection(StableId(r), r)
    BY <2>1 DEF Connection
  <2> QED BY <2>2 DEF q
<1>4. CASE r.provider = "aws"
  BY <1>1, <1>3, <1>4 DEF PreflightConnection, AwsPreflight
<1>5. CASE r.provider = "azure"
  BY <1>1, <1>3, <1>5 DEF PreflightConnection, AzurePreflight
<1>6. CASE r.provider = "gcp"
  BY <1>1, <1>3, <1>6 DEF PreflightConnection, GcpPreflight
<1> QED BY <1>2, <1>4, <1>5, <1>6

(* A preflight answers what validation will answer once the same values    *)
(* are registered, for every body, environment and state of the clouds.    *)
THEOREM PreflightIsFaithful == Spec => []PreflightForetells
<1>1. PreflightForetells
  BY PreflightIsRegistered DEF PreflightForetells, Preflight
<1> QED BY <1>1, PTL
-----------------------------------------------------------------------------
(* A customer who follows a guide.                                         *)

(* The fields of a row that the guide, the probe and the reader look at    *)
(* are there, and the customer changes one of them.                        *)
LEMMA RowFields ==
  ASSUME IInv, NEW id \in Ids, connections[id] # None, NEW arn
  PROVE  LET c == connections[id]
             by == [c EXCEPT !.principal = arn]
         IN  /\ c.provider \in {"aws", "azure", "gcp"}
             /\ by.principal = arn
             /\ by.provider = c.provider /\ by.mode = c.mode
             /\ by.account = c.account /\ by.export = c.export
             /\ by.tenant = c.tenant /\ by.id = c.id
<1>1. PICK r \in Registrations :
        connections[id] = [Connection(id, r) EXCEPT
          !.status = connections[id].status, !.code = connections[id].code]
  BY DEF IInv, TypeOK
<1> DEFINE s == connections[id].status
           k == connections[id].code
<1> HIDE DEF s, k
<1>2. connections[id] =
        [id |-> id, tenant |-> r.tenant, provider |-> r.provider, account |-> r.account,
         mode |-> r.mode, principal |-> r.principal, export |-> r.export,
         status |-> s, code |-> k]
  BY <1>1 DEF Connection, s, k
<1> QED BY <1>2, RegistrationsAssumption

(* Where an export holds an object its path is a sequence, and under       *)
(* itself.                                                                 *)
LEMMA PathUnderItself ==
  ASSUME NEW loc, NEW o \in Under(Objects, loc)
  PROVE  IsPrefix(loc.path, loc.path)
<1>1. PICK n \in 0 .. Len(o.path) : loc.path = SubSeq(o.path, 1, n)
  BY DEF Under, IsPrefix
<1>2. o.path \in Seq(Pieces)
  BY ObjectsAssumption DEF Under
<1>3. loc.path \in Seq(Pieces) /\ Len(loc.path) = n
  BY <1>1, <1>2
<1>4. loc.path = SubSeq(loc.path, 1, Len(loc.path)) /\ Len(loc.path) \in 0 .. Len(loc.path)
  BY <1>3
<1> QED BY <1>4 DEF IsPrefix

(* Whichever form a role is made in, it trusts the guide's broker and      *)
(* allows both calls under the export.                                     *)
LEMMA RoleSuffices ==
  ASSUME NEW c, NEW broker, NEW loc, loc = Location("aws", c.export), loc # None,
         NEW role \in AwsOnboarding(c, broker).roles
  PROVE  /\ role.arn.account = c.account /\ role.arn.kind = "role"
         /\ role.trust = TrustPolicy(broker, ExternalId(c))
         /\ \A path : \A a \in {"s3:ListBucket", "s3:GetObject"} :
              IsPrefix(loc.path, path) => Allows(role, a, loc.place, path)
<1> DEFINE like == {p \in {loc.path} : p # <<>>}
           byHand == PolicyRole(c, TrustPolicy(broker, ExternalId(c)), CurReadPolicy(loc))
<1>1. \/ role = byHand
      \/ role = CloudFormationRole(c, broker, loc)
      \/ role = TerraformRole(c, broker, loc)
  BY DEF AwsOnboarding, Guide
<1>2. /\ role.arn.account = c.account /\ role.arn.kind = "role"
      /\ role.trust = TrustPolicy(broker, ExternalId(c))
  BY <1>1 DEF PolicyRole, CloudFormationRole, TerraformRole, Role, RoleArn
<1>3. loc.path # <<>> => like = {loc.path}
  OBVIOUS
<1>4. loc.path = <<>> => like = {}
  OBVIOUS
<1>5. \A a \in {"s3:ListBucket", "s3:GetObject"} :
        Statement(a, loc.place, like) \in role.policy
  <2>1. CASE role = byHand
    BY <2>1 DEF PolicyRole, Role, CurReadPolicy
  <2>2. CASE role = CloudFormationRole(c, broker, loc)
    <3>1. role.policy = {Statement("s3:ListBucket", loc.place, like),
                         Statement("s3:GetObject", loc.place, like)}
      BY <2>2, <1>3, <1>4 DEF CloudFormationRole, Role
    <3> QED BY <3>1
  <2>3. CASE role = TerraformRole(c, broker, loc)
    BY <2>3 DEF TerraformRole, Role
  <2> QED BY <1>1, <2>1, <2>2, <2>3
<1>6. ASSUME NEW a \in {"s3:ListBucket", "s3:GetObject"}, NEW path,
             IsPrefix(loc.path, path)
      PROVE  Allows(role, a, loc.place, path)
  <2>1. like = {} \/ \E p \in like : IsPrefix(p, path)
    BY <1>3, <1>4, <1>6
  <2> QED BY <1>5, <2>1 DEF Allows, Statement
<1> QED BY <1>2, <1>6

(* What the guide of a connection promises, with the export's location.    *)
Suffices(c, guide, loc) ==
  \A then \in Followed(c, guide) :
    /\ Under(objects, loc) # {} => Probe(then.by, env, then.cloud, objects) \in Passed
    /\ Readable(then.by, env, then.cloud, objects) = Under(objects, loc)

LEMMA MadeRole ==
  ASSUME IInv, NEW role
  PROVE  role \in MakeRole(cloud, role).roles
<1> DEFINE kept == {r \in cloud.roles : r.arn # role.arn}
<1>1. PICK roles, grants : cloud = [roles |-> roles, grants |-> grants]
  BY DEF IInv, TypeOK
<1>2. MakeRole(cloud, role) = [cloud EXCEPT !.roles = kept \cup {role}]
  BY DEF MakeRole
<1>3. role \in kept \cup {role}
  OBVIOUS
<1> HIDE DEF kept
<1>4. MakeRole(cloud, role).roles = kept \cup {role}
  BY <1>1, <1>2
<1> QED BY <1>3, <1>4

LEMMA AwsSuffices ==
  ASSUME IInv, NEW id \in Ids, connections[id] # None, connections[id].provider = "aws",
         env.live, ShapeIsValid(connections[id]), NamesRuntime(connections[id], env),
         NEW loc, loc = Location("aws", connections[id].export), loc # None
  PROVE  Suffices(connections[id], Onboarding(connections[id], env.broker), loc)
<1> DEFINE c == connections[id]
           guide == Onboarding(c, env.broker)
<1>1. guide = AwsOnboarding(c, env.broker)
  BY DEF Onboarding
<1> SUFFICES ASSUME NEW role \in guide.roles
             PROVE  LET by == [c EXCEPT !.principal = role.arn]
                        cl == MakeRole(cloud, role)
                    IN  /\ Under(objects, loc) # {} => Probe(by, env, cl, objects) \in Passed
                        /\ Readable(by, env, cl, objects) = Under(objects, loc)
  BY DEF Suffices, Followed
<1> DEFINE by == [c EXCEPT !.principal = role.arn]
           cl == MakeRole(cloud, role)
<1>2. /\ by.principal = role.arn /\ by.provider = "aws" /\ by.mode = c.mode
      /\ by.account = c.account /\ by.export = c.export
      /\ by.tenant = c.tenant /\ by.id = c.id
  BY RowFields
<1>3. /\ role.arn.account = c.account /\ role.arn.kind = "role"
      /\ role.trust = TrustPolicy(env.broker, ExternalId(c))
      /\ \A path : \A a \in {"s3:ListBucket", "s3:GetObject"} :
           IsPrefix(loc.path, path) => Allows(role, a, loc.place, path)
  BY <1>1, RoleSuffices
<1>4. role \in cl.roles
  BY MadeRole
<1>5. Trusts(role.trust, env.self.aws, ExternalId(by))
  BY <1>2, <1>3 DEF NamesRuntime, Trusts, TrustPolicy, ExternalId
<1>6. role \in Assumable(cl, by.principal, env.self.aws, ExternalId(by))
  BY <1>2, <1>4, <1>5 DEF Assumable
<1>7. loc = Location("aws", by.export)
  BY <1>2
<1>8. ShapeIsValid(by)
  BY <1>2, <1>3 DEF ShapeIsValid, KindOfPrincipal
<1> HIDE DEF by, cl
<1>9. ASSUME Under(objects, loc) # {} PROVE Probe(by, env, cl, objects) \in Passed
  <2>1. PICK o \in Under(objects, loc) : TRUE
    BY <1>9
  <2>2. o \in Under(Objects, loc)
    BY <2>1 DEF Under, IInv, TypeOK
  <2>3. Allows(role, "s3:ListBucket", loc.place, loc.path)
    BY <2>2, <1>3, PathUnderItself
  <2>4. AwsProbe(by, env, cl, objects) = "aws_probe_passed"
    BY <1>2, <1>3, <1>6, <1>7, <1>9, <2>3 DEF AwsProbe
  <2> QED BY <2>4, <1>2, <1>8 DEF Probe, Passed
<1>10. Readable(by, env, cl, objects) = Under(objects, loc)
  <2>1. Readable(by, env, cl, objects) = ReadAwsS3(by, env, cl, objects)
    BY <1>2 DEF Readable
  <2>2. ASSUME NEW o \in Under(objects, loc)
        PROVE  /\ Allows(role, "s3:ListBucket", loc.place, loc.path)
               /\ Allows(role, "s3:GetObject", loc.place, o.path)
    <3>1. o \in Under(Objects, loc) /\ IsPrefix(loc.path, o.path)
      BY DEF Under, IInv, TypeOK
    <3> QED BY <3>1, <1>3, PathUnderItself
  <2>3. role \in {r \in Assumable(cl, by.principal, env.self.aws, ExternalId(by)) :
                    by.principal.account = by.account}
    BY <1>2, <1>3, <1>6
  <2>4. Under(objects, loc) \subseteq objects
    BY DEF Under
  <2>5. Under(objects, loc) \subseteq ReadAwsS3(by, env, cl, objects)
    BY <1>7, <2>2, <2>3, <2>4 DEF ReadAwsS3
  <2>6. ReadAwsS3(by, env, cl, objects) \subseteq Under(objects, loc)
    BY <1>7 DEF ReadAwsS3
  <2> QED BY <2>1, <2>5, <2>6
<1> QED BY <1>9, <1>10 DEF by, cl

LEMMA AzureSuffices ==
  ASSUME IInv, NEW id \in Ids, connections[id] # None, connections[id].provider = "azure",
         env.live, ShapeIsValid(connections[id]), NamesRuntime(connections[id], env),
         NEW loc, loc = Location("azure", connections[id].export), loc # None
  PROVE  Suffices(connections[id], Onboarding(connections[id], env.broker), loc)
<1> DEFINE c == connections[id]
           guide == Onboarding(c, env.broker)
           cl == [cloud EXCEPT !.grants = @ \cup guide.grants]
<1>1. guide = AzureOnboarding(c)
  BY DEF Onboarding
<1>2. cl.grants = cloud.grants \cup guide.grants
  BY DEF IInv, TypeOK
<1>3. c.principal.of = env.self.azure
  BY DEF NamesRuntime
<1>4. /\ Grant("Cost Management Reader", c.principal.of, AzureScope(c.account)) \in guide.grants
      /\ Grant("Storage Blob Data Reader", c.principal.of, loc.place) \in guide.grants
  <2> DEFINE l0 == Location("azure", c.export)
             reads == {Grant("Reader", c.principal.of, AzureScope(c.account)),
                       Grant("Cost Management Reader", c.principal.of, AzureScope(c.account))}
             blobs == {Grant("Storage Blob Data Reader", c.principal.of, l.place) :
                         l \in {l0} \ {None}}
  <2>1. guide = Guide("ready", {}, reads \cup blobs)
    BY <1>1 DEF AzureOnboarding
  <2> HIDE DEF guide, reads, blobs
  <2>2. guide.grants = reads \cup blobs
    BY <2>1 DEF Guide
  <2>3. /\ Grant("Storage Blob Data Reader", c.principal.of, l0.place) \in blobs
        /\ Grant("Cost Management Reader", c.principal.of, AzureScope(c.account)) \in reads
    BY DEF reads, blobs
  <2> QED BY <2>2, <2>3
<1>5. AzureBillingScope(c.account) = AzureScope(c.account)
  BY DEF AzureBillingScope, AzureScope
<1>6. /\ Holds(cl, env.self.azure, "Cost Management Reader", AzureBillingScope(c.account))
      /\ Holds(cl, env.self.azure, "Storage Blob Data Reader", loc.place)
  BY <1>2, <1>3, <1>4, <1>5 DEF Holds
<1>7. Followed(c, guide) = {[by |-> c, cloud |-> cl]}
  BY DEF Followed
<1> HIDE DEF cl, guide
<1>8. Under(objects, loc) # {} => Probe(c, env, cl, objects) \in Passed
  BY <1>6 DEF Probe, AzureProbe, Passed
<1>9. Readable(c, env, cl, objects) = Under(objects, loc)
  <2>1. Readable(c, env, cl, objects) = ReadAzureBlob(c, env, cl, objects)
    BY DEF Readable
  <2>2. ReadAzureBlob(c, env, cl, objects) = Under(objects, loc)
    BY <1>6 DEF ReadAzureBlob, Under
  <2> QED BY <2>1, <2>2
<1> QED BY <1>7, <1>8, <1>9 DEF Suffices, guide

LEMMA GcpSuffices ==
  ASSUME IInv, NEW id \in Ids, connections[id] # None, connections[id].provider = "gcp",
         env.live, ShapeIsValid(connections[id]), NamesRuntime(connections[id], env),
         NEW loc, loc = Location("gcp", connections[id].export), loc # None
  PROVE  Suffices(connections[id], Onboarding(connections[id], env.broker), loc)
<1> DEFINE c == connections[id]
           guide == Onboarding(c, env.broker)
           cl == [cloud EXCEPT !.grants = @ \cup guide.grants]
<1>1. guide = GcpOnboarding(c)
  BY DEF Onboarding
<1>2. cl.grants = cloud.grants \cup guide.grants
  BY DEF IInv, TypeOK
<1>3. PrincipalSet(c.principal) = env.self.gcp
  BY DEF NamesRuntime
<1>4. /\ Grant("roles/bigquery.dataViewer", PrincipalSet(c.principal),
               SubSeq(loc.place, 1, 2)) \in guide.grants
      /\ Grant("roles/bigquery.jobUser", PrincipalSet(c.principal),
               SubSeq(loc.place, 1, 1)) \in guide.grants
  BY <1>1 DEF GcpOnboarding, Guide
<1>5. MayQuery(cl, env.self.gcp, loc.place)
  BY <1>2, <1>3, <1>4 DEF MayQuery, Holds
<1>6. Followed(c, guide) = {[by |-> c, cloud |-> cl]}
  BY DEF Followed
<1> HIDE DEF cl, guide
<1>7. Under(objects, loc) # {} => Probe(c, env, cl, objects) \in Passed
  BY <1>5 DEF Probe, GcpProbe, Passed
<1>8. Readable(c, env, cl, objects) = Under(objects, loc)
  <2>1. Readable(c, env, cl, objects) = ReadGcpBigQuery(c, env, cl, objects)
    BY DEF Readable
  <2>2. ReadGcpBigQuery(c, env, cl, objects) = Under(objects, loc)
    BY <1>5 DEF ReadGcpBigQuery, Under
  <2> QED BY <2>1, <2>2
<1> QED BY <1>6, <1>7, <1>8 DEF Suffices, guide

(* Whoever follows a guide that calls itself ready, in any of its forms    *)
(* and whatever is in the cloud already, has given enough for the probe    *)
(* and the reader, for every body, environment and state of the clouds.    *)
THEOREM GuidesSuffice == Spec => []GuideSuffices
<1>1. IInv => GuideSuffices
  <2> SUFFICES ASSUME IInv, NEW id \in Ids, connections[id] # None, Blockers(env) = {}
               PROVE  LET c     == connections[id]
                          loc   == Location(c.provider, c.export)
                          guide == Onboarding(c, env.broker)
                      IN  /\ guide.status # "broker_principal_missing"
                          /\ guide.status = "ready" /\ ShapeIsValid(c) /\ loc # None
                               /\ NamesRuntime(c, env) => Suffices(c, guide, loc)
    BY DEF GuideSuffices, Suffices
  <2> DEFINE c == connections[id]
             guide == Onboarding(c, env.broker)
  <2>1. env.live /\ env.broker # None
    <3>1. /\ "live-cloud-probes" \notin Blockers(env)
          /\ "aws-broker-principal" \notin Blockers(env)
      OBVIOUS
    <3> QED BY <3>1 DEF Blockers, HasConfigured
  <2>2. c.provider \in {"aws", "azure", "gcp"}
    BY RegistrationsAssumption DEF IInv, TypeOK, Connection
  <2>3. guide.status # "broker_principal_missing"
    BY <2>1, <2>2
       DEF Onboarding, AwsOnboarding, AzureOnboarding, GcpOnboarding, Guide
  <2> QED BY <2>1, <2>2, <2>3, AwsSuffices, AzureSuffices, GcpSuffices
<1> QED BY Invariance, <1>1, PTL
=============================================================================
