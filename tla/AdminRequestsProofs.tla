------------------------ MODULE AdminRequestsProofs ------------------------
(***************************************************************************)
(* Proofs about AdminRequests: what the writing handlers of admin-api      *)
(* reply is true, the validators leave two cases to the CHECKs, and every  *)
(* step of the handlers is an operation of ControlPlane or none, for any   *)
(* finite number of concurrent requests over any inputs.                   *)
(***************************************************************************)
EXTENDS AdminRequests, FiniteSetTheorems, TLAPS

Operation == {"tenant", "domain", "account", "policy"}

\* The changes that the open requests may still make are within the bound.
Open == { r \in Requests : request[r].pc # "done" }
Bounded == version + Cardinality(Open) <= MaxChanges

\* A handler past its validator has an input that it accepted; one past its INSERT has
\* one that satisfies the CHECKs and whose tenant is there.
Judged ==
  \A r \in Requests, q \in Inputs :
    request[r].input = q =>
      /\ request[r].pc \in {"insert", "commit"} => Valid(q)
      /\ request[r].pc = "commit" => Checked(q) /\ Referenced(q)
HasInput == \A r \in Requests : request[r].pc # "idle" => request[r].input \in Inputs

\* Of the transactions that have written a key, one at most is open, and none is
\* while a committed row has the key.
Exclusive ==
  \A r, s \in Requests :
    r # s /\ request[r].pc = "commit" /\ request[s].pc = "commit" => ~SameKey(r, s)
CommitFree ==
  \A r \in Requests, q \in Inputs :
    request[r].pc = "commit" /\ request[r].input = q => ~Taken(q)

\* The rows are those of the requests that committed: each of them has its row, and
\* an input whose key is taken shares it with one of them.
RowsStay ==
  \A s \in committed, q \in Inputs : request[s].input = q /\ q.op # "policy" => Taken(q)
RowsCommitted ==
  \A q \in Inputs : Taken(q) => \E s \in committed : Key(request[s].input) = Key(q)

\* What the outcomes stand for.
Outcomes ==
  \A r \in Requests :
    /\ request[r].pc # "done" => request[r].outcome = "none"
    /\ request[r].outcome = "Created" => r \in committed
    /\ r \in committed => /\ request[r].pc = "done"
                          /\ request[r].outcome \in {"Created", "DbError", "none"}
    /\ request[r].outcome = "UniqueViolation" => \E s \in committed : SameKey(r, s)
    /\ request[r].outcome = "CheckViolation" =>
         Valid(request[r].input) /\ ~Checked(request[r].input)

CommittedOnce ==
  \A r, s \in committed : r # s /\ SameKey(r, s) => Op(r) = "policy"

IInv ==
  /\ TypeOK
  /\ Bounded
  /\ HasInput
  /\ Judged
  /\ Exclusive
  /\ CommitFree
  /\ RowsStay
  /\ RowsCommitted
  /\ Outcomes
  /\ CommittedOnce

-----------------------------------------------------------------------------
(* Keys. *)

\* An input is of one of the four operations.
LEMMA InputOp ==
  ASSUME NEW q \in Inputs
  PROVE  q.op \in Operation
BY AdminRequestsAssumption DEF Operation

\* A key tells the table and the columns of its index.
LEMMA KeyFields ==
  ASSUME NEW p \in Inputs, NEW q \in Inputs, Key(p) = Key(q)
  PROVE  /\ p.op = q.op
         /\ p.op = "tenant" => p.slug = q.slug
         /\ p.op = "domain" => p.fqdn = q.fqdn
         /\ p.op = "account" => p.local = q.local /\ p.fqdn = q.fqdn
BY InputOp DEF Operation, Key

\* The index columns make the key.
LEMMA KeyOfFields ==
  ASSUME NEW p \in Inputs, NEW q \in Inputs, p.op = q.op,
         \/ p.op = "tenant" /\ p.slug = q.slug
         \/ p.op = "domain" /\ p.fqdn = q.fqdn
         \/ p.op = "account" /\ p.local = q.local /\ p.fqdn = q.fqdn
  PROVE  Key(p) = Key(q)
BY DEF Key

\* Whether an INSERT conflicts depends on nothing but its key.
LEMMA TakenByKey ==
  ASSUME NEW p \in Inputs, NEW q \in Inputs, Key(p) = Key(q), Taken(p)
  PROVE  Taken(q)
BY KeyFields DEF Taken

\* The transaction of q takes the key of q, unless it is an upsert, and no other.
LEMMA WriteRowTakes ==
  ASSUME NEW q \in Inputs, WriteRow(q), NEW p \in Inputs
  PROVE  Taken(p)' <=> Taken(p) \/ (q.op # "policy" /\ Key(p) = Key(q))
<1>1. CASE q.op = "tenant"
  <2>1. UNCHANGED <<domains, accounts>> /\ DOMAIN tenants' = DOMAIN tenants \cup {q.slug}
    BY <1>1 DEF WriteRow, With
  <2>2. Key(p) = Key(q) <=> p.op = "tenant" /\ p.slug = q.slug
    BY <1>1, KeyFields, KeyOfFields
  <2> QED
    BY <1>1, <2>1, <2>2 DEF Taken
<1>2. CASE q.op = "domain"
  <2>1. UNCHANGED <<tenants, accounts>> /\ DOMAIN domains' = DOMAIN domains \cup {q.fqdn}
    BY <1>2 DEF WriteRow, With
  <2>2. Key(p) = Key(q) <=> p.op = "domain" /\ p.fqdn = q.fqdn
    BY <1>2, KeyFields, KeyOfFields
  <2> QED
    BY <1>2, <2>1, <2>2 DEF Taken
<1>3. CASE q.op = "account"
  <2>1. UNCHANGED <<tenants, domains>> /\ accounts' = accounts \cup {<<q.local, q.fqdn>>}
    BY <1>3 DEF WriteRow
  <2>2. Key(p) = Key(q) <=> p.op = "account" /\ p.local = q.local /\ p.fqdn = q.fqdn
    BY <1>3, KeyFields, KeyOfFields
  <2> QED
    BY <1>3, <2>1, <2>2 DEF Taken
<1>4. CASE q.op = "policy"
  <2>1. UNCHANGED <<tenants, domains, accounts>>
    BY <1>4 DEF WriteRow
  <2> QED
    BY <1>4, <2>1 DEF Taken
<1> QED
  BY <1>1, <1>2, <1>3, <1>4, InputOp DEF Operation

\* No transaction removes a tenant.
LEMMA WriteRowKeepsTenants ==
  ASSUME NEW q \in Inputs, WriteRow(q)
  PROVE  DOMAIN tenants \subseteq DOMAIN tenants'
BY DEF WriteRow, With

\* A transaction makes one change of the desired state, or none.
LEMMA WriteRowVersion ==
  ASSUME NEW q, WriteRow(q), version \in Nat
  PROVE  version' \in Nat /\ version' <= version + 1
BY DEF WriteRow

-----------------------------------------------------------------------------
(* The steps. *)

\* A step of one handler leaves the others alone.
LEMMA OneHandler ==
  ASSUME TypeOK, NEW r \in Requests, NEW h \in Handler,
         request' = [request EXCEPT ![r] = h]
  PROVE  /\ request' \in [Requests -> Handler]
         /\ request'[r] = h
         /\ \A s \in Requests \ {r} : request'[s] = request[s]
BY DEF TypeOK

\* The open requests are finite in number, and one that is done no longer counts.
LEMMA OpenRequests ==
  ASSUME TypeOK, NEW r \in Requests, NEW h \in Handler, request[r].pc # "done",
         request' = [request EXCEPT ![r] = h]
  PROVE  /\ Cardinality(Open) \in Nat /\ Cardinality(Open') \in Nat
         /\ Cardinality(Open') <= Cardinality(Open)
         /\ h.pc = "done" => Cardinality(Open') = Cardinality(Open) - 1
<1>1. IsFiniteSet(Open)
  BY AdminRequestsAssumption, FS_Subset DEF Open
<1>2. r \in Open /\ Open' = IF h.pc = "done" THEN Open \ {r} ELSE Open
  BY OneHandler DEF Open
<1>3. Cardinality(Open) \in Nat
  BY <1>1, FS_CardinalityType
<1>4. /\ IsFiniteSet(Open \ {r})
      /\ Cardinality(Open \ {r}) = Cardinality(Open) - 1
  BY <1>1, <1>2, FS_RemoveElement
<1>5. Cardinality(Open \ {r}) \in Nat
  BY <1>4, FS_CardinalityType
<1>6. CASE h.pc = "done"
  BY <1>2, <1>3, <1>4, <1>5, <1>6
<1>7. CASE h.pc # "done"
  BY <1>2, <1>3, <1>7
<1> QED
  BY <1>6, <1>7

\* What a handler that changes no table must establish: it is judged before it may
\* commit, it holds its key alone, and its outcome says what it met.
MayBecome(r, h) ==
  /\ h.pc # "idle" /\ h.input \in Inputs
  /\ h.pc \in {"insert", "commit"} => Valid(h.input) /\ h.outcome = "none"
  /\ h.pc = "commit" =>
       /\ Checked(h.input) /\ Referenced(h.input) /\ ~Taken(h.input)
       /\ \A s \in Requests \ {r} :
            request[s].pc = "commit" => Key(request[s].input) # Key(h.input)
  /\ h.outcome # "Created"
  /\ h.outcome = "UniqueViolation" => Taken(h.input)
  /\ h.outcome = "CheckViolation" => Valid(h.input) /\ ~Checked(h.input)

\* A step of a handler that changes no table keeps the invariant.
LEMMA LocalStep ==
  ASSUME IInv, NEW r \in Requests, NEW h \in Handler,
         request[r].pc # "done", request' = [request EXCEPT ![r] = h],
         MayBecome(r, h),
         UNCHANGED <<desired, accounts, committed>>, faults' \in 0..MaxFaults
  PROVE  IInv'
<1>1. /\ request' \in [Requests -> Handler]
      /\ request'[r] = h
      /\ \A s \in Requests \ {r} : request'[s] = request[s]
  BY OneHandler DEF IInv
<1>2. r \notin committed /\ committed' = committed /\ committed \subseteq Requests
  BY DEF IInv, Outcomes, TypeOK
<1>3. UNCHANGED <<tenants, domains, policies, trail, version, accounts>>
  BY DEF desired
<1>4. \A q \in Inputs : (Taken(q)' <=> Taken(q)) /\ (Referenced(q)' <=> Referenced(q))
  BY <1>3 DEF Taken, Referenced
<1>5. TypeOK'
  BY <1>1, <1>2, <1>3 DEF IInv, TypeOK, DesiredTypeOK
<1>6. Bounded'
  <2>1. Cardinality(Open) \in Nat /\ Cardinality(Open') \in Nat
        /\ Cardinality(Open') <= Cardinality(Open)
    BY OpenRequests DEF IInv
  <2>2. version \in Nat /\ MaxChanges \in Nat
    BY ControlPlaneAssumption DEF IInv, TypeOK, DesiredTypeOK
  <2> QED
    BY <1>3, <2>1, <2>2 DEF IInv, Bounded
<1>7. HasInput'
  BY <1>1 DEF IInv, HasInput, MayBecome
<1>8. Judged'
  BY <1>1, <1>4 DEF IInv, Judged, MayBecome
<1>9. Exclusive'
  <2> SUFFICES ASSUME NEW s \in Requests, NEW t \in Requests, s # t,
                      request'[s].pc = "commit", request'[t].pc = "commit"
               PROVE  Key(request'[s].input) # Key(request'[t].input)
    BY DEF Exclusive, SameKey
  <2>1. CASE s = r
    BY <1>1, <2>1 DEF MayBecome
  <2>2. CASE t = r
    BY <1>1, <2>2 DEF MayBecome
  <2>3. CASE s # r /\ t # r
    BY <1>1, <2>3 DEF IInv, Exclusive, SameKey
  <2> QED
    BY <2>1, <2>2, <2>3
<1>10. CommitFree'
  BY <1>1, <1>4 DEF IInv, CommitFree, MayBecome
<1>11. RowsStay'
  BY <1>1, <1>2, <1>4 DEF IInv, RowsStay
<1>12. RowsCommitted'
  BY <1>1, <1>2, <1>4 DEF IInv, RowsCommitted
<1>13. Outcomes'
  <2>1. ASSUME NEW s \in Requests, request'[s].outcome = "UniqueViolation"
        PROVE  \E t \in committed : Key(request'[s].input) = Key(request'[t].input)
    <3>1. CASE s = r
      <4>1. PICK t \in committed : Key(request[t].input) = Key(h.input)
        BY <1>1, <2>1, <3>1 DEF IInv, RowsCommitted, MayBecome
      <4> QED
        BY <1>1, <1>2, <3>1, <4>1
    <3>2. CASE s # r
      <4>1. PICK t \in committed : Key(request[s].input) = Key(request[t].input)
        BY <1>1, <2>1, <3>2 DEF IInv, Outcomes, SameKey
      <4> QED
        BY <1>1, <1>2, <3>2, <4>1
    <3> QED
      BY <3>1, <3>2
  <2>2. ASSUME NEW s \in Requests
        PROVE  /\ request'[s].pc # "done" => request'[s].outcome = "none"
               /\ request'[s].outcome = "Created" => s \in committed
               /\ s \in committed => /\ request'[s].pc = "done"
                                     /\ request'[s].outcome \in {"Created", "DbError", "none"}
               /\ request'[s].outcome = "CheckViolation" =>
                    Valid(request'[s].input) /\ ~Checked(request'[s].input)
    <3>1. CASE s = r
      <4>1. h.pc # "done" => h.pc \in {"insert", "commit"}
        BY DEF Handler, MayBecome
      <4> QED
        BY <1>1, <1>2, <3>1, <4>1 DEF MayBecome
    <3>2. CASE s # r
      BY <1>1, <3>2 DEF IInv, Outcomes
    <3> QED
      BY <3>1, <3>2
  <2> QED
    BY <1>2, <2>1, <2>2 DEF Outcomes, SameKey
<1>14. CommittedOnce'
  BY <1>1, <1>2 DEF IInv, CommittedOnce, SameKey, Op
<1> QED
  BY <1>5, <1>6, <1>7, <1>8, <1>9, <1>10, <1>11, <1>12, <1>13, <1>14 DEF IInv

\* An operation of the control plane keeps its tables typed.
LEMMA DesiredNextTyped ==
  ASSUME DesiredTypeOK, DesiredNext
  PROVE  DesiredTypeOK'
<1>1. version' \in 0..MaxChanges
  <2>1. Changes
    BY DEF DesiredNext, CreateTenant, CreateDomain, PutPolicy, OperatorSetsStatus
  <2> QED
    BY <2>1, ControlPlaneAssumption DEF DesiredTypeOK, Changes
<1>2. \A a \in TrailAction : Audits(a) => trail' \in [TrailAction -> Nat]
  BY DEF DesiredTypeOK, Audits
<1>3. \A a \in {"tenant.create", "domain.create", "policy.set"} : a \in TrailAction
  BY DEF TrailAction
<1>4. ASSUME NEW slug \in Slugs, CreateTenant(slug)
      PROVE  DesiredTypeOK'
  <2>1. DOMAIN tenants' = DOMAIN tenants \cup {slug}
    BY <1>4 DEF CreateTenant
  <2>2. \A t \in DOMAIN tenants : tenants[t] \in TenantStatus
    BY DEF DesiredTypeOK
  <2>3. tenants' \in [DOMAIN tenants \cup {slug} -> TenantStatus]
    BY <1>4, <2>2 DEF CreateTenant, TenantStatus
  <2>4. trail' \in [TrailAction -> Nat]
    BY <1>2, <1>3, <1>4 DEF CreateTenant
  <2> QED
    BY <1>1, <1>4, <2>1, <2>3, <2>4 DEF CreateTenant, DesiredTypeOK
<1>5. ASSUME NEW slug \in Slugs, NEW fqdn \in Fqdns, CreateDomain(slug, fqdn)
      PROVE  DesiredTypeOK'
  <2> DEFINE Row == [tenant : Slugs, status : DomainStatus]
  <2>1. DOMAIN domains' = DOMAIN domains \cup {fqdn}
    BY <1>5 DEF CreateDomain
  <2>2. \A d \in DOMAIN domains : domains[d] \in Row
    BY DEF DesiredTypeOK
  <2>3. [tenant |-> slug, status |-> "pending_dns"] \in Row
    BY DEF DomainStatus
  <2> HIDE DEF Row
  <2>4. domains' \in [DOMAIN domains \cup {fqdn} -> Row]
    BY <1>5, <2>2, <2>3 DEF CreateDomain
  <2>5. trail' \in [TrailAction -> Nat]
    BY <1>2, <1>3, <1>5 DEF CreateDomain
  <2> QED
    BY <1>1, <1>5, <2>1, <2>4, <2>5 DEF CreateDomain, DesiredTypeOK, Row
<1>6. ASSUME NEW slug \in Slugs, NEW p \in Thresholds, PutPolicy(slug, p)
      PROVE  DesiredTypeOK'
  <2>1. DOMAIN policies' = DOMAIN policies \cup {slug}
    BY <1>6 DEF PutPolicy
  <2>2. p \in Policy /\ \A t \in DOMAIN policies : policies[t] \in Policy
    BY ControlPlaneAssumption DEF DesiredTypeOK, Policy
  <2>3. policies' \in [DOMAIN policies \cup {slug} -> Policy]
    BY <1>6, <2>2 DEF PutPolicy
  <2>4. trail' \in [TrailAction -> Nat]
    BY <1>2, <1>3, <1>6 DEF PutPolicy
  <2> QED
    BY <1>1, <1>6, <2>1, <2>3, <2>4 DEF PutPolicy, DesiredTypeOK
<1>7. ASSUME OperatorSetsStatus
      PROVE  DesiredTypeOK'
  <2>1. ASSUME NEW t \in DOMAIN tenants, NEW s \in TenantStatus,
               tenants' = [tenants EXCEPT ![t] = s], UNCHANGED domains
        PROVE  DesiredTypeOK'
    <3>1. DOMAIN tenants' = DOMAIN tenants /\ tenants' \in [DOMAIN tenants -> TenantStatus]
      BY <2>1 DEF DesiredTypeOK, TenantStatus
    <3> QED
      BY <1>1, <1>7, <2>1, <3>1 DEF OperatorSetsStatus, DesiredTypeOK
  <2>2. ASSUME NEW d \in DOMAIN domains, NEW s \in {"active", "suspended"},
               domains' = [domains EXCEPT ![d].status = s], UNCHANGED tenants
        PROVE  DesiredTypeOK'
    <3>1. /\ DOMAIN domains' = DOMAIN domains
          /\ domains' \in [DOMAIN domains -> [tenant : Slugs, status : DomainStatus]]
      BY <2>2 DEF DesiredTypeOK, DomainStatus
    <3> QED
      BY <1>1, <1>7, <2>2, <3>1 DEF OperatorSetsStatus, DesiredTypeOK
  <2> QED
    BY <1>7, <2>1, <2>2 DEF OperatorSetsStatus
<1> QED
  BY <1>4, <1>5, <1>6, <1>7 DEF DesiredNext

\* The transaction of a judged request is an operation of the control plane, or the
\* account's, which is not one of its tables.
LEMMA WriteRowImplements ==
  ASSUME DesiredTypeOK, version < MaxChanges, NEW q \in Inputs, WriteRow(q),
         Valid(q), Checked(q), Referenced(q), ~Taken(q)
  PROVE  DesiredNext \/ UNCHANGED desired
<1>1. CASE q.op = "tenant"
  <2>1. q.slug \in Slugs /\ ValidSlug(q.slug) /\ q.slug \notin DOMAIN tenants
    BY <1>1, InputsAssumption DEF Valid, Taken
  <2>2. Changes /\ Audits("tenant.create") /\ UNCHANGED <<domains, policies>>
    BY <1>1 DEF WriteRow, Changes
  <2>3. tenants' = With(tenants, q.slug, "active")
    BY <1>1 DEF WriteRow
  <2>4. CreateTenant(q.slug)
    BY <2>1, <2>2, <2>3 DEF CreateTenant, With
  <2> QED
    BY <2>1, <2>4 DEF DesiredNext
<1>2. CASE q.op = "domain"
  <2>1. /\ q.fqdn \in Fqdns /\ q.fqdn \notin DOMAIN domains
        /\ q.tenant \in DOMAIN tenants /\ q.tenant \in Slugs
    BY <1>2, InputsAssumption DEF Taken, Referenced, DesiredTypeOK
  <2>2. Changes /\ Audits("domain.create") /\ UNCHANGED <<tenants, policies>>
    BY <1>2 DEF WriteRow, Changes
  <2>3. domains' = With(domains, q.fqdn, [tenant |-> q.tenant, status |-> "pending_dns"])
    BY <1>2 DEF WriteRow
  <2>4. CreateDomain(q.tenant, q.fqdn)
    BY <2>1, <2>2, <2>3 DEF CreateDomain, With
  <2> QED
    BY <2>1, <2>4 DEF DesiredNext
<1>3. CASE q.op = "policy"
  <2>1. /\ q.thresholds \in Thresholds /\ ValidPolicy(q.thresholds)
        /\ q.tenant \in DOMAIN tenants /\ q.tenant \in Slugs
    BY <1>3, InputsAssumption DEF Valid, Referenced, DesiredTypeOK
  <2>2. Changes /\ Audits("policy.set") /\ UNCHANGED <<tenants, domains>>
    BY <1>3 DEF WriteRow, Changes
  <2>3. policies' = With(policies, q.tenant, q.thresholds)
    BY <1>3 DEF WriteRow
  <2>4. PutPolicy(q.tenant, q.thresholds)
    BY <2>1, <2>2, <2>3 DEF PutPolicy, With
  <2> QED
    BY <2>1, <2>4 DEF DesiredNext
<1>4. CASE q.op = "account"
  BY <1>4 DEF WriteRow, desired
<1> QED
  BY <1>1, <1>2, <1>3, <1>4, InputOp DEF Operation

\* What is known of a request that is about to commit.
LEMMA AboutToCommit ==
  ASSUME IInv, NEW r \in Requests, request[r].pc = "commit"
  PROVE  /\ request[r].input \in Inputs
         /\ Valid(request[r].input) /\ Checked(request[r].input)
         /\ Referenced(request[r].input) /\ ~Taken(request[r].input)
         /\ r \notin committed
         /\ version < MaxChanges
<1>1. request[r].input \in Inputs
  BY DEF IInv, HasInput
<1>2. r \notin committed
  BY DEF IInv, Outcomes
<1>3. version < MaxChanges
  <2>1. IsFiniteSet(Open) /\ r \in Open
    BY AdminRequestsAssumption, FS_Subset DEF Open
  <2>2. Cardinality(Open) \in Nat /\ Cardinality(Open) # 0
    BY <2>1, FS_CardinalityType, FS_EmptySet
  <2>3. version \in Nat /\ MaxChanges \in Nat
    BY ControlPlaneAssumption DEF IInv, TypeOK, DesiredTypeOK
  <2> QED
    BY <2>2, <2>3 DEF IInv, Bounded
<1> QED
  BY <1>1, <1>2, <1>3 DEF IInv, Judged, CommitFree

\* A commit, acknowledged or not, is an operation of the control plane or none.
LEMMA CommitImplements ==
  ASSUME IInv, NEW r \in Requests, request[r].pc = "commit", WriteRow(request[r].input)
  PROVE  DesiredNext \/ UNCHANGED desired
<1>1. PICK q \in Inputs : q = request[r].input
  BY AboutToCommit
<1> QED
  BY <1>1, AboutToCommit, WriteRowImplements DEF IInv, TypeOK

\* A commit, acknowledged or not, keeps the invariant.
LEMMA CommitStep ==
  ASSUME IInv, NEW r \in Requests, NEW h \in Handler,
         request[r].pc = "commit", request' = [request EXCEPT ![r] = h],
         h.input = request[r].input, h.pc = "done", h.outcome \in {"Created", "DbError", "none"},
         WriteRow(request[r].input), committed' = committed \cup {r}, faults' \in 0..MaxFaults
  PROVE  IInv'
<1>1. /\ request' \in [Requests -> Handler]
      /\ request'[r] = h
      /\ \A s \in Requests \ {r} : request'[s] = request[s]
  BY OneHandler DEF IInv
<1>2. PICK q \in Inputs : q = request[r].input
  BY AboutToCommit
<1>3. WriteRow(q) /\ ~Taken(q) /\ r \notin committed /\ version < MaxChanges
  BY <1>2, AboutToCommit
<1>4. \A s \in Requests : request'[s].input = request[s].input
  BY <1>1
<1>5. \A p \in Inputs : Taken(p)' <=> Taken(p) \/ (q.op # "policy" /\ Key(p) = Key(q))
  BY <1>3, WriteRowTakes
<1>6. \A p \in Inputs : Referenced(p) => Referenced(p)'
  BY <1>3, WriteRowKeepsTenants DEF Referenced
<1>7. committed \subseteq Requests /\ committed' \subseteq Requests
  BY DEF IInv, TypeOK
<1>8. TypeOK'
  <2>1. DesiredTypeOK'
    <3>1. DesiredNext \/ UNCHANGED desired
      BY CommitImplements
    <3>2. CASE DesiredNext
      BY <3>2, DesiredNextTyped DEF IInv, TypeOK
    <3>3. CASE UNCHANGED desired
      BY <3>3 DEF desired, IInv, TypeOK, DesiredTypeOK
    <3> QED
      BY <3>1, <3>2, <3>3
  <2>2. accounts' \subseteq
          { <<i.local, i.fqdn>> : i \in { j \in Inputs : j.op = "account" } }
    <3>1. accounts' = accounts \/ (q.op = "account" /\ accounts' = accounts \cup {<<q.local, q.fqdn>>})
      BY <1>3 DEF WriteRow
    <3> QED
      BY <3>1 DEF IInv, TypeOK
  <2> QED
    BY <1>1, <1>7, <2>1, <2>2 DEF TypeOK
<1>9. Bounded'
  <2>1. /\ Cardinality(Open) \in Nat /\ Cardinality(Open') \in Nat
        /\ Cardinality(Open') = Cardinality(Open) - 1
    BY OpenRequests DEF IInv
  <2>2. version \in Nat /\ MaxChanges \in Nat
    BY ControlPlaneAssumption DEF IInv, TypeOK, DesiredTypeOK
  <2>3. version' \in Nat /\ version' <= version + 1
    BY <1>3, <2>2, WriteRowVersion
  <2> QED
    BY <2>1, <2>2, <2>3 DEF IInv, Bounded
<1>10. HasInput'
  BY <1>1, <1>2 DEF IInv, HasInput
<1>11. Judged'
  BY <1>1, <1>6 DEF IInv, Judged
<1>12. Exclusive'
  BY <1>1 DEF IInv, Exclusive, SameKey
<1>13. CommitFree'
  <2> SUFFICES ASSUME NEW s \in Requests, NEW p \in Inputs,
                      request'[s].pc = "commit", request'[s].input = p
               PROVE  ~Taken(p)'
    BY DEF CommitFree
  <2>1. s # r /\ request[s].pc = "commit" /\ request[s].input = p
    BY <1>1
  <2>2. ~Taken(p) /\ Key(p) # Key(q)
    BY <1>2, <2>1 DEF IInv, CommitFree, Exclusive, SameKey
  <2> QED
    BY <1>5, <2>2
<1>14. RowsStay'
  BY <1>2, <1>4, <1>5, <1>7 DEF IInv, RowsStay
<1>15. RowsCommitted'
  <2> SUFFICES ASSUME NEW p \in Inputs, Taken(p)'
               PROVE  \E s \in committed' : Key(request'[s].input) = Key(p)
    BY DEF RowsCommitted
  <2>1. CASE Taken(p)
    BY <1>4, <1>7, <2>1 DEF IInv, RowsCommitted
  <2>2. CASE Key(p) = Key(q)
    BY <1>2, <1>4, <1>7, <2>2
  <2> QED
    BY <1>5, <2>1, <2>2
<1>16. Outcomes'
  <2>1. ASSUME NEW s \in Requests, request'[s].outcome = "UniqueViolation"
        PROVE  \E t \in committed' : Key(request'[s].input) = Key(request'[t].input)
    <3>1. s # r /\ request[s].outcome = "UniqueViolation"
      BY <1>1, <2>1
    <3>2. PICK t \in committed : Key(request[s].input) = Key(request[t].input)
      BY <3>1 DEF IInv, Outcomes, SameKey
    <3> QED
      BY <1>4, <1>7, <3>2
  <2>2. ASSUME NEW s \in Requests
        PROVE  /\ request'[s].pc # "done" => request'[s].outcome = "none"
               /\ request'[s].outcome = "Created" => s \in committed'
               /\ s \in committed' => /\ request'[s].pc = "done"
                                      /\ request'[s].outcome \in {"Created", "DbError", "none"}
               /\ request'[s].outcome = "CheckViolation" =>
                    Valid(request'[s].input) /\ ~Checked(request'[s].input)
    <3>1. CASE s = r
      BY <1>1, <3>1
    <3>2. CASE s # r
      BY <1>1, <3>2 DEF IInv, Outcomes
    <3> QED
      BY <3>1, <3>2
  <2> QED
    BY <2>1, <2>2 DEF Outcomes, SameKey
<1>17. CommittedOnce'
  \* A committed request with the key of r would have taken it.
  <2>1. ASSUME NEW s \in committed, q.op # "policy"
        PROVE  Key(request[s].input) # Key(q)
    <3>1. PICK p \in Inputs : p = request[s].input
      BY <1>7 DEF IInv, Outcomes, HasInput
    <3>2. ASSUME Key(p) = Key(q) PROVE FALSE
      <4>1. p.op = q.op
        BY <3>2, KeyFields
      <4>2. Taken(p)
        BY <2>1, <3>1, <4>1 DEF IInv, RowsStay
      <4> QED
        BY <1>3, <3>2, <4>2, TakenByKey
    <3> QED
      BY <3>1, <3>2
  <2>2. ASSUME NEW s \in committed, Key(request[s].input) = Key(q)
        PROVE  request[s].input.op = "policy" /\ q.op = "policy"
    <3>1. PICK p \in Inputs : p = request[s].input
      BY <1>7 DEF IInv, Outcomes, HasInput
    <3>2. p.op = q.op
      BY <2>2, <3>1, KeyFields
    <3> QED
      BY <2>1, <2>2, <3>1, <3>2
  <2> SUFFICES ASSUME NEW s \in committed', NEW t \in committed', s # t,
                      Key(request[s].input) = Key(request[t].input)
               PROVE  request[s].input.op = "policy"
    BY <1>4, <1>7 DEF CommittedOnce, SameKey, Op
  <2>3. CASE s \in committed /\ t \in committed
    BY <2>3 DEF IInv, CommittedOnce, SameKey, Op
  <2>4. CASE s = r
    BY <1>2, <2>2, <2>4
  <2>5. CASE t = r
    BY <1>2, <2>2, <2>5
  <2> QED
    BY <2>3, <2>4, <2>5
<1> QED
  BY <1>8, <1>9, <1>10, <1>11, <1>12, <1>13, <1>14, <1>15, <1>16, <1>17 DEF IInv

\* What Finish makes of a handler.
LEMMA Finished ==
  ASSUME TypeOK, NEW r \in Requests, NEW outcome \in Outcome, Finish(r, outcome)
  PROVE  \E h \in Handler :
           /\ request' = [request EXCEPT ![r] = h]
           /\ h.input = request[r].input /\ h.pc = "done" /\ h.outcome = outcome
<1>1. PICK h : h = [input |-> request[r].input, pc |-> "done", outcome |-> outcome]
  OBVIOUS
<1>2. request[r].input \in Inputs \cup {None}
  BY DEF TypeOK, Handler
<1>3. h \in Handler
  BY <1>1, <1>2 DEF Handler
<1>4. h.input = request[r].input /\ h.pc = "done" /\ h.outcome = outcome
  BY <1>1
<1>5. request' = [request EXCEPT ![r] = h]
  BY <1>1 DEF Finish
<1> QED
  BY <1>3, <1>4, <1>5

\* A handler may end with any outcome that says what it met.
LEMMA FinishStep ==
  ASSUME IInv, NEW r \in Requests, NEW outcome \in Outcome \ {"Created"},
         Finish(r, outcome), request[r].pc \in {"insert", "commit"},
         outcome = "UniqueViolation" => Taken(request[r].input),
         outcome = "CheckViolation" => ~Checked(request[r].input),
         UNCHANGED <<desired, accounts, committed>>, faults' \in 0..MaxFaults
  PROVE  IInv'
<1>1. PICK h \in Handler :
        /\ request' = [request EXCEPT ![r] = h]
        /\ h.input = request[r].input /\ h.pc = "done" /\ h.outcome = outcome
  BY Finished DEF IInv
<1>2. h.input \in Inputs /\ Valid(h.input)
  BY <1>1 DEF IInv, HasInput, Judged
<1>3. MayBecome(r, h)
  BY <1>1, <1>2 DEF MayBecome
<1> QED
  BY <1>1, <1>3, LocalStep

\* A request that arrives keeps the invariant.
LEMMA ReceiveIInv ==
  ASSUME IInv, NEW r \in Requests, NEW q \in Inputs, Receive(r, q)
  PROVE  IInv'
<1>1. /\ request[r].pc = "idle" /\ request[r].outcome = "none" /\ request[r] \in Handler
      /\ UNCHANGED <<desired, accounts, committed>> /\ faults' \in 0..MaxFaults
  BY DEF Receive, IInv, TypeOK, Outcomes
<1>2. ASSUME NEW outcome \in {"Validation", "NotFound"},
             request' = [request EXCEPT ![r] =
                           [input |-> q, pc |-> "done", outcome |-> outcome]]
      PROVE  IInv'
  <2>1. PICK h : h = [input |-> q, pc |-> "done", outcome |-> outcome]
    OBVIOUS
  <2>2. h \in Handler
    BY <2>1 DEF Handler, Outcome
  <2>3. MayBecome(r, h)
    BY <2>1 DEF MayBecome
  <2> QED
    BY <1>1, <1>2, <2>1, <2>2, <2>3, LocalStep
<1>3. ASSUME Valid(q),
             request' = [request EXCEPT ![r] =
                           [input |-> q, pc |-> "insert", outcome |-> "none"]]
      PROVE  IInv'
  <2>1. PICK h : h = [input |-> q, pc |-> "insert", outcome |-> "none"]
    OBVIOUS
  <2>2. h \in Handler
    BY <2>1 DEF Handler, Outcome
  <2>3. MayBecome(r, h)
    BY <1>3, <2>1 DEF MayBecome
  <2> QED
    BY <1>1, <1>3, <2>1, <2>2, <2>3, LocalStep
<1> QED
  BY <1>2, <1>3 DEF Receive

\* The INSERT, whatever PostgreSQL makes of it, keeps the invariant.
LEMMA InsertIInv ==
  ASSUME IInv, NEW r \in Requests, Insert(r)
  PROVE  IInv'
<1>1. /\ request[r].pc = "insert" /\ request[r].outcome = "none" /\ request[r] \in Handler
      /\ UNCHANGED <<desired, accounts, committed>> /\ faults' \in 0..MaxFaults
  BY DEF Insert, IInv, TypeOK, Outcomes
<1>2. {"CheckViolation", "UniqueViolation", "ForeignKeyViolation"} \subseteq Outcome \ {"Created"}
  BY DEF Outcome
<1>3. CASE ~Checked(request[r].input) /\ Finish(r, "CheckViolation")
  BY <1>1, <1>2, <1>3, FinishStep
<1>4. CASE Taken(request[r].input) /\ Finish(r, "UniqueViolation")
  BY <1>1, <1>2, <1>4, FinishStep
<1>5. CASE Finish(r, "ForeignKeyViolation")
  BY <1>1, <1>2, <1>5, FinishStep
<1>6. CASE /\ Checked(request[r].input) /\ ~Blocked(r)
           /\ ~Taken(request[r].input) /\ Referenced(request[r].input)
           /\ request' = [request EXCEPT ![r].pc = "commit"]
  <2>1. PICK h : h = [input |-> request[r].input, pc |-> "commit", outcome |-> "none"]
    OBVIOUS
  <2>2. request[r].input \in Inputs /\ Valid(request[r].input)
    BY <1>1 DEF IInv, HasInput, Judged
  <2>3. h \in Handler
    BY <2>1, <2>2 DEF Handler, Outcome
  <2>4. [request[r] EXCEPT !.pc = "commit"] = h
    BY <1>1, <2>1 DEF Handler
  <2>5. request' = [request EXCEPT ![r] = h]
    BY <1>6, <2>4
  <2>6. \A s \in Requests \ {r} : request[s].pc = "commit" => Key(request[s].input) # Key(h.input)
    BY <1>6, <2>1 DEF Blocked, SameKey
  <2>7. h.input = request[r].input /\ h.pc = "commit" /\ h.outcome = "none"
    BY <2>1
  <2>8. MayBecome(r, h)
    BY <1>6, <2>2, <2>6, <2>7 DEF MayBecome
  <2> QED
    BY <1>1, <2>3, <2>5, <2>8, LocalStep
<1> QED
  BY <1>3, <1>4, <1>5, <1>6 DEF Insert

\* The commit keeps the invariant.
LEMMA CommitIInv ==
  ASSUME IInv, NEW r \in Requests, Commit(r)
  PROVE  IInv'
<1>1. "Created" \in Outcome /\ Finish(r, "Created")
  BY DEF Commit, Outcome
<1>2. PICK h \in Handler :
        /\ request' = [request EXCEPT ![r] = h]
        /\ h.input = request[r].input /\ h.pc = "done" /\ h.outcome = "Created"
  BY <1>1, Finished DEF IInv
<1>3. /\ request[r].pc = "commit" /\ WriteRow(request[r].input)
      /\ committed' = committed \cup {r} /\ faults' \in 0..MaxFaults
  BY DEF Commit, IInv, TypeOK
<1> QED
  BY <1>2, <1>3, CommitStep

\* An error or a lost acknowledgement keeps the invariant.
LEMMA FailIInv ==
  ASSUME IInv, NEW r \in Requests, Fail(r)
  PROVE  IInv'
<1>1. PICK outcome \in {"DbError", "none"} : Finish(r, outcome)
  BY DEF Fail
<1>2. outcome \in Outcome \ {"Created", "UniqueViolation", "CheckViolation"}
  BY DEF Outcome
<1>3. faults' \in 0..MaxFaults
  BY AdminRequestsAssumption DEF Fail, Fault, IInv, TypeOK
<1>4. CASE UNCHANGED <<desired, accounts, committed>>
  BY <1>1, <1>2, <1>3, <1>4, FinishStep DEF Fail
<1>5. CASE /\ request[r].pc = "commit" /\ WriteRow(request[r].input)
           /\ committed' = committed \cup {r}
  <2>1. PICK h \in Handler :
          /\ request' = [request EXCEPT ![r] = h]
          /\ h.input = request[r].input /\ h.pc = "done" /\ h.outcome = outcome
    BY <1>1, <1>2, Finished DEF IInv
  <2>2. h.outcome \in {"Created", "DbError", "none"}
    BY <2>1
  <2> QED
    BY <1>3, <1>5, <2>1, <2>2, CommitStep
<1> QED
  BY <1>4, <1>5 DEF Fail

\* An operator who changes a status keeps the invariant.
LEMMA OperatorIInv ==
  ASSUME IInv, Operator
  PROVE  IInv'
<1>1. UNCHANGED <<accounts, request, committed, faults>> /\ OperatorSetsStatus
  BY DEF Operator
<1>2. DOMAIN tenants' = DOMAIN tenants /\ DOMAIN domains' = DOMAIN domains
  BY <1>1 DEF OperatorSetsStatus
<1>3. \A q \in Inputs : (Taken(q)' <=> Taken(q)) /\ (Referenced(q)' <=> Referenced(q))
  BY <1>1, <1>2 DEF Taken, Referenced
<1>4. DesiredTypeOK'
  BY <1>1, DesiredNextTyped DEF DesiredNext, IInv, TypeOK
<1>5. Bounded'
  <2>1. IsFiniteSet(Open)
    BY AdminRequestsAssumption, FS_Subset DEF Open
  <2>2. Cardinality(Open) \in Nat
    BY <2>1, FS_CardinalityType
  <2>3. version \in Nat /\ MaxChanges \in Nat /\ version' = version + 1
    BY <1>1, ControlPlaneAssumption DEF IInv, TypeOK, DesiredTypeOK, OperatorSetsStatus, Changes
  <2>4. Open' = Open /\ version + Cardinality(Open) < MaxChanges
    BY <1>1 DEF Operator, Open
  <2> QED
    BY <2>2, <2>3, <2>4 DEF Bounded
<1> QED
  BY <1>1, <1>3, <1>4, <1>5
     DEF IInv, TypeOK, HasInput, Judged, Exclusive, CommitFree, RowsStay, RowsCommitted, Outcomes,
         CommittedOnce, SameKey, Op

\* Initially the invariant holds.
LEMMA InitIInv == Init => IInv
<1> SUFFICES ASSUME Init PROVE IInv
  OBVIOUS
<1>1. \A r \in Requests : /\ request[r].input = None /\ request[r].pc = "idle"
                          /\ request[r].outcome = "none"
  BY DEF Init
<1>2. DesiredTypeOK
  <2>1. DOMAIN tenants = {} /\ DOMAIN domains = {} /\ DOMAIN policies = {}
    BY DEF Init, DesiredInit
  <2>2. tenants \in [{} -> TenantStatus] /\ policies \in [{} -> Policy]
    BY DEF Init, DesiredInit
  <2>3. domains \in [{} -> [tenant : Slugs, status : DomainStatus]]
    BY DEF Init, DesiredInit
  <2>4. trail \in [TrailAction -> Nat] /\ version \in 0..MaxChanges
    BY ControlPlaneAssumption DEF Init, DesiredInit
  <2> QED
    BY <2>1, <2>2, <2>3, <2>4 DEF DesiredTypeOK
<1>3. request \in [Requests -> Handler]
  BY DEF Init, Handler, Outcome
<1>4. TypeOK
  BY <1>2, <1>3, AdminRequestsAssumption DEF Init, TypeOK
<1>5. Bounded
  <2>1. Open = Requests /\ version = 0
    BY <1>1 DEF Open, Init, DesiredInit
  <2>2. Cardinality(Requests) \in Nat /\ Cardinality(Requests) <= MaxChanges
    BY AdminRequestsAssumption, FS_CardinalityType
  <2> QED
    BY <2>1, <2>2 DEF Bounded
<1>6. \A q \in Inputs : ~Taken(q)
  BY DEF Init, DesiredInit, Taken
<1>7. committed = {}
  BY DEF Init
<1>8. HasInput /\ Judged /\ Exclusive /\ CommitFree /\ RowsStay /\ RowsCommitted
  BY <1>1, <1>6, <1>7
     DEF HasInput, Judged, Exclusive, CommitFree, RowsStay, RowsCommitted
<1>9. Outcomes /\ CommittedOnce
  BY <1>1, <1>7 DEF Outcomes, CommittedOnce
<1> QED
  BY <1>4, <1>5, <1>8, <1>9 DEF IInv

\* Every step keeps the invariant.
LEMMA NextIInv ==
  ASSUME IInv, [Next]_vars
  PROVE  IInv'
<1>1. CASE UNCHANGED vars
  <2>1. UNCHANGED <<tenants, domains, policies, trail, version, accounts, request, committed, faults>>
    BY <1>1 DEF vars, desired
  <2>2. \A q \in Inputs : (Taken(q)' <=> Taken(q)) /\ (Referenced(q)' <=> Referenced(q))
    BY <2>1 DEF Taken, Referenced
  <2> QED
    BY <2>1, <2>2
       DEF IInv, TypeOK, DesiredTypeOK, Bounded, Open, HasInput, Judged, Exclusive, CommitFree,
           RowsStay, RowsCommitted, Outcomes, CommittedOnce, SameKey, Op
<1> QED
  BY <1>1, ReceiveIInv, InsertIInv, CommitIInv, FailIInv, OperatorIInv DEF Next

-----------------------------------------------------------------------------
\* The invariant is inductive: it holds in every state of the handlers and the tables.
THEOREM InductiveInvariant == Spec => []IInv
BY InitIInv, NextIInv, PTL DEF Spec

\* For any number of concurrent handlers, what a client is told is so: a 200 or 201 was
\* committed, a 404, 409 or 422 was not, a 409 has a committed rival, and no key of
\* tenants, domains or accounts is committed twice.
THEOREM RepliesAreTruthful == Spec => []RepliesTruthful
<1>1. ASSUME IInv, NEW r \in Requests
      PROVE  /\ Status(r) \in {200, 201} => request[r].outcome = "Created"
             /\ Status(r) = 409 => request[r].outcome = "UniqueViolation"
             /\ Status(r) \in {404, 409, 422} =>
                  request[r].outcome \in {"Validation", "NotFound", "UniqueViolation"}
  <2>1. request[r].outcome \in Outcome
    BY <1>1 DEF IInv, TypeOK, Handler
  <2>2. request[r].outcome = "Created" => Status(r) \in {200, 201}
    BY DEF Status
  <2>3. request[r].outcome = "Validation" => Status(r) = 422
    BY DEF Status
  <2>4. request[r].outcome = "NotFound" => Status(r) = 404
    BY DEF Status
  <2>5. request[r].outcome = "UniqueViolation" => Status(r) = 409
    BY DEF Status
  <2>6. request[r].outcome \in {"CheckViolation", "ForeignKeyViolation", "DbError"} =>
          Status(r) = 500
    BY DEF Status
  <2>7. request[r].outcome = "none" => Status(r) = 0
    BY DEF Status
  <2> QED
    BY <2>1, <2>2, <2>3, <2>4, <2>5, <2>6, <2>7 DEF Outcome
<1>2. ASSUME IInv PROVE RepliesTruthful
  <2>1. ASSUME NEW r \in Requests
        PROVE  /\ Status(r) \in {200, 201} => r \in committed
               /\ Status(r) \in {404, 409, 422} => r \notin committed
               /\ Status(r) = 409 => \E s \in committed : SameKey(r, s)
    BY <1>1, <1>2, <2>1 DEF IInv, Outcomes
  <2>2. ASSUME NEW r \in committed, Op(r) # "policy", NEW s \in committed \ {r}
        PROVE  ~SameKey(r, s)
    BY <1>2, <2>2 DEF IInv, CommittedOnce
  <2> QED
    BY <1>2, <2>1, <2>2 DEF RepliesTruthful, IInv
<1> QED
  BY <1>2, InductiveInvariant, PTL

\* A CHECK refuses what its validator let through in two cases only, whatever the
\* inputs are: the last label of a name, and a quota.
THEOREM ValidatorsLeaveTwoCases == Spec => []ValidatorGaps
<1>1. ASSUME NEW q \in Inputs, Valid(q), ~Checked(q)
      PROVE  \/ /\ q.op = "domain"
                /\ ~(Len(TopLabel(q.fqdn)) >= 2 /\ OverChars(TopLabel(q.fqdn), Lower))
             \/ q.op = "account" /\ q.quota \notin QuotaMb
  <2>1. CASE q.op = "tenant"
    BY <1>1, <2>1 DEF Valid, Checked, ValidSlug, CheckSlug, OverChars
  <2>2. CASE q.op = "domain"
    BY <1>1, <2>2 DEF Valid, Checked, ValidFqdn, CheckFqdn
  <2>3. CASE q.op = "account"
    BY <1>1, <2>3 DEF Checked, CheckQuota
  <2>4. CASE q.op = "policy"
    BY <1>1, <2>4 DEF Valid, Checked
  <2> QED
    BY <2>1, <2>2, <2>3, <2>4, InputOp DEF Operation
<1>2. ASSUME IInv PROVE ValidatorGaps
  <2>1. ASSUME NEW r \in Requests, request[r].outcome = "CheckViolation"
        PROVE  /\ request[r].input \in Inputs
               /\ Valid(request[r].input) /\ ~Checked(request[r].input)
    BY <1>2, <2>1 DEF IInv, Outcomes, HasInput
  <2> QED
    BY <1>1, <2>1 DEF ValidatorGaps
<1> QED
  BY <1>2, InductiveInvariant, PTL

\* The handlers implement the control plane: every step of theirs, a commit whose
\* acknowledgement is lost included, is one of its operations or leaves its tables
\* alone, so what ConfigCompiler assumes of the desired state is what admin-api does.
THEOREM Refinement == Spec => ImplementsControlPlane
<1>1. Init => DesiredInit
  BY DEF Init
<1>2. ASSUME IInv, [Next]_vars
      PROVE  [DesiredNext]_desired
  <2>1. ASSUME NEW r \in Requests, Commit(r) \/ Fail(r)
        PROVE  DesiredNext \/ UNCHANGED desired
    BY <1>2, <2>1, CommitImplements DEF Commit, Fail
  <2>2. ASSUME NEW r \in Requests, Insert(r) \/ \E q \in Inputs : Receive(r, q)
        PROVE  UNCHANGED desired
    BY <2>2 DEF Insert, Receive
  <2>3. Operator => DesiredNext
    BY DEF Operator, DesiredNext
  <2>4. UNCHANGED vars => UNCHANGED desired
    BY DEF vars
  <2> QED
    BY <1>2, <2>1, <2>2, <2>3, <2>4 DEF Next
<1> QED
  BY <1>1, <1>2, InductiveInvariant, PTL DEF Spec, ImplementsControlPlane
=============================================================================
