--------------------------- MODULE AdminRequests ---------------------------
(***************************************************************************)
(* The requests that write admin-api's desired state, from the validator   *)
(* to the reply.  A handler validates its input, runs one transaction (an  *)
(* INSERT or an upsert, and the audit row) and replies; what PostgreSQL    *)
(* refuses, a CHECK, a UNIQUE index or a foreign key, rolls back and is    *)
(* mapped onto a status.  An INSERT waits for another transaction that has *)
(* inserted the same key and has not ended.                                *)
(*                                                                         *)
(* The steps implement those of ControlPlane, which keeps the tables.  A   *)
(* tenant is known by its slug and a domain by its fqdn, so the ids that   *)
(* paths and bodies carry are these names.  What happens to an account     *)
(* once it is committed is the subject of Provisioning.                    *)
(***************************************************************************)
EXTENDS ControlPlane
LOCAL INSTANCE FiniteSetsExt

CONSTANTS
  Requests,
  Inputs,      \* what the requests carry
  None,
  MaxFaults    \* bound on database errors, lost acknowledgements and clients that go

ASSUME AdminRequestsAssumption ==
  /\ \A q \in Inputs : q.op \in {"tenant", "domain", "account", "policy"}
  /\ None \notin Inputs
  /\ IsFiniteSet(Requests) /\ Cardinality(Requests) <= MaxChanges
  /\ MaxFaults \in Nat

VARIABLES
  accounts,    \* the addresses of the accounts rows
  request,     \* the handlers
  committed,   \* the requests whose transaction committed
  faults

vars == <<desired, accounts, request, committed, faults>>

\* The errors that a handler returns, and what becomes of them.
Outcome ==
  {"none", "Created", "Validation", "NotFound", "UniqueViolation",
   "CheckViolation", "ForeignKeyViolation", "DbError"}

Handler ==
  [input : Inputs \cup {None}, pc : {"idle", "insert", "commit", "done"},
   outcome : Outcome]

TypeOK ==
  /\ DesiredTypeOK
  /\ accounts \subseteq { <<q.local, q.fqdn>> : q \in { i \in Inputs : i.op = "account" } }
  /\ request \in [Requests -> Handler]
  /\ committed \subseteq Requests
  /\ faults \in 0..MaxFaults

Init ==
  /\ DesiredInit
  /\ accounts = {}
  /\ request = [r \in Requests |-> [input |-> None, pc |-> "idle", outcome |-> "none"]]
  /\ committed = {}
  /\ faults = 0

-----------------------------------------------------------------------------
(* The validators, and the CHECKs of the schema. *)

\* The labels of a name: what lies between two dots, or a dot and an end.
Labels(name) ==
  LET dots == {0, Len(name) + 1} \cup { i \in DOMAIN name : name[i] = "." }
  IN  { SubSeq(name, s[1] + 1, s[2] - 1) :
          s \in { p \in dots \X dots :
                    p[1] < p[2] /\ \A x \in dots : x <= p[1] \/ p[2] <= x } }

TopLabel(name) ==
  SubSeq(name, Max({0} \cup { i \in DOMAIN name : name[i] = "." }) + 1, Len(name))

OverChars(text, chars) == \A i \in DOMAIN text : text[i] \in chars

HostLabel(label) ==
  /\ Len(label) \in 1..63
  /\ OverChars(label, LowerOrDigit \cup {"-"})
  /\ label[1] # "-" /\ label[Len(label)] # "-"

ValidFqdn(fqdn) ==
  /\ Len(fqdn) <= 253
  /\ \E i \in DOMAIN fqdn : fqdn[i] = "."
  /\ \A label \in Labels(fqdn) : HostLabel(label)

ValidLocalPart(local) ==
  /\ Len(local) \in 1..64
  /\ OverChars(local, LowerOrDigit \cup {".", "-", "_", "+"})
  /\ local[1] # "." /\ local[Len(local)] # "."

\* tenants.slug ~ '^[a-z0-9][a-z0-9-]{1,62}$'
CheckSlug(slug) ==
  /\ Len(slug) \in 2..63
  /\ OverChars(slug, LowerOrDigit \cup {"-"})
  /\ slug[1] # "-"

\* domains.fqdn: labels that end in a dot, and then [a-z]{2,63}.
CheckFqdn(fqdn) ==
  /\ \E i \in DOMAIN fqdn : fqdn[i] = "."
  /\ \A label \in Labels(fqdn) : HostLabel(label)
  /\ Len(TopLabel(fqdn)) >= 2 /\ OverChars(TopLabel(fqdn), Lower)

\* accounts.quota_mb
QuotaMb == 1..1048576
CheckQuota(quota) == quota \in QuotaMb

\* Mutant: the slug is not validated.
ValidNoSlug(q) ==
  CASE q.op = "tenant" -> TRUE
    [] q.op = "domain" -> ValidFqdn(q.fqdn)
    [] q.op = "account" -> ValidLocalPart(q.local)
    [] q.op = "policy" -> ValidPolicy(q.thresholds)
Valid(q) ==
  CASE q.op = "tenant" -> ValidSlug(q.slug)
    [] q.op = "domain" -> ValidFqdn(q.fqdn)
    [] q.op = "account" -> ValidLocalPart(q.local)
    [] q.op = "policy" -> ValidPolicy(q.thresholds)

Checked(q) ==
  CASE q.op = "tenant" -> CheckSlug(q.slug)
    [] q.op = "domain" -> CheckFqdn(q.fqdn)
    [] q.op = "account" -> CheckQuota(q.quota)
    [] q.op = "policy" -> ValidPolicy(q.thresholds)

\* ControlPlane knows every name and policy that an input can bring into the tables.
ASSUME InputsAssumption ==
  \A q \in Inputs :
    /\ q.op = "tenant" /\ Valid(q) /\ Checked(q) => q.slug \in Slugs
    /\ q.op = "domain" /\ Valid(q) /\ Checked(q) => q.fqdn \in Fqdns
    /\ q.op = "policy" /\ Valid(q) => q.thresholds \in Thresholds

-----------------------------------------------------------------------------
Op(r) == request[r].input.op

\* What the UNIQUE index or primary key of the table sees.
Key(q) ==
  CASE q.op = "tenant" -> <<"slug", q.slug>>
    [] q.op = "domain" -> <<"fqdn", q.fqdn>>
    [] q.op = "account" -> <<"email", q.local, q.fqdn>>
    [] q.op = "policy" -> <<"tenant_id", q.tenant>>

SameKey(r, s) == Key(request[r].input) = Key(request[s].input)

\* The rows with the key that are committed; an upsert meets them without conflict.
Taken(q) ==
  \/ q.op = "tenant" /\ q.slug \in DOMAIN tenants
  \/ q.op = "domain" /\ q.fqdn \in DOMAIN domains
  \/ q.op = "account" /\ <<q.local, q.fqdn>> \in accounts

\* REFERENCES tenants(id); the lookup of create_account has seen the domain, and so
\* its tenant.
Referenced(q) == q.op \in {"domain", "policy"} => q.tenant \in DOMAIN tenants

\* create_account's SELECT, under the row-level security of the path's tenant.
DomainFound(q) ==
  /\ q.fqdn \in DOMAIN domains
  /\ domains[q.fqdn].tenant = q.tenant
  /\ domains[q.fqdn].status # "suspended"

Finish(r, outcome) ==
  request' = [request EXCEPT ![r] = [input |-> @.input, pc |-> "done", outcome |-> outcome]]

Fault ==
  /\ faults < MaxFaults
  /\ faults' = faults + 1

\* A request arrives: its validator, and the lookup of create_account.
Receive(r, q) ==
  /\ request[r].pc = "idle"
  /\ LET Becomes(pc, outcome) ==
           request' = [request EXCEPT ![r] = [input |-> q, pc |-> pc, outcome |-> outcome]]
     IN \/ ~Valid(q) /\ Becomes("done", "Validation")
        \/ Valid(q) /\ q.op = "account" /\ ~DomainFound(q) /\ Becomes("done", "NotFound")
        \/ /\ Valid(q) /\ (q.op = "account" => DomainFound(q))
           /\ Becomes("insert", "none")
  /\ UNCHANGED <<desired, accounts, committed, faults>>

\* Another transaction has written the key and has not ended.
\* Mutant: one that is about to write it counts as well.
BlockedByWaiter(r) ==
  \E s \in Requests \ {r} : request[s].pc \in {"insert", "commit"} /\ SameKey(r, s)
Blocked(r) == \E s \in Requests \ {r} : request[s].pc = "commit" /\ SameKey(r, s)

\* The INSERT: PostgreSQL judges the CHECKs, then the index, then the foreign key.
\* Mutant: the index is looked at before, and not by, the INSERT.
InsertUnindexed(r) ==
  /\ request[r].pc = "insert"
  /\ LET q == request[r].input
     IN \/ ~Checked(q) /\ Finish(r, "CheckViolation")
        \/ Checked(q) /\ Taken(q) /\ Finish(r, "UniqueViolation")
        \/ Checked(q) /\ ~Taken(q) /\ ~Referenced(q) /\ Finish(r, "ForeignKeyViolation")
        \/ /\ Checked(q) /\ ~Taken(q) /\ Referenced(q)
           /\ request' = [request EXCEPT ![r].pc = "commit"]
  /\ UNCHANGED <<desired, accounts, committed, faults>>
Insert(r) ==
  /\ request[r].pc = "insert"
  /\ LET q == request[r].input
     IN \/ ~Checked(q) /\ Finish(r, "CheckViolation")
        \/ /\ Checked(q) /\ ~Blocked(r)
           /\ \/ Taken(q) /\ Finish(r, "UniqueViolation")
              \/ ~Taken(q) /\ ~Referenced(q) /\ Finish(r, "ForeignKeyViolation")
              \/ /\ ~Taken(q) /\ Referenced(q)
                 /\ request' = [request EXCEPT ![r].pc = "commit"]
  /\ UNCHANGED <<desired, accounts, committed, faults>>

With(f, key, row) == [k \in DOMAIN f \cup {key} |-> IF k = key THEN row ELSE f[k]]

\* The row, with its column defaults, and its audit row; that of an account is in
\* Provisioning's audit.
WriteRow(q) ==
  /\ \/ /\ q.op = "tenant" /\ tenants' = With(tenants, q.slug, "active")
        /\ Audits("tenant.create") /\ UNCHANGED <<domains, policies, accounts>>
     \/ /\ q.op = "domain"
        /\ domains' = With(domains, q.fqdn, [tenant |-> q.tenant, status |-> "pending_dns"])
        /\ Audits("domain.create") /\ UNCHANGED <<tenants, policies, accounts>>
     \/ /\ q.op = "policy" /\ policies' = With(policies, q.tenant, q.thresholds)
        /\ Audits("policy.set") /\ UNCHANGED <<tenants, domains, accounts>>
     \/ /\ q.op = "account" /\ accounts' = accounts \cup {<<q.local, q.fqdn>>}
        /\ UNCHANGED <<tenants, domains, policies, trail>>
  /\ version' = IF q.op = "account" THEN version ELSE version + 1

\* record and commit.
Commit(r) ==
  /\ request[r].pc = "commit"
  /\ WriteRow(request[r].input)
  /\ committed' = committed \cup {r}
  /\ Finish(r, "Created")
  /\ UNCHANGED faults

\* A database error, or the handler is dropped with its client: the transaction rolls
\* back, unless it is the acknowledgement of its commit that was lost.
\* Mutant: the handler replies as if it had succeeded.
FailCreated(r) ==
  /\ request[r].pc \in {"insert", "commit"}
  /\ Fault
  /\ \/ UNCHANGED <<desired, accounts, committed>>
     \/ /\ request[r].pc = "commit"
        /\ WriteRow(request[r].input)
        /\ committed' = committed \cup {r}
  /\ Finish(r, "Created")
Fail(r) ==
  /\ request[r].pc \in {"insert", "commit"}
  /\ Fault
  /\ \/ UNCHANGED <<desired, accounts, committed>>
     \/ /\ request[r].pc = "commit"
        /\ WriteRow(request[r].input)
        /\ committed' = committed \cup {r}
  /\ \E outcome \in {"DbError", "none"} : Finish(r, outcome)

\* The bound leaves a change for every request that may still commit.
Operator ==
  /\ version + Cardinality({ r \in Requests : request[r].pc # "done" }) < MaxChanges
  /\ OperatorSetsStatus
  /\ UNCHANGED <<accounts, request, committed, faults>>

Next ==
  \/ \E r \in Requests :
       \/ \E q \in Inputs : Receive(r, q)
       \/ Insert(r)
       \/ Commit(r)
       \/ Fail(r)
  \/ Operator

Spec == Init /\ [][Next]_vars

\* PostgreSQL answers, and the runtime runs every handler that waits for nothing.
FairSpec == Spec /\ \A r \in Requests : WF_vars(Insert(r) \/ Commit(r))

-----------------------------------------------------------------------------
\* What the handlers reply, and ApiError::into_response.
Status(r) ==
  CASE request[r].outcome = "Created" -> IF Op(r) = "policy" THEN 200 ELSE 201
    [] request[r].outcome = "Validation" -> 422
    [] request[r].outcome = "NotFound" -> 404
    [] request[r].outcome = "UniqueViolation" -> 409
    [] request[r].outcome \in {"CheckViolation", "ForeignKeyViolation", "DbError"} -> 500
    [] request[r].outcome = "none" -> 0

\* What a client is told is so: a 200 or 201 was committed; a 422, 404 or 409 was not, and a
\* 409 has a rival that was, never one that rolled back; no key is ever committed
\* twice, although no handler looks before its INSERT; and only a 500, or no reply at
\* all, leaves the client in doubt.
RepliesTruthful ==
  /\ TypeOK
  /\ \A r \in Requests :
       /\ Status(r) \in {200, 201} => r \in committed
       /\ Status(r) \in {404, 409, 422} => r \notin committed
       /\ Status(r) = 409 => \E s \in committed : SameKey(r, s)
       /\ r \in committed /\ Op(r) # "policy" =>
            \A s \in committed \ {r} : ~SameKey(r, s)

\* models.rs: "DB CHECKs are the backstop; these produce friendly 422s".  Where the
\* validators are the weaker of the two, a client gets a 500: for a name whose last
\* label is not of two or more letters, and for a quota out of range.  Nowhere else.
ValidatorGaps ==
  \A r \in Requests :
    request[r].outcome = "CheckViolation" =>
      LET q == request[r].input
      IN  \/ q.op = "domain" /\ ~(Len(TopLabel(q.fqdn)) >= 2 /\ OverChars(TopLabel(q.fqdn), Lower))
          \/ q.op = "account" /\ q.quota \notin QuotaMb

\* Every step of the handlers, a lost acknowledgement included, is an operation of
\* ControlPlane or changes nothing of it.
ImplementsControlPlane == DesiredInit /\ [][DesiredNext]_desired

\* Every request that arrives is answered or dropped: two INSERTs of one key do not
\* wait for each other, and the second does not wait for ever for a first whose
\* handler was dropped.
EveryRequestAnswered ==
  \A r \in Requests : request[r].pc # "idle" ~> request[r].pc = "done"
=============================================================================
