---------------------------- MODULE ControlPlane ----------------------------
(***************************************************************************)
(* The desired state that admin-api keeps for the mail plane: tenants,     *)
(* their domains and their abuse policies.  Each handler is a validation   *)
(* and one transaction, which commits with its audit row; a request that   *)
(* fails its validation or a constraint changes nothing and is left out.   *)
(* A tenant is known by its slug and a domain by its fqdn (both UNIQUE).   *)
(***************************************************************************)
EXTENDS Naturals, Sequences, FiniteSets

CONSTANTS
  Slugs,        \* the slugs that requests carry, as sequences of characters
  Fqdns,        \* names that validate_fqdn and the CHECK of domains.fqdn accept
  Thresholds,   \* the policies that requests carry
  MaxChanges    \* bound on the changes of the desired state

ASSUME ControlPlaneAssumption ==
  /\ \A slug \in Slugs : slug \in Seq(STRING)
  /\ \A p \in Thresholds : p \in [reject : Nat, add_header : Nat, greylist : Nat]
  /\ MaxChanges \in Nat

VARIABLES
  tenants,    \* the status of each tenants row
  domains,    \* the owner and status of each domains row
  policies,   \* the abuse_policy rows
  trail,      \* how many audit_log rows each action has
  version     \* how often the desired state has changed

desired == <<tenants, domains, policies, trail, version>>

TenantStatus == {"active", "suspended", "terminated"}
DomainStatus == {"pending_dns", "active", "suspended"}
Policy == [reject : Nat, add_header : Nat, greylist : Nat]
DefaultPolicy == [reject |-> 15, add_header |-> 6, greylist |-> 4]
TrailAction == {"tenant.create", "domain.create", "policy.set"}

DesiredTypeOK ==
  /\ DOMAIN tenants \subseteq Slugs /\ tenants \in [DOMAIN tenants -> TenantStatus]
  /\ DOMAIN domains \subseteq Fqdns
  /\ domains \in [DOMAIN domains -> [tenant : Slugs, status : DomainStatus]]
  /\ DOMAIN policies \subseteq Slugs /\ policies \in [DOMAIN policies -> Policy]
  /\ trail \in [TrailAction -> Nat]
  /\ version \in 0..MaxChanges

DesiredInit ==
  /\ tenants = [t \in {} |-> "active"]
  /\ domains = [d \in {} |-> "active"]
  /\ policies = [t \in {} |-> DefaultPolicy]
  /\ trail = [action \in TrailAction |-> 0]
  /\ version = 0

-----------------------------------------------------------------------------
\* Some of [a-z] and of [0-9].
Lower == {"a", "b", "c"}
LowerOrDigit == Lower \cup {"0"}

\* validate_slug, which is stricter than the CHECK of tenants.slug.
\* Mutant: '_' is allowed, as it is in a local part.
ValidSlugUnderscore(slug) ==
  /\ Len(slug) \in 2..63
  /\ \A i \in DOMAIN slug : slug[i] \in LowerOrDigit \cup {"-", "_"}
  /\ slug[1] # "-" /\ slug[Len(slug)] # "-"
ValidSlug(slug) ==
  /\ Len(slug) \in 2..63
  /\ \A i \in DOMAIN slug : slug[i] \in LowerOrDigit \cup {"-"}
  /\ slug[1] # "-" /\ slug[Len(slug)] # "-"

\* validate_policy, and the CHECK of abuse_policy.
ValidPolicy(p) == 0 < p.greylist /\ p.greylist < p.add_header /\ p.add_header < p.reject

Changes ==
  /\ version < MaxChanges
  /\ version' = version + 1

Audits(action) == trail' = [trail EXCEPT ![action] = @ + 1]

CreateTenant(slug) ==
  /\ ValidSlug(slug)
  /\ slug \notin DOMAIN tenants
  /\ Changes
  /\ tenants' = [t \in DOMAIN tenants \cup {slug} |->
                   IF t = slug THEN "active" ELSE tenants[t]]
  /\ Audits("tenant.create")
  /\ UNCHANGED <<domains, policies>>

\* Mutant: the column default is a status that the CHECK does not know.
CreateDomainPending(slug, fqdn) ==
  /\ slug \in DOMAIN tenants
  /\ fqdn \notin DOMAIN domains
  /\ Changes
  /\ domains' = [d \in DOMAIN domains \cup {fqdn} |->
                   IF d = fqdn THEN [tenant |-> slug, status |-> "pending"]
                   ELSE domains[d]]
  /\ Audits("domain.create")
  /\ UNCHANGED <<tenants, policies>>
CreateDomain(slug, fqdn) ==
  /\ slug \in DOMAIN tenants
  /\ fqdn \notin DOMAIN domains
  /\ Changes
  /\ domains' = [d \in DOMAIN domains \cup {fqdn} |->
                   IF d = fqdn THEN [tenant |-> slug, status |-> "pending_dns"]
                   ELSE domains[d]]
  /\ Audits("domain.create")
  /\ UNCHANGED <<tenants, policies>>

\* INSERT ... ON CONFLICT (tenant_id) DO UPDATE.
PutPolicy(slug, p) ==
  /\ ValidPolicy(p)
  /\ slug \in DOMAIN tenants
  /\ Changes
  /\ policies' = [t \in DOMAIN policies \cup {slug} |-> IF t = slug THEN p ELSE policies[t]]
  /\ Audits("policy.set")
  /\ UNCHANGED <<tenants, domains>>

\* No program of the repository changes these statuses: an operator does.
OperatorSetsStatus ==
  /\ Changes
  /\ \/ /\ \E t \in DOMAIN tenants, s \in TenantStatus :
             /\ s # tenants[t]
             /\ tenants' = [tenants EXCEPT ![t] = s]
        /\ UNCHANGED domains
     \/ /\ \E d \in DOMAIN domains, s \in {"active", "suspended"} :
             /\ s # domains[d].status
             /\ domains' = [domains EXCEPT ![d].status = s]
        /\ UNCHANGED tenants
  /\ UNCHANGED <<policies, trail>>

DesiredNext ==
  \/ \E slug \in Slugs :
       \/ CreateTenant(slug)
       \/ \E fqdn \in Fqdns : CreateDomain(slug, fqdn)
       \/ \E p \in Thresholds : PutPolicy(slug, p)
  \/ OperatorSetsStatus

\* get_policy: the stored row, or the defaults.
EffectivePolicy(t) == IF t \in DOMAIN policies THEN policies[t] ELSE DefaultPolicy
=============================================================================
