# A verification of opengroupware's control plane

opengroupware's own code is a set of Rust services around other programs
(PostgreSQL, sesame-idam, Stalwart, Rspamd). This directory holds TLA+ models of
the services that change state, the TLC configurations that check them on small
instances, and TLAPS proofs for instances of any size. `PROJECT.json` maps every
definition to the source lines it models. Paths below are relative to `crates/`.

## The system

| Component | State it keeps | Operations | What makes it correct |
|---|---|---|---|
| **admin-api** `admin-api/src/routes.rs`, `models.rs`, `migrations/` | the tables tenants, domains, accounts, abuse_policy, audit_log | create_tenant, create_domain, create_account, put_policy; get and list handlers | one account per address; an active account is linked to the right identity; every change is audited in its own transaction; replies are true |
| **job-runner** `job-runner/src/reconcile.rs`, `main.rs` | a batch of pending accounts per cycle | reconcile_once in a loop | pending accounts become active, once; a cycle ends |
| **abuse-api** `abuse-api/src/routes.rs`, `migrations/0001_abuse.sql` | abuse_decision, quarantine_item, its own audit_log | record_decision, release_item, report_item; list_quarantine | a held message is released once; feedback and audit agree |
| **config-compiler** `config-compiler/src/render.rs`, `main.rs` | a temporary file, the installed settings file | compile_once in a loop | Rspamd never reads half a file; the file follows the desired state; compiles are audited |
| **og-db** `og-db/src/` | the connection pool | connect, tenant_tx, platform_tx, record; ApiError's replies | a statement sees its own tenant's rows only; connections come back |
| **og-auth** `og-auth/src/lib.rs` | the JWKS cache | verify, key_for, refresh | a withdrawn key stops verifying; a new one is found |
| **sesame client** `wrappers/src/sesame_client.rs` | the cached access token | token, provision_user | a token is refreshed before it expires, and not sooner |
| **service-kit and the services' main** `service-kit/src/lib.rs`, `admin-api/src/main.rs`, `abuse-api/src/main.rs` | the process itself; the migrations applied to the database | connect, check the role, migrate, bind, serve, drain on SIGTERM | a migration is applied once; nobody serves who may not; whoever can come up does; a process told to stop stops |
| **admin-console** `admin-console/src/` | none that outlives a page | tenants_page, tenant_detail_page | a page shows its own tenant's rows, and all of them |
| **webmail, types, other wrappers** | none | a static page, declarations, placeholder clients that no service constructs | not modelled |

How they interact: the services share nothing but PostgreSQL, where admin-api and
job-runner write the same `accounts` rows and config-compiler reads what admin-api
wrote; admin-api and job-runner both call sesame-idam over HTTP, through the sesame
client; the mail pipeline calls abuse-api; Rspamd reads the file that
config-compiler installs; admin-console reads admin-api over HTTP; every request passes
og-auth first.

What is hard: the handlers `await` between reading and writing, so other replicas,
the job-runner and operators run in between; a transaction may commit and its
acknowledgement be lost; a call to sesame-idam may fail after it took effect, or
never return (the HTTP clients have no timeouts); a process may stop between any
two steps; two job-runners overlap during a rolling update; caches are refreshed
by many requests at once. `PROJECT.json` lists these hazards line by line, with
the property that watches each.

## The modules

### AccountLifecycle, Provisioning, ProvisioningProofs

`Provisioning` is the heart of the project: create_account with
provision_into_sesame, and reconcile_once with the loop around it.

* State: `domains`, `accounts` and `audit` are the tables; an account's id is the
  request that inserted it. `sesame` is the user directory of sesame-idam
  (external). `request[r]` and `runner[j]` are the local variables of a handler and
  of a cycle with the await each is at; `clock` is `now()`, which orders a batch
  by `created_at`.
* Actions: `FindDomain` (the SELECT), `CreateAccount` (INSERT, audit, commit),
  `ProvisionUser` (the call), `ActivateAccount` (UPDATE, audit, commit) and the
  reply each leads to; `ReadBatch`, `Provision`, `Reconcile` for a cycle. Each has
  its failures: `CreateAccountFails`, `ProvisionUserFails` (the user may have been
  created all the same), `ActivateAccountFails` and `ReconcileFails` (rolled back,
  or committed and unacknowledged), `Abandon` and `RunnerCrashes` (a shutdown or a
  dropped connection), `SesameHangs` (the user may have been created here too). A
  domain's status is changed by an operator at any time, also between a handler's lookup
  and its INSERT: nothing in the code or its documents forbids the account that follows,
  so no property does. An account is pending or active: 'suspended' and 'deleted', which
  the CHECK allows, are set by no program of the repository, so what the UPDATE of
  provision_into_sesame, which looks at no status, would do to such a row is out of scope.
* `AccountLifecycle` is what the two programs promise together: an address is
  registered once, and an account is linked to a user once, for good.
  `ImplementsLifecycle` is the refinement, with the table's projections as the
  mapping.

### Quarantine, QuarantineProofs

record_decision, release_item and report_item as READ COMMITTED transactions. A
request takes the row lock (or, for an INSERT, the entry of the unique index) with
its statement and gives it back when it commits or fails, so that requests for one
message wait for each other as in PostgreSQL. `releases`, `reports` and `recorded`
are the audit rows; `wanted` is a history variable: is the message's last decision
to hold it?

### ControlPlane, ConfigCompiler, AdminRequests, AdminRequestsProofs

`ControlPlane` has the desired state and the operations of admin-api that change
it, with validate_slug, validate_policy and the defaults. `ConfigCompiler` extends
it with compile_once, step by step: read and render and validate (`LoadPolicies`),
`CreateTmp`, `WriteTmp`, `Rename`, `Audit`. `Fail` stops a cycle anywhere and leaves
the files as they are; the temporary file of a stopped cycle meets the next one.
A slug is a sequence of characters because the `-` to `_` of settings_id is a
conversion that could make two tenants collide. `unaudited` counts installs minus
their audit rows.

`AdminRequests` is the detailed view of the same handlers, create_account's first
transaction included: a request is received and validated (`Receive`), its INSERT is
judged by the CHECKs, the unique index and the foreign key, and waits for another
transaction that has written the same key (`Insert`), and its audit row and commit
follow (`Commit`). `Fail` is a database error, a dropped handler or a lost
acknowledgement. `ImplementsControlPlane` is the refinement: whatever the handlers do,
the tables change as `ControlPlane`, which the compiler and the console are built on,
says they do. The names are sequences of characters here, because two grammars of one
column are compared: validate_slug and validate_fqdn, and the CHECKs of the
migration. Labels and lengths are modelled as the Rust and the regular expressions have
them; of the letters and digits there are a few.

### AdminConsole, DesiredStateProofs

The two pages of admin-console. A page of a tenant takes four reads: `TenantsAnswered`
finds the tenant in the list, and the three reads of `tokio::join!` end in any order
(`CallEnds`), each with what admin-api has at that moment or with a failure;
`RenderDetail` puts them together. The module composes `ControlPlane` and `AccountLifecycle`, whose
steps go on between the reads: it uses the promises that AdminRequests and Provisioning
are shown to keep, and not their details. `had` is a history variable with what was
there when the page was requested. The specification is `ConsoleSpec`:
`DesiredStateProofs` extends both this module and ConfigCompiler, the two readers of the
desired state, whose proofs share the lemmas about ControlPlane's steps.

### ServiceLifecycle, ServiceLifecycleProofs

The processes of one service over one database: replicas of an older and a newer
image and the bootstrap Job. `Config` is the environment of each (the migrations its
image knows, RUN_MIGRATIONS, MIGRATE_ONLY, the role, OPENGROUPWARE_ALLOW_UNSAFE_DB).
`Connect`, `TakeLock`, `Apply` and `Migrated` are main() up to the flag's exit;
`Bind`, `Accept`, `Answer`, `Sigterm` and `Exit` are service_kit::run. sqlx's Migrator
is external: it takes an advisory lock, refuses a database with a migration it does not
know, and applies each missing migration with its row in one transaction. The lock ends
with the database session and the session with the process: true of a direct connection,
and not of one through PgBouncer's transaction pooling. axum's graceful shutdown is
external too: it accepts nothing more, closes idle connections and waits for the requests
it has, without a limit. `Crash` is
every way in which a process ends before its time, a SIGTERM that finds no handler
yet included.

### TenantDb, TenantDbProofs

og-db's pool. A connection has an owner, an open transaction or none, and the two
settings that the policies of the migrations read. tenant_tx sets one of them,
platform_tx the other, and neither resets what it does not set: the isolation rests
on the settings ending with the transaction. A task runs a transaction, possibly a
call that may never return, and another transaction. `DropTx` is every `?` and every
dropped handler; the rollback it owes is done when the connection is next used.

### JwksCache, JwksCacheProofs

og-auth's key_for. Each request that misses fetches for itself and replaces the
whole cache, so the older of two answers may be stored last. A token is its kid,
its exp and its first defect. `ParseJwks` skips a key of another type if it has an `x`; a
set with a key that has none, an RSA key say, does not decode at all, which is one of the
causes of `FetchFails`. A request forgets what it held when it replies, so its
verdict is judged by action properties, at the step that accepts or refuses. Time is
discrete, in units of which cache_ttl (600 s) has `TTL`.

### SesameToken, SesameTokenProofs

The token cache of SesameClient, with expires_in as an integer of any sign and the
60-second margin as the constant `Margin`.

## What the runs check

| Run | Instance | Shows |
|---|---|---|
| provisioning_safety | 2 requests, 2 job-runners, 2 tenants, 1 domain, 2 local parts, 3 user ids, 1 fault, calls may hang | OneIdentity, AuditTrail, TenantOwnsDomain, ReplyTruthful, HeldUserIsRight, ImplementsLifecycle |
| provisioning_liveness | 2 requests, 1 job-runner, one address that sesame-idam always rejects, batch of 2, 1 fault, calls may hang | PendingIsReconciled, EndsUnlessHung |
| provisioning_starvation | 1 job-runner, a batch of 1, no hangs | **violates** PendingIsReconciled |
| quarantine | 4 requests of any kind, 1 message, 1 fault | ReleasedOnce, AuditMatchesRows, LockedRowsCurrent, EveryRequestEnds |
| quarantine_requarantine | 3 requests, 1 message | **violates** QuarantinedIsHeld |
| compiler | 3 slugs (one invalid), 2 domains, 2 policies (one invalid), 6 changes, 1 fault | InstalledWhole, InstalledUnambiguous, SchemaNeverRejects, UnauditedByFault, Converges |
| admin_requests | 3 requests out of 14 inputs, valid and not, over the same keys; 4 changes, operators included; 1 fault | RepliesTruthful, ValidatorGaps, ImplementsControlPlane, EveryRequestAnswered |
| admin_console | 1 page, 2 tenants, 2 domains, 2 accounts, 2 users, 3 changes of the desired state, any read may fail | ShowsOwnRows, CompleteUnlessFailed, ErrorsAreTrue |
| lifecycle | a Job; replicas of the old and the new image that migrate, one that leaves it to the Job (as deployed) and a misconfigured one; 2 migrations, 1 request, 2 faults | MigratedOnce, ServesSafely, ComesUp, DrainsUnlessHung |
| tenantdb | 3 tasks, 2 tenants and the platform, 1 connection, 1 fault, calls may hang | TenantIsolation, ConnectionsReturn |
| jwks | 2 requests, an Ed25519 key and one other, tokens of every defect, 3 time units with a TTL of 1 | AcceptedKeyIsRecent, FetchedKeyIsFound, WaitsOnlyForSesame |
| token | 3 calls, lifetimes -1, 2, 3 and 5 around a margin of 2, 5 time units | SentTokenIsLive, RefreshedNearExpiry |

Every passing run checks its module's TypeOK, by name or as the first conjunct of
SentTokenIsLive, RepliesTruthful, ShowsOwnRows and MigratedOnce (provisioning_liveness
leaves it to provisioning_safety). `MCAdminRequests` also assumes `FqdnGrammars`,
which TLC evaluates: over every name of up to five characters, the CHECK of
domains.fqdn is validate_fqdn and a last label of two letters or more.

Why the bounds are enough to be interesting: two requests can race for one address,
two job-runners for one account, and each of them the other kind. Messages share
nothing, so one is enough, and four requests hold a decision, a release, a second
decision and a report of it in any order. Six changes
create two tenants with a domain each, set a policy and suspend something while a
cycle is under way. A time of three TTLs lets a key be cached, withdrawn and expire
while an older answer is still on its way. Three
requests hold a tenant, its domain and a rival for either, or an account in it. One
connection makes every task reuse the one that another's transaction was on; that no task
holds two is then true of itself, and the theorem covers it for pools of any size. One
page is enough, because pages share nothing; three changes create a tenant with a domain
and change either, and the accounts and their activations are not counted. Two
migrations let a migrator die between them, and let the old image meet a database that is
ahead of it. One or two faults suffice for each
single point of failure and for a failed retry; more only repeat them.

Deadlock is checked where the system never stops: the job-runner and the compiler
loop for ever. Quarantine, TenantDb, JwksCache, SesameToken, AdminRequests, AdminConsole
and ServiceLifecycle have finitely many
requests and come to rest when all are answered (in TenantDb also when the role is
refused), so their configurations do not check it.

Symmetry is used in provisioning_safety (requests, runners, user ids) and token
(calls), which check no liveness property.

## Fairness

* Provisioning: weak fairness of each handler's and each cycle's next step, because
  tokio runs every task that can run; of a call's answer or failure, unless the
  instance lets calls hang; and strong fairness of a cycle's successful call for an
  address, because sesame-idam may fail any call but does not fail an address it
  accepts for ever. Nothing is assumed of faults, hangs, requests or operators.
* Quarantine: weak fairness of each handler's next step. A lock's holder is such a
  handler, so weak fairness is enough for the waiters, of whom there are finitely
  many.
* ConfigCompiler: weak fairness of the loop's steps; nothing in the loop waits for
  another program but PostgreSQL. Changes and faults are bounded, which is the
  premise of Converges: the desired state comes to rest.
* TenantDb: weak fairness of the statements of a transaction, and none of a call's
  return.
* JwksCache: weak fairness of the two lookups in the cache, and none of a GET's
  answer. WaitsOnlyForSesame therefore says that a request ends or waits for its own
  GET, which is what the code guarantees without a timeout: no request fetches again and
  again. That none waits for another's GET is the shape of the code, whose lock on the
  cache is never held over an await of the network, and so of the model.
* AdminRequests: weak fairness of a handler's INSERT and commit: PostgreSQL answers. A
  waiter for a key is enabled once the other transaction has ended, which its handler
  or its failure brings about.
* ServiceLifecycle: weak fairness of what a process does by itself and of its restart,
  which Kubernetes does; strong fairness of taking the migrator's lock, since
  PostgreSQL serves the waiters for a lock in turn. No request need be answered and no
  signal need come, so DrainsUnlessHung names the request that holds a drain up.
* AdminConsole and SesameToken state no liveness property and assume none.

## What disagrees with the code's own words

Two runs end in a violation; each is a finding in `PROJECT.json`.

1. *provisioning_starvation*: a batch is the oldest RECONCILE_BATCH pending
   accounts, and an account that fails stays among the oldest. As many accounts that
   sesame-idam rejects for ever as a batch holds keep all younger ones pending.
2. *quarantine_requarantine*: a message that was released and is quarantined again
   keeps its released item (ON CONFLICT DO NOTHING), so no item is held.

Elsewhere a property that holds says less than a comment does, and shows by how much:

* *EndsUnlessHung* and *PendingIsReconciled*: the sesame client has no timeout
  (`sesame_client.rs:74`), and a cycle awaits its calls one after the other; a call that
  never returns stops the worker ("periodically finds pending accounts").
* *UnauditedByFault*: the file is installed before the audit transaction, so each fault
  may leave one compile that no row tells of ("Every compile is audited").
* *ValidatorGaps*: a name such as `a.0` or `a.b` passes validate_fqdn and fails the
  CHECK, and a quota of 0 meets no validator: a 500 ("these produce friendly 422s").
* *CompleteUnlessFailed*: a read of the domains or accounts that fails is shown as "No
  domains." or "No accounts." (`unwrap_or_default`). What holds is that the damage stays
  there: the other table and the tenant are shown whole.
* *ServesSafely* and *ComesUp*: migrations run at startup only if RUN_MIGRATIONS or
  MIGRATE_ONLY is 1 ("Migrations run at startup"). A replica without either, as deployed,
  may serve before its tables are there; it has them in the end, if the Job or a replica
  of its image migrates.
* *DrainsUnlessHung*: a request that never ends keeps a process from stopping until it is
  killed ("graceful shutdown on SIGTERM").
* *AuditMatchesRows* holds with two decisions for one message, which a redelivery leaves
  (`0001_abuse.sql`: "one row per scanned message").

## What is proved

Every safety invariant and every action property that a passing run checks is also a
theorem, and so are the two refinements: `Spec => []P`, or `Spec => P` for an action
property or a refinement. A run shows it on one instance, the theorem for all values of
the constants that satisfy the module's ASSUME. `PROJECT.json` lists the theorems.

| Proof module | Theorem | Property |
|---|---|---|
| ProvisioningProofs | TypeCorrect, IdentitySafe, AuditComplete, TenantsApart, RepliesHold, HeldUserStaysRight, Refinement | TypeOK, OneIdentity, AuditTrail, TenantOwnsDomain, ReplyTruthful, HeldUserIsRight, ImplementsLifecycle |
| QuarantineProofs | TypeCorrectness, ReleaseIsOnce, AuditIsTrue, LocksProtect | TypeOK, ReleasedOnce, AuditMatchesRows, LockedRowsCurrent |
| AdminRequestsProofs | RepliesAreTruthful, ValidatorsLeaveTwoCases, Refinement | RepliesTruthful, ValidatorGaps, ImplementsControlPlane |
| DesiredStateProofs (Spec of ConfigCompiler) | TypeCorrectness, WriteIsAtomic, InstallIsUnambiguous, SchemaAcceptsAll, InstallsAreAudited | TypeOK, InstalledWhole, InstalledUnambiguous, SchemaNeverRejects, UnauditedByFault |
| DesiredStateProofs (ConsoleSpec) | PagesShowOwnRows, PagesAreComplete, ErrorPagesAreTrue | ShowsOwnRows, CompleteUnlessFailed, ErrorsAreTrue |
| TenantDbProofs | TypeCorrectness, Isolation | TypeOK, TenantIsolation |
| JwksCacheProofs | TypeCorrectness, AcceptsRecentKeys, FindsFetchedKeys | TypeOK, AcceptedKeyIsRecent, FetchedKeyIsFound |
| SesameTokenProofs | TokenIsLive, RefreshIsDue | SentTokenIsLive, RefreshedNearExpiry |
| ServiceLifecycleProofs | MigrationsRunOnce, ServingIsSafe | MigratedOnce, ServesSafely |

Each module follows one plan: an inductive invariant `IInv` (`CompilerIInv` and
`ConsoleIInv` in DesiredStateProofs), a lemma that Init implies it, lemmas that each
action keeps it, the theorem that it always holds, and the properties as its
consequences. The inductive invariants were model-checked on the instances of the
runs before they were proved.

### What is assumed of the constants

* That a marker (None, NoUser, NoFile, Partial, Waiting, Failed, Index, Unknown) is none
  of the values it stands beside, and that bounds, thresholds and times are numbers.
* Provisioning: every domain has a tenant, and the rejected addresses are addresses.
* ControlPlane: a slug is a sequence of characters, a policy has three thresholds.
* AdminRequests: the requests are finitely many and no more than MaxChanges. A commit
  counts a change, so this only says that the bound does not stop a commit half-way; the
  proof of ImplementsControlPlane needs it, since ControlPlane has the bound in its
  guards. Slugs, Fqdns and Thresholds contain what the inputs that pass the validators
  (and, for a slug or a name, the CHECK) have there: the sets of the abstract module are large
  enough for the detailed one. Nothing is assumed of inputs that are refused.
* ServiceLifecycle: some image is the newest. Images are deployed one after the other.
* JwksCache and SesameToken: an answer takes at most MaxDelay, and MaxDelay is at most
  cache_ttl, or the 60-second margin. The code does not enforce it, as its HTTP client
  has no timeout: it is a premise on the network. The theorems hold
  as far as it does. A
  token whose answer was under way for longer than the margin may be stored, and sent,
  after its expiry; the server then refuses the call.
* AdminConsole: the domain of an address is a domain name.

No assumption bounds the number of requests, processes, tasks, pages or faults,
but for the finiteness above.

### The arguments

**Provisioning.** None of the safety properties is inductive alone. IdentityLinked needs
to know that the user id a handler or a cycle is about to write is sesame-idam's for
the address of the row: HandlersConsistent and CyclesConsistent. These hold because
sesame-idam never changes the user of an address (`SesameStep`), because rows are
only added and their addresses never change (`RowsKept`), and because the row a cycle
is at stays the oldest of those it has left, for which the creation times must differ
(CreatedDistinct). AccountsDistinct follows from IdentityLinked and SesameDistinct.
AuditTrail needs HandlersConsistent to know that no handler provisions an account
twice, and the guard `status = 'pending_provisioning'` of the job-runner's UPDATE for
account.reconciled. ReplyTruthful needs AuditTrail's and RowsKept's fact that an
active row stays active. The proof of `NextIInv` has one lemma per conjunct, each with
one step per action that can disturb it. For the refinement, `LifecycleStep` maps a step
that inserts to Register, the first activation to Activate, and every other step, a
second activation included, to a stutter, because under IInv it writes the user that is
there.

**Quarantine.** ReleasedOnce depends on the row that release_item checked under FOR
UPDATE being the row it updates: LockedRowsCurrent. That is kept because whoever commits
a change of an item holds its lock, and `LocksHeld` says that a lock belongs to a handler
about to commit that very item, so a second one cannot be. AuditMatchesRows needs
`DecidedOnce`, that a handler's decision appears with its commit and not before.

**AdminRequests.** A reply is about what was committed, and what was committed is known
from the tables: `RowsStay` and `RowsCommitted` say that the rows are those of the
requests that committed. A 409 therefore has a committed rival. That no key is committed
twice needs `Exclusive` (no two transactions that have written one key are both about to
commit: the unique index makes the second wait) and `CommitFree` (nor one, while a
committed row has the key). For the refinement, a step that commits, acknowledged or not,
is the operation of ControlPlane, whose guard is what `Judged` and CommitFree say of the
input; `Bounded` gives the bound in that guard. Every other step leaves the tables alone.
ValidatorGaps is about the two grammars, for strings of any length: the CHECK of
domains.fqdn refuses what validate_fqdn accepted only for its last label.

**ConfigCompiler.** The core of InstalledUnambiguous is the lemma
`SettingsIdInjective`: settings_id maps `-` to `_`, and no two slugs that validate_slug
accepts collide, because none has a `_`. So `DesiredValid` (the tables have validated
slugs and policies only) is part of the invariant, and `GoodFile` carries the fact from
the rendering through the snapshot and the temporary file to the installed one.
InstalledWhole needs `CycleProceeds`: the file that Rename renames is the one that
WriteTmp has finished, whatever an earlier cycle left behind.

**AdminConsole.** A page is put together from reads at different times. Rows are only
added and never change their tenant (`DesiredNextGrows`), so what was there at the
request (`had`) is there at every later read (HadStill), and what a read returned stays
true (GotTrue); `Placed`, that an account's domain is there, gives its rows a tenant. The
invariant of a page (`PageInv`) is kept by the tables' steps (`PageInvStable`) and, one
action at a time, by the page's own.

**TenantDb.** The statement of a task sees the rows that the settings of its connection
allow. `OwnedScoped` says that a connection that a task has taken is in the task's open
transaction, is its only one, and carries the setting of its scope alone; it holds when
the connection is taken because a connection outside a transaction carries no setting
(`ClosedUnset`), however the last transaction on it ended.

**JwksCache.** Overlapping fetches may store their answers in any order, so the cache is
not the latest answer: `AnswersPublished` dates each answer, and `CachePublished` says of
each cached key that it was published at most MaxDelay before it was stored.
AcceptedKeyIsRecent adds the TTL that the lookup allows. FetchedKeyIsFound needs
`OwnAnswerCached`: unless another call stored in between, a call rereads its own answer.

**SesameToken.** `CacheWithinLife` relates the cached deadline, which counts from the time
of storing, to the token's own life, which began earlier by up to MaxDelay: the margin
pays for the difference. Its other half, that the deadline is no more than the margin
before the token's end, gives RefreshedNearExpiry.

**ServiceLifecycle.** `OneMigrator` says who holds the advisory lock, and `PlanCurrent`
that what the holder found missing is still what is missing. So each migration is
committed once (`CountedOnce`) and in order, also if a migrator dies half-way and another
image takes over. ServesSafely needs what a process went through before it served
(`StartedSafely`).

### What is only model-checked

* The liveness properties, which rest on fairness, out of the proof system's reach:
  PendingIsReconciled, EndsUnlessHung, EveryRequestEnds, Converges, EveryRequestAnswered,
  ComesUp, DrainsUnlessHung, ConnectionsReturn, WaitsOnlyForSesame. The induction each would need also
  ranges over the data (how many accounts are older, how many requests wait).
* `FqdnGrammars`, the exact equality of the two grammars, over names of up to five
  characters. ValidatorsLeaveTwoCases proves the direction that matters for all names.
* The two violations. A counterexample needs no proof.

## What is not modelled

* list_quarantine, which only reads. The other reads are those of AdminConsole.
* A display name, a plan, a score or a list of symbols: no property depends on them. A
  quota is only looked at by its CHECK. Thresholds are whole numbers, so validate_policy's
  check that they are finite has nothing to refuse.
* Cryptography, token parsing, HTTP framing, HTML, logging and metrics.
* Machine crashes: write_atomic flushes and does not fsync. The model's crashes stop
  the process; what the file system loses is outside it.
* What the migrations' statements do, the mock identity provider (a test fixture), helm
  charts and scripts. What they fix for the models (replicas, rolling updates, restarts)
  is in the constants.
* The Stalwart, Rspamd, MinIO and Tantivy wrappers: their methods ignore their
  arguments and return a fresh id, an empty list, a constant or "not implemented", and no
  service constructs them. `types` has declarations only, and webmail is a page of constants. No
  step of these changes anything, so there is nothing to state a property of.

## The plan

Done: the modules above, every component that keeps state, and the proofs of all safety
and action properties and of both refinements. What is left is to keep them readable and
to say more with them:

1. Share what the proofs repeat: the steps on records and one-point updates of functions
   that AdminRequestsProofs and DesiredStateProofs have both.
2. `ConfigCompiler`: the installed file is at every time the rendering of some desired
   state there has been, as an abstract specification of atomic installation.
3. `Quarantine`: an abstract specification of a held message (held, then released by one
   actor) that the three handlers implement.
