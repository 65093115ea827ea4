---------------------------- MODULE Provisioning ----------------------------
(***************************************************************************)
(* Creating a mail account and provisioning its identity.                  *)
(*                                                                         *)
(* The replicas of admin-api run create_account: one transaction looks up  *)
(* the domain, inserts the account as pending_provisioning and audits it;  *)
(* after the commit the handler calls sesame-idam, and a second            *)
(* transaction makes the account active.  The job-runner's reconcile_once  *)
(* does the same for the oldest accounts that are still pending.  Nothing  *)
(* orders the two: both may hold a sesame user id for one account.         *)
(*                                                                         *)
(* An account's id (a fresh uuid) is the request that inserted it.  A      *)
(* transaction takes effect at its commit, one step; the steps between     *)
(* which other actors run are the awaits: SELECT, commit, the HTTP call.   *)
(***************************************************************************)
EXTENDS Naturals, FiniteSets

CONSTANTS
  Requests,       \* the POST /accounts requests, and so the account ids
  Runners,        \* job-runner processes; two overlap during a rolling update
  Tenants, Domains,
  LocalParts,     \* local parts that validate_local_part accepts
  DomainTenant,   \* the tenant_id of each domains row
  UserIds,        \* sesame-idam's user ids
  NoUser,         \* SQL NULL in accounts.sesame_user_id
  Rejected,       \* addresses that sesame-idam answers with a non-2xx for ever
  MayHang,        \* can sesame-idam accept a call and never answer it?
  Batch,          \* RECONCILE_BATCH
  MaxFaults       \* bound on database errors, crashes and abandoned requests

Emails == LocalParts \X Domains

ASSUME ConstantsAssumption ==
  /\ DomainTenant \in [Domains -> Tenants]
  /\ NoUser \notin UserIds
  /\ Rejected \subseteq Emails
  /\ MayHang \in BOOLEAN
  /\ Batch \in Nat
  /\ MaxFaults \in Nat

VARIABLES
  domains,    \* the status of each domains row
  accounts,   \* the accounts table, by id
  audit,      \* how many audit_log rows each account has, by action
  sesame,     \* the user sesame-idam holds for each address
  request,    \* the create_account handlers
  runner,     \* the reconcile_once cycles
  clock,      \* now() of the next transaction
  faults      \* faults so far

vars == <<domains, accounts, audit, sesame, request, runner, clock, faults>>

DomainStatus == {"pending_dns", "active", "suspended"}
AuditAction == {"account.create", "account.provisioned", "account.reconciled"}

Account ==
  [tenant : Tenants, domain : Domains, email : Emails, created : Nat,
   status : {"pending", "active"}, user : UserIds \cup {NoUser}]

RequestPc == {"idle", "insert", "provision", "hung", "activate", "done"}
Reply == {"none", "NotFound", "Conflict", "Internal", "pending", "active"}

Handler ==
  [pc : RequestPc, tenant : Tenants, domain : Domains, local : LocalParts,
   began : Nat, user : UserIds \cup {NoUser}, reply : Reply]

RunnerPc == {"idle", "provision", "hung", "activate"}

Cycle ==
  [pc : RunnerPc, todo : SUBSET Requests, user : UserIds \cup {NoUser}]

TypeOK ==
  /\ domains \in [Domains -> DomainStatus]
  /\ DOMAIN accounts \subseteq Requests
  /\ accounts \in [DOMAIN accounts -> Account]
  /\ audit \in [Requests -> [AuditAction -> Nat]]
  /\ sesame \in [Emails -> UserIds \cup {NoUser}]
  /\ request \in [Requests -> Handler]
  /\ runner \in [Runners -> Cycle]
  /\ clock \in Nat
  /\ faults \in 0..MaxFaults

NewHandler(t, d, l) ==
  [pc |-> "idle", tenant |-> t, domain |-> d, local |-> l,
   began |-> 0, user |-> NoUser, reply |-> "none"]

NoCycle == [pc |-> "idle", todo |-> {}, user |-> NoUser]

Init ==
  /\ domains \in [Domains -> DomainStatus]
  /\ accounts = [a \in {} |-> NoUser]
  /\ audit = [a \in Requests |-> [action \in AuditAction |-> 0]]
  /\ sesame = [e \in Emails |-> NoUser]
  /\ request \in [Requests -> { NewHandler(t, d, l) :
                                  t \in Tenants, d \in Domains, l \in LocalParts }]
  /\ runner = [j \in Runners |-> NoCycle]
  /\ clock = 0
  /\ faults = 0

-----------------------------------------------------------------------------
(* The tables, and what a statement of the two programs does to them. *)

\* format!("{local_part}@{fqdn}"): a pair, since validate_local_part admits no
\* '@' and domains.fqdn is UNIQUE.
EmailOf(r) == <<request[r].local, request[r].domain>>

\* Row-level security of a tenant_tx, and the WHERE of the domain lookup.
\* Mutant: the lookup runs without the tenant's row-level security.
DomainFoundInAnyTenant(t, d) == domains[d] # "suspended"
DomainFound(t, d) == DomainTenant[d] = t /\ domains[d] # "suspended"

\* accounts.email UNIQUE.
\* Mutant: the column has no UNIQUE constraint.
EmailNeverTaken(r) == FALSE
EmailTaken(r) == \E a \in DOMAIN accounts : accounts[a].email = EmailOf(r)

\* og_db::record, in the transaction of the change it describes.
Record(a, action) == audit' = [audit EXCEPT ![a][action] = @ + 1]

\* INSERT INTO accounts ... with the column defaults, and its audit row.
\* created_at is now(), the time at which the transaction began.
InsertAccount(r) ==
  /\ accounts' = [a \in DOMAIN accounts \cup {r} |->
                    IF a = r
                    THEN [tenant |-> request[r].tenant,
                          domain |-> request[r].domain,
                          email |-> EmailOf(r),
                          created |-> request[r].began,
                          status |-> "pending",
                          user |-> NoUser]
                    ELSE accounts[a]]
  /\ Record(r, "account.create")

\* UPDATE accounts SET status = 'active', sesame_user_id = u WHERE id = a.
\* Mutants: the statement leaves out a column; it sets an unknown status.
SetActiveWithoutUser(a, u) ==
  accounts' = [accounts EXCEPT ![a] = [@ EXCEPT !.status = "active"]]
SetActiveUnknownStatus(a, u) ==
  accounts' = [accounts EXCEPT ![a] = [@ EXCEPT !.status = "provisioned", !.user = u]]
SetActive(a, u) ==
  accounts' = [accounts EXCEPT ![a] = [@ EXCEPT !.status = "active", !.user = u]]

\* admin-api's second transaction: no condition on the status.
ProvisionedTx(r) ==
  /\ SetActive(r, request[r].user)
  /\ Record(r, "account.provisioned")

\* job-runner's transaction: guarded by the status, audited if it updated.
\* Mutant: the update has no status guard.
ReconciledTxNoGuard(a, u) ==
  /\ SetActive(a, u)
  /\ Record(a, "account.reconciled")
ReconciledTx(a, u) ==
  \/ /\ accounts[a].status = "pending"
     /\ SetActive(a, u)
     /\ Record(a, "account.reconciled")
  \/ /\ accounts[a].status # "pending"
     /\ UNCHANGED <<accounts, audit>>

\* sesame-idam's POST /admin/users is idempotent by address: it creates the
\* user, with a fresh id, or finds the one that is there.
SesameCreates(e) ==
  /\ e \notin Rejected
  /\ \/ sesame[e] # NoUser /\ UNCHANGED sesame
     \/ /\ sesame[e] = NoUser
        /\ \E u \in UserIds : /\ \A f \in Emails : sesame[f] # u
                              /\ sesame' = [sesame EXCEPT ![e] = u]

-----------------------------------------------------------------------------
(* admin-api: create_account and provision_into_sesame. *)

Goto(r, pc) == request' = [request EXCEPT ![r].pc = pc]

Answer(r, reply) ==
  request' = [request EXCEPT ![r] = [@ EXCEPT !.pc = "done", !.reply = reply]]

Fault ==
  /\ faults < MaxFaults
  /\ faults' = faults + 1

\* tenant_tx begins and the domain is looked up: 404 if it is not there.
FindDomain(r) ==
  /\ request[r].pc = "idle"
  /\ \/ /\ DomainFound(request[r].tenant, request[r].domain)
        /\ request' = [request EXCEPT ![r] =
                         [@ EXCEPT !.pc = "insert", !.began = clock]]
        /\ clock' = clock + 1
     \/ /\ ~DomainFound(request[r].tenant, request[r].domain)
        /\ Answer(r, "NotFound")
        /\ UNCHANGED clock
  /\ UNCHANGED <<domains, accounts, audit, sesame, runner, faults>>

\* INSERT, record and commit; a duplicate address rolls back with a 409.
CreateAccount(r) ==
  /\ request[r].pc = "insert"
  /\ \/ /\ ~EmailTaken(r)
        /\ InsertAccount(r)
        /\ Goto(r, "provision")
     \/ /\ EmailTaken(r)
        /\ Answer(r, "Conflict")
        /\ UNCHANGED <<accounts, audit>>
  /\ UNCHANGED <<domains, sesame, runner, clock, faults>>

\* A database error in the first transaction: a 500, and either nothing was
\* committed or the commit's acknowledgement was lost.  (An error in the lookup
\* ends as one in the INSERT that committed nothing.)
CreateAccountFails(r) ==
  /\ request[r].pc = "insert"
  /\ Fault
  /\ \/ UNCHANGED <<accounts, audit>>
     \/ ~EmailTaken(r) /\ InsertAccount(r)
  /\ Answer(r, "Internal")
  /\ UNCHANGED <<domains, sesame, runner, clock>>

\* provision_user answers with the user's id.
ProvisionUser(r) ==
  /\ request[r].pc = "provision"
  /\ SesameCreates(EmailOf(r))
  /\ request' = [request EXCEPT ![r] =
                   [@ EXCEPT !.pc = "activate", !.user = sesame'[EmailOf(r)]]]
  /\ UNCHANGED <<domains, accounts, audit, runner, clock, faults>>

\* provision_user fails, or there is no sesame client: the account stays
\* pending and the request still succeeds.  sesame-idam may have created the
\* user and its answer been lost.
ProvisionUserFails(r) ==
  /\ request[r].pc = "provision"
  /\ UNCHANGED sesame \/ SesameCreates(EmailOf(r))
  /\ Answer(r, "pending")
  /\ UNCHANGED <<domains, accounts, audit, runner, clock, faults>>

\* The second transaction; the reply is the row it returned.
ActivateAccount(r) ==
  /\ request[r].pc = "activate"
  /\ ProvisionedTx(r)
  /\ Answer(r, "active")
  /\ UNCHANGED <<domains, sesame, runner, clock, faults>>

\* A database error in the second transaction: the reply is the row of the
\* first, even when the commit went through and its acknowledgement was lost.
\* Mutant: the reply claims what the transaction was to do.
ActivateAccountFailsActive(r) ==
  /\ request[r].pc = "activate"
  /\ Fault
  /\ (UNCHANGED <<accounts, audit>> \/ ProvisionedTx(r))
  /\ Answer(r, "active")
  /\ UNCHANGED <<domains, sesame, runner, clock>>
ActivateAccountFails(r) ==
  /\ request[r].pc = "activate"
  /\ Fault
  /\ (UNCHANGED <<accounts, audit>> \/ ProvisionedTx(r))
  /\ Answer(r, "pending")
  /\ UNCHANGED <<domains, sesame, runner, clock>>

\* The replica stops or the client goes away: the handler is dropped at an
\* await, and an open transaction rolls back.
Abandon(r) ==
  /\ request[r].pc \in {"insert", "provision", "hung", "activate"}
  /\ Fault
  /\ Goto(r, "done")
  /\ UNCHANGED <<domains, accounts, audit, sesame, runner, clock>>

-----------------------------------------------------------------------------
(* job-runner: reconcile_once. *)

Pending == { a \in DOMAIN accounts : accounts[a].status = "pending" }

\* SELECT ... WHERE status = 'pending_provisioning' ORDER BY created_at LIMIT.
OldestPending ==
  { a \in Pending :
      Cardinality({ b \in Pending : accounts[b].created < accounts[a].created })
        < Batch }

\* The rows of a batch are handled in the order in which they were read; the
\* columns used afterwards (email, created_at) never change.
IsNext(j, a) ==
  /\ a \in runner[j].todo
  /\ \A b \in runner[j].todo : accounts[a].created <= accounts[b].created

\* The loop goes on with the rest of its batch, or the cycle ends.
\* Mutant: the loop stays on a row that failed.
ContinueSameRow(j, a) ==
  runner' = [runner EXCEPT ![j] = [@ EXCEPT !.pc = "provision", !.user = NoUser]]
Continue(j, a) ==
  runner' = [runner EXCEPT ![j] =
               [pc |-> IF @.todo \ {a} = {} THEN "idle" ELSE "provision",
                todo |-> @.todo \ {a},
                user |-> NoUser]]

EndCycle(j) == runner' = [runner EXCEPT ![j] = NoCycle]

\* A cycle that reads no row, or whose SELECT fails, changes nothing and is left
\* out.
ReadBatch(j) ==
  /\ runner[j].pc = "idle"
  /\ OldestPending # {}
  /\ runner' = [runner EXCEPT ![j] =
                  [pc |-> "provision", todo |-> OldestPending, user |-> NoUser]]
  /\ UNCHANGED <<domains, accounts, audit, sesame, request, clock, faults>>

Provision(j, a) ==
  /\ runner[j].pc = "provision"
  /\ IsNext(j, a)
  /\ SesameCreates(accounts[a].email)
  /\ runner' = [runner EXCEPT ![j] =
                  [@ EXCEPT !.pc = "activate",
                            !.user = sesame'[accounts[a].email]]]
  /\ UNCHANGED <<domains, accounts, audit, request, clock, faults>>

\* "provisioning still failing; will retry": the loop goes to the next row.
\* Mutants: a failure ends the cycle ("break" for "continue"); the error is
\* turned into a default id.
ProvisionFailsBreaks(j, a) ==
  /\ runner[j].pc = "provision"
  /\ IsNext(j, a)
  /\ UNCHANGED sesame \/ SesameCreates(accounts[a].email)
  /\ EndCycle(j)
  /\ UNCHANGED <<domains, accounts, audit, request, clock, faults>>
ProvisionFailsDefault(j, a) ==
  /\ runner[j].pc = "provision"
  /\ IsNext(j, a)
  /\ UNCHANGED sesame \/ SesameCreates(accounts[a].email)
  /\ runner' = [runner EXCEPT ![j].pc = "activate"]
  /\ UNCHANGED <<domains, accounts, audit, request, clock, faults>>
ProvisionFails(j, a) ==
  /\ runner[j].pc = "provision"
  /\ IsNext(j, a)
  /\ UNCHANGED sesame \/ SesameCreates(accounts[a].email)
  /\ Continue(j, a)
  /\ UNCHANGED <<domains, accounts, audit, request, clock, faults>>

Reconcile(j, a) ==
  /\ runner[j].pc = "activate"
  /\ IsNext(j, a)
  /\ ReconciledTx(a, runner[j].user)
  /\ Continue(j, a)
  /\ UNCHANGED <<domains, sesame, request, clock, faults>>

\* A database error ends the whole cycle, committed or not.
ReconcileFails(j, a) ==
  /\ runner[j].pc = "activate"
  /\ IsNext(j, a)
  /\ Fault
  /\ UNCHANGED <<accounts, audit>> \/ ReconciledTx(a, runner[j].user)
  /\ EndCycle(j)
  /\ UNCHANGED <<domains, sesame, request, clock>>

\* The process is stopped, or restarted, in the middle of a cycle.
RunnerCrashes(j) ==
  /\ runner[j].pc # "idle"
  /\ Fault
  /\ EndCycle(j)
  /\ UNCHANGED <<domains, accounts, audit, sesame, request, clock>>

-----------------------------------------------------------------------------
(* The environment. *)

\* sesame-idam accepts a call and never answers, whether it made the user or not:
\* SesameClient::new builds its reqwest client without a timeout, so the caller waits.
SesameHangs ==
  /\ MayHang
  /\ \/ \E r \in Requests : /\ request[r].pc = "provision"
                            /\ UNCHANGED sesame \/ SesameCreates(EmailOf(r))
                            /\ Goto(r, "hung")
                            /\ UNCHANGED runner
     \/ \E j \in Runners, a \in DOMAIN accounts :
          /\ runner[j].pc = "provision"
          /\ IsNext(j, a)
          /\ UNCHANGED sesame \/ SesameCreates(accounts[a].email)
          /\ runner' = [runner EXCEPT ![j].pc = "hung"]
          /\ UNCHANGED request
  /\ UNCHANGED <<domains, accounts, audit, clock, faults>>

\* No program of the repository changes a domain's status: an operator does.
OperatorSetsDomain(d) ==
  /\ \E s \in DomainStatus \ {domains[d]} : domains' = [domains EXCEPT ![d] = s]
  /\ UNCHANGED <<accounts, audit, sesame, request, runner, clock, faults>>

Next ==
  \/ \E r \in Requests :
       \/ FindDomain(r)
       \/ CreateAccount(r)
       \/ CreateAccountFails(r)
       \/ ProvisionUser(r)
       \/ ProvisionUserFails(r)
       \/ ActivateAccount(r)
       \/ ActivateAccountFails(r)
       \/ Abandon(r)
  \/ \E j \in Runners :
       \/ ReadBatch(j)
       \/ \E a \in DOMAIN accounts :
            \/ Provision(j, a)
            \/ ProvisionFails(j, a)
            \/ Reconcile(j, a)
            \/ ReconcileFails(j, a)
       \/ RunnerCrashes(j)
  \/ SesameHangs
  \/ \E d \in Domains : OperatorSetsDomain(d)

Spec == Init /\ [][Next]_vars

\* The tokio runtime runs every task that can run, and sesame-idam answers a
\* call that it does not hang on.  It may fail any call, but an address it does
\* not reject does not fail for ever: the strong fairness of Provision.
Fairness ==
  /\ \A r \in Requests :
       /\ WF_vars(FindDomain(r))
       /\ WF_vars(CreateAccount(r))
       /\ WF_vars(ProvisionUser(r) \/ ProvisionUserFails(r))
       /\ WF_vars(ActivateAccount(r))
  /\ \A j \in Runners :
       /\ WF_vars(ReadBatch(j))
       /\ WF_vars(\E a \in DOMAIN accounts : Provision(j, a) \/ ProvisionFails(j, a))
       /\ WF_vars(\E a \in DOMAIN accounts : Reconcile(j, a))
       /\ \A r \in Requests : SF_vars(r \in DOMAIN accounts /\ Provision(j, r))

FairSpec == Spec /\ Fairness

-----------------------------------------------------------------------------
(* Safety. *)

\* An account is active exactly when it has a sesame user, and that user is the
\* one sesame-idam holds for its address: whichever of admin-api and the
\* job-runner wrote it, after whatever lost answers and retries.
IdentityLinked ==
  \A a \in DOMAIN accounts :
    /\ accounts[a].status = "active" <=> accounts[a].user # NoUser
    /\ accounts[a].user # NoUser => accounts[a].user = sesame[accounts[a].email]

\* No two accounts have one address or one sesame user, although create_account
\* looks nothing up before its INSERT and clients retry after a lost reply.
AccountsDistinct ==
  \A a, b \in DOMAIN accounts :
    a # b => /\ accounts[a].email # accounts[b].email
             /\ \/ accounts[a].user = NoUser
                \/ accounts[a].user # accounts[b].user

\* Whichever of the two programs activates an account, and however they race: one
\* account per address, one identity per account, and the right one.
OneIdentity == IdentityLinked /\ AccountsDistinct

\* The audit trail tells what happened (og_db::record): an account exists iff it
\* was audited as created, once; it is active iff an activation was audited; and
\* overlapping job-runners never audit a second account.reconciled.
AuditTrail ==
  \A a \in Requests :
    /\ audit[a]["account.create"] = IF a \in DOMAIN accounts THEN 1 ELSE 0
    /\ audit[a]["account.reconciled"] <= 1
    /\ audit[a]["account.provisioned"] <= 1
    /\ (\E action \in AuditAction \ {"account.create"} : audit[a][action] > 0)
         <=> (a \in DOMAIN accounts /\ accounts[a].status = "active")

\* An account lies in a domain of its own tenant (the RLS-filtered lookup of
\* create_account; the foreign keys alone do not relate the two columns).
TenantOwnsDomain ==
  \A a \in DOMAIN accounts : accounts[a].tenant = DomainTenant[accounts[a].domain]

\* What create_account answers is so when the client reads it, and stays so: a
\* 404 or a 409 inserted nothing, a 409 has a rival row, a 201 has its row, and a
\* 201 with status active is never followed by a pending row.
ReplyTrue(r) ==
  /\ request[r].reply = "NotFound" => r \notin DOMAIN accounts
  /\ request[r].reply = "Conflict" =>
       /\ r \notin DOMAIN accounts
       /\ \E a \in DOMAIN accounts : accounts[a].email = EmailOf(r)
  /\ request[r].reply \in {"pending", "active"} => r \in DOMAIN accounts
  /\ request[r].reply = "active" => accounts[r].status = "active"

ReplyTruthful == \A r \in Requests : ReplyTrue(r)

\* sesame-idam gives no two addresses one user.
SesameDistinct ==
  \A e, f \in Emails : sesame[e] # NoUser /\ sesame[e] = sesame[f] => e = f

\* What a create_account handler holds across its awaits is still so when it
\* resumes: its row is there and unaudited as provisioned by anyone else, and the
\* user id it is about to write is the one sesame-idam has for its address.
HandlerConsistent(r) ==
  /\ request[r].pc \in {"idle", "insert"} => r \notin DOMAIN accounts
  /\ request[r].pc \in {"provision", "hung", "activate"} => r \in DOMAIN accounts
  /\ request[r].pc # "done" =>
       request[r].reply = "none" /\ audit[r]["account.provisioned"] = 0
  /\ request[r].pc = "insert" => DomainTenant[request[r].domain] = request[r].tenant
  /\ request[r].pc = "activate" =>
       request[r].user # NoUser /\ request[r].user = sesame[EmailOf(r)]
  /\ r \in DOMAIN accounts =>
       accounts[r].email = EmailOf(r) /\ accounts[r].created = request[r].began

HandlersConsistent == \A r \in Requests : HandlerConsistent(r)

\* The transactions that insert accounts begin at different times, so that
\* created_at orders a batch.
Begun(r) == request[r].pc = "insert" \/ r \in DOMAIN accounts

CreatedDistinct ==
  /\ \A r \in Requests : Begun(r) => request[r].began < clock
  /\ \A r, q \in Requests :
       r # q /\ Begun(r) /\ Begun(q) => request[r].began # request[q].began

\* What a reconcile_once cycle holds from its read and its call is still so when
\* it writes: the rows of its batch exist, and the user id it is about to write
\* is the one sesame-idam has for the row it is at.
CycleConsistent(j) ==
  /\ runner[j].todo \subseteq DOMAIN accounts
  /\ runner[j].pc = "activate" =>
       /\ runner[j].user # NoUser
       /\ \A a \in runner[j].todo :
            IsNext(j, a) => runner[j].user = sesame[accounts[a].email]

CyclesConsistent == \A j \in Runners : CycleConsistent(j)

\* What admin-api and job-runner hold over an await: their rows exist, and the user that
\* they write is the one that sesame-idam has for the address.  A row of a batch may have
\* become active meanwhile, which the UPDATE's own WHERE sees.
HeldUserIsRight == HandlersConsistent /\ CyclesConsistent

\* The accounts table implements the promise of AccountLifecycle.
Lifecycle ==
  INSTANCE AccountLifecycle WITH
    Accounts <- Requests,
    email <- [a \in DOMAIN accounts |-> accounts[a].email],
    owner <- [a \in { b \in DOMAIN accounts : accounts[b].status = "active" } |->
                accounts[a].user]

\* Each step of either program registers one account, links one account to its
\* user for good, or changes neither: a second activation of an account rewrites
\* the user it has.
ImplementsLifecycle == Lifecycle!LifecycleSpec

(* Liveness. *)

\* reconcile.rs: "periodically finds pending accounts and provisions them, flips
\* them `active`": an account whose address sesame-idam accepts does not stay
\* pending, unless every job-runner waits for a call that never returns.
PendingIsReconciled ==
  \A a \in Requests :
    (a \in DOMAIN accounts /\ accounts[a].email \notin Rejected)
      ~> \/ a \in DOMAIN accounts /\ accounts[a].status = "active"
         \/ \A j \in Runners : runner[j].pc = "hung"

\* Nothing but a call that never returns keeps a handler from its reply or a cycle from
\* its end: no error, no rejected address, no rival for the same account.
EndsUnlessHung ==
  /\ \A r \in Requests : <>(request[r].pc \in {"done", "hung"})
  /\ \A j \in Runners : (runner[j].pc # "idle") ~> (runner[j].pc \in {"idle", "hung"})
=============================================================================
