------------------------- MODULE ProvisioningProofs -------------------------
(* What Provisioning guarantees for every set of requests and runners. *)
EXTENDS Provisioning, TLAPS

USE ConstantsAssumption

-----------------------------------------------------------------------------
(* What the statements that the actions share do to the tables. *)

\* An audit row is counted once, for its account and its action.
LEMMA RecordTyped ==
  ASSUME TypeOK, NEW a \in Requests, NEW action \in AuditAction, Record(a, action)
  PROVE  /\ audit' \in [Requests -> [AuditAction -> Nat]]
         /\ audit'[a][action] = audit[a][action] + 1
         /\ \A b \in Requests, other \in AuditAction :
              b # a \/ other # action => audit'[b][other] = audit[b][other]
BY DEF TypeOK, Record

\* An INSERT adds one typed row.
LEMMA InsertTyped ==
  ASSUME TypeOK, NEW r \in Requests, InsertAccount(r)
  PROVE  /\ DOMAIN accounts' = DOMAIN accounts \cup {r}
         /\ accounts' \in [DOMAIN accounts' -> Account]
         /\ DOMAIN accounts' \subseteq Requests
         /\ \A a \in DOMAIN accounts : a # r => accounts'[a] = accounts[a]
         /\ accounts'[r].tenant = request[r].tenant
         /\ accounts'[r].domain = request[r].domain
         /\ accounts'[r].email = EmailOf(r)
         /\ accounts'[r].created = request[r].began
         /\ accounts'[r].status = "pending"
         /\ accounts'[r].user = NoUser
<1>1. EmailOf(r) \in Emails
  BY DEF TypeOK, Handler, EmailOf, Emails
<1> QED
  BY <1>1 DEF TypeOK, InsertAccount, Account, Handler

\* An activation changes the status and the user of one row.
LEMMA ActivationTyped ==
  ASSUME TypeOK, NEW a \in DOMAIN accounts, NEW u \in UserIds \cup {NoUser},
         SetActive(a, u)
  PROVE  /\ DOMAIN accounts' = DOMAIN accounts
         /\ accounts' \in [DOMAIN accounts -> Account]
         /\ \A b \in DOMAIN accounts : b # a => accounts'[b] = accounts[b]
         /\ accounts'[a].status = "active" /\ accounts'[a].user = u
         /\ \A b \in DOMAIN accounts :
              /\ accounts'[b].tenant = accounts[b].tenant
              /\ accounts'[b].domain = accounts[b].domain
              /\ accounts'[b].email = accounts[b].email
              /\ accounts'[b].created = accounts[b].created
<1>1. accounts[a] \in Account
  BY DEF TypeOK
<1>2. [accounts[a] EXCEPT !.status = "active", !.user = u] \in Account
  BY <1>1 DEF Account
<1> QED
  BY <1>1, <1>2 DEF TypeOK, SetActive, Account

\* A call leaves sesame-idam with a user for the address.
LEMMA SesameTyped ==
  ASSUME TypeOK, NEW e \in Emails, SesameCreates(e)
  PROVE  /\ sesame' \in [Emails -> UserIds \cup {NoUser}]
         /\ sesame'[e] \in UserIds
         /\ \A f \in Emails : sesame[f] # NoUser => sesame'[f] = sesame[f]
         /\ \A f \in Emails : f # e => sesame'[f] = sesame[f]
         /\ sesame[e] = NoUser => \A f \in Emails : sesame[f] # sesame'[e]
BY DEF TypeOK, SesameCreates

-----------------------------------------------------------------------------
(* Type correctness. *)

\* The three actions that og_db::record is called with here are different.
LEMMA AuditActions ==
  /\ "account.create" \in AuditAction
  /\ "account.provisioned" \in AuditAction
  /\ "account.reconciled" \in AuditAction
BY DEF AuditAction

\* The address that create_account forms is one.
LEMMA EmailOfTyped == TypeOK => \A r \in Requests : EmailOf(r) \in Emails
BY DEF TypeOK, Handler, EmailOf, Emails

SameArguments(r) ==
  /\ request'[r].tenant = request[r].tenant
  /\ request'[r].domain = request[r].domain
  /\ request'[r].local = request[r].local
  /\ request'[r].began = request[r].began

\* A handler that moves on, or answers, changes its program counter and its
\* reply; no handler's arguments change.
LEMMA GotoTyped ==
  ASSUME TypeOK, NEW r \in Requests, NEW pc \in RequestPc, Goto(r, pc)
  PROVE  /\ request' \in [Requests -> Handler]
         /\ \A q \in Requests : q # r => request'[q] = request[q]
         /\ request'[r].pc = pc
         /\ request'[r].reply = request[r].reply
         /\ request'[r].user = request[r].user
         /\ SameArguments(r)
<1>1. request[r] \in Handler
  BY DEF TypeOK
<1>2. [request[r] EXCEPT !.pc = pc] \in Handler
  BY <1>1 DEF Handler
<1> QED
  BY <1>1, <1>2 DEF TypeOK, Goto, Handler, SameArguments

\* A reply ends its own handler and changes nothing else of it.
LEMMA AnswerTyped ==
  ASSUME TypeOK, NEW r \in Requests, NEW reply \in Reply, Answer(r, reply)
  PROVE  /\ request' \in [Requests -> Handler]
         /\ \A q \in Requests : q # r => request'[q] = request[q]
         /\ request'[r].pc = "done"
         /\ request'[r].reply = reply
         /\ SameArguments(r)
<1>1. request[r] \in Handler
  BY DEF TypeOK
<1>2. [request[r] EXCEPT !.pc = "done", !.reply = reply] \in Handler
  BY <1>1 DEF Handler, RequestPc
<1> QED
  BY <1>1, <1>2 DEF TypeOK, Answer, Handler, SameArguments

\* Every reply that a handler gives is one of ReplyTruthful's cases.
LEMMA RepliesTyped ==
  /\ "NotFound" \in Reply /\ "Conflict" \in Reply /\ "Internal" \in Reply
  /\ "pending" \in Reply /\ "active" \in Reply
BY DEF Reply

\* Every place that a handler goes to is one of its awaits.
LEMMA PcsTyped ==
  "provision" \in RequestPc /\ "hung" \in RequestPc /\ "done" \in RequestPc
BY DEF RequestPc

\* The number of faults stays within its bound.
LEMMA FaultTyped == TypeOK /\ Fault => faults' \in 0..MaxFaults
BY DEF TypeOK, Fault

\* A cycle that goes on drops the row it was at; one that ends drops them all.
LEMMA ContinueTyped ==
  ASSUME TypeOK, NEW j \in Runners, NEW a, Continue(j, a)
  PROVE  /\ runner' \in [Runners -> Cycle]
         /\ \A k \in Runners : k # j => runner'[k] = runner[k]
         /\ runner'[j].todo = runner[j].todo \ {a}
         /\ runner'[j].pc \in {"idle", "provision"}
<1>1. [pc |-> IF runner[j].todo \ {a} = {} THEN "idle" ELSE "provision",
       todo |-> runner[j].todo \ {a}, user |-> NoUser] \in Cycle
  BY DEF TypeOK, Cycle, RunnerPc
<1> QED
  BY <1>1 DEF TypeOK, Continue

\* A cycle that an error or a stop ends leaves nothing behind.
LEMMA EndCycleTyped ==
  ASSUME TypeOK, NEW j \in Runners, EndCycle(j)
  PROVE  /\ runner' \in [Runners -> Cycle]
         /\ \A k \in Runners : k # j => runner'[k] = runner[k]
         /\ runner'[j] = NoCycle
BY DEF TypeOK, EndCycle, NoCycle, Cycle, RunnerPc

\* A handler or a cycle that goes on with another value in hand keeps its type.
LEMMA UpdatesTyped ==
  /\ \A h \in Handler, pc \in RequestPc, began \in Nat :
       [h EXCEPT !.pc = pc, !.began = began] \in Handler
  /\ \A h \in Handler, pc \in RequestPc, user \in UserIds \cup {NoUser} :
       [h EXCEPT !.pc = pc, !.user = user] \in Handler
  /\ \A c \in Cycle, pc \in RunnerPc, user \in UserIds \cup {NoUser} :
       [c EXCEPT !.pc = pc, !.user = user] \in Cycle
BY DEF Handler, Cycle

\* A call that hangs may have made the user of one address.
LEMMA HungCall ==
  ASSUME TypeOK, SesameHangs
  PROVE  UNCHANGED sesame \/ \E e \in Emails : SesameCreates(e)
<1>1. \A a \in DOMAIN accounts : accounts[a].email \in Emails
  BY DEF TypeOK, Account
<1> QED
  BY <1>1, EmailOfTyped DEF SesameHangs

\* Every step keeps every variable in its type.
LEMMA TypingStep ==
  TypeOK /\ HandlersConsistent /\ [Next]_vars => TypeOK'
<1> SUFFICES ASSUME TypeOK, HandlersConsistent, [Next]_vars
             PROVE  TypeOK'
  OBVIOUS
<1> USE AuditActions, EmailOfTyped, RepliesTyped, PcsTyped
<1>1. CASE UNCHANGED vars
  BY <1>1 DEF TypeOK, vars
<1>2. ASSUME NEW r \in Requests, FindDomain(r) PROVE TypeOK'
  <2>1. CASE Answer(r, "NotFound")
    <3>1. request' \in [Requests -> Handler]
      BY <2>1, AnswerTyped
    <3> QED
      BY <1>2, <3>1 DEF TypeOK, FindDomain
  <2>2. CASE request' = [request EXCEPT ![r] = [@ EXCEPT !.pc = "insert", !.began = clock]]
    <3>1. PICK h : h = [request[r] EXCEPT !.pc = "insert", !.began = clock]
      OBVIOUS
    <3>2. h \in Handler
      <4>1. request[r] \in Handler /\ clock \in Nat /\ "insert" \in RequestPc
        BY DEF TypeOK, RequestPc
      <4> QED
        BY <3>1, <4>1, UpdatesTyped, Zenon
    <3>3. request' = [request EXCEPT ![r] = h]
      BY <2>2, <3>1
    <3>4. clock' \in Nat /\ UNCHANGED <<domains, accounts, audit, sesame, runner, faults>>
      BY <1>2 DEF TypeOK, FindDomain
    <3> QED
      BY <3>2, <3>3, <3>4 DEF TypeOK
  <2> QED
    BY <1>2, <2>1, <2>2 DEF FindDomain
<1>3. ASSUME NEW r \in Requests, CreateAccount(r) PROVE TypeOK'
  <2>1. request' \in [Requests -> Handler]
    BY <1>3, GotoTyped, AnswerTyped DEF CreateAccount
  <2>2. CASE InsertAccount(r)
    <3>1. /\ DOMAIN accounts' \subseteq Requests
          /\ accounts' \in [DOMAIN accounts' -> Account]
      BY <2>2, InsertTyped
    <3>2. audit' \in [Requests -> [AuditAction -> Nat]]
      BY <2>2, RecordTyped DEF InsertAccount
    <3> QED
      BY <1>3, <2>1, <3>1, <3>2 DEF TypeOK, CreateAccount
  <2>3. CASE UNCHANGED <<accounts, audit>>
    BY <1>3, <2>1, <2>3 DEF TypeOK, CreateAccount
  <2> QED
    BY <1>3, <2>2, <2>3 DEF CreateAccount
<1>4. ASSUME NEW r \in Requests, CreateAccountFails(r) PROVE TypeOK'
  <2>1. request' \in [Requests -> Handler] /\ faults' \in 0..MaxFaults
    BY <1>4, AnswerTyped, FaultTyped DEF CreateAccountFails
  <2>2. CASE InsertAccount(r)
    <3>1. /\ DOMAIN accounts' \subseteq Requests
          /\ accounts' \in [DOMAIN accounts' -> Account]
      BY <2>2, InsertTyped
    <3>2. audit' \in [Requests -> [AuditAction -> Nat]]
      BY <2>2, RecordTyped DEF InsertAccount
    <3> QED
      BY <1>4, <2>1, <3>1, <3>2 DEF TypeOK, CreateAccountFails
  <2>3. CASE UNCHANGED <<accounts, audit>>
    BY <1>4, <2>1, <2>3 DEF TypeOK, CreateAccountFails
  <2> QED
    BY <1>4, <2>2, <2>3 DEF CreateAccountFails
<1>5. ASSUME NEW r \in Requests, ProvisionUser(r) PROVE TypeOK'
  <2>1. sesame' \in [Emails -> UserIds \cup {NoUser}] /\ sesame'[EmailOf(r)] \in UserIds
    BY <1>5, SesameTyped DEF ProvisionUser
  <2>2. PICK h : h = [request[r] EXCEPT !.pc = "activate", !.user = sesame'[EmailOf(r)]]
    OBVIOUS
  <2>3. h \in Handler
    <3>1. /\ request[r] \in Handler /\ "activate" \in RequestPc
          /\ sesame'[EmailOf(r)] \in UserIds \cup {NoUser}
      BY <2>1 DEF TypeOK, RequestPc
    <3> QED
      BY <2>2, <3>1, UpdatesTyped, Zenon
  <2>4. /\ request' = [request EXCEPT ![r] = h]
        /\ UNCHANGED <<domains, accounts, audit, runner, clock, faults>>
    BY <1>5, <2>2 DEF ProvisionUser
  <2> QED
    BY <2>1, <2>3, <2>4 DEF TypeOK
<1>6. ASSUME NEW r \in Requests, ProvisionUserFails(r) PROVE TypeOK'
  <2>1. sesame' \in [Emails -> UserIds \cup {NoUser}]
    BY <1>6, SesameTyped DEF ProvisionUserFails, TypeOK
  <2> QED
    <3>1. request' \in [Requests -> Handler]
      BY <1>6, AnswerTyped DEF ProvisionUserFails
    <3> QED
      BY <1>6, <2>1, <3>1 DEF TypeOK, ProvisionUserFails
<1>7. ASSUME NEW r \in Requests, request[r].pc = "activate",
             ActivateAccount(r) \/ ActivateAccountFails(r)
      PROVE  TypeOK'
  <2>1. /\ request' \in [Requests -> Handler]
        /\ faults' \in 0..MaxFaults
        /\ UNCHANGED <<domains, sesame, runner, clock>>
    <3>1. request' \in [Requests -> Handler]
      BY <1>7, AnswerTyped DEF ActivateAccount, ActivateAccountFails
    <3>2. CASE ActivateAccount(r)
      BY <3>1, <3>2 DEF TypeOK, ActivateAccount
    <3>3. CASE ActivateAccountFails(r)
      BY <3>1, <3>3, FaultTyped DEF ActivateAccountFails
    <3> QED
      BY <1>7, <3>2, <3>3
  <2>2. CASE ProvisionedTx(r)
    <3>1. r \in DOMAIN accounts /\ request[r].user \in UserIds \cup {NoUser}
      BY <1>7 DEF HandlersConsistent, HandlerConsistent, TypeOK, Handler
    <3> QED
      BY <2>1, <2>2, <3>1, ActivationTyped, RecordTyped DEF TypeOK, ProvisionedTx
  <2>3. CASE UNCHANGED <<accounts, audit>>
    BY <2>1, <2>3 DEF TypeOK
  <2> QED
    BY <1>7, <2>2, <2>3 DEF ActivateAccount, ActivateAccountFails
<1>8. ASSUME NEW r \in Requests, Abandon(r) PROVE TypeOK'
  <2>1. request' \in [Requests -> Handler] /\ faults' \in 0..MaxFaults
    BY <1>8, GotoTyped, FaultTyped DEF Abandon
  <2> QED
    BY <1>8, <2>1 DEF TypeOK, Abandon
<1>9. ASSUME NEW j \in Runners, ReadBatch(j) PROVE TypeOK'
  <2>1. OldestPending \in SUBSET Requests
    BY DEF OldestPending, Pending, TypeOK
  <2> QED
    BY <1>9, <2>1 DEF TypeOK, ReadBatch, Cycle, RunnerPc
<1>10. ASSUME NEW j \in Runners, NEW a \in DOMAIN accounts,
              Provision(j, a) \/ ProvisionFails(j, a)
       PROVE  TypeOK'
  <2>1. accounts[a].email \in Emails
    BY DEF TypeOK, Account
  <2>2. sesame' \in [Emails -> UserIds \cup {NoUser}]
    BY <1>10, <2>1, SesameTyped DEF Provision, ProvisionFails, TypeOK
  <2>3. CASE Provision(j, a)
    <3>1. PICK h : h = [runner[j] EXCEPT !.pc = "activate", !.user = sesame'[accounts[a].email]]
      OBVIOUS
    <3>2. h \in Cycle
      <4>1. /\ runner[j] \in Cycle /\ "activate" \in RunnerPc
            /\ sesame'[accounts[a].email] \in UserIds \cup {NoUser}
        BY <2>1, <2>2 DEF TypeOK, RunnerPc
      <4> QED
        BY <3>1, <4>1, UpdatesTyped, Zenon
    <3>3. /\ runner' = [runner EXCEPT ![j] = h]
          /\ UNCHANGED <<domains, accounts, audit, request, clock, faults>>
      BY <2>3, <3>1 DEF Provision
    <3> QED
      BY <2>2, <3>2, <3>3 DEF TypeOK
  <2>4. CASE ProvisionFails(j, a)
    BY <2>2, <2>4, ContinueTyped DEF TypeOK, ProvisionFails
  <2> QED
    BY <1>10, <2>3, <2>4
<1>11. ASSUME NEW j \in Runners, NEW a \in DOMAIN accounts,
              Reconcile(j, a) \/ ReconcileFails(j, a)
       PROVE  TypeOK'
  <2>1. /\ runner' \in [Runners -> Cycle]
        /\ faults' \in 0..MaxFaults
        /\ UNCHANGED <<domains, sesame, request, clock>>
    BY <1>11, ContinueTyped, EndCycleTyped DEF TypeOK, Reconcile, ReconcileFails, Fault
  <2>2. CASE SetActive(a, runner[j].user) /\ Record(a, "account.reconciled")
    BY <2>1, <2>2, ActivationTyped, RecordTyped DEF TypeOK, Cycle
  <2>3. CASE UNCHANGED <<accounts, audit>>
    BY <2>1, <2>3 DEF TypeOK
  <2> QED
    BY <1>11, <2>2, <2>3 DEF Reconcile, ReconcileFails, ReconciledTx
<1>12. ASSUME NEW j \in Runners, RunnerCrashes(j) PROVE TypeOK'
  BY <1>12, EndCycleTyped DEF TypeOK, RunnerCrashes, Fault
<1>13. CASE SesameHangs
  <2>0. sesame' \in [Emails -> UserIds \cup {NoUser}]
    BY <1>13, HungCall, SesameTyped DEF TypeOK
  <2>1. ASSUME NEW r \in Requests, Goto(r, "hung"), UNCHANGED runner PROVE TypeOK'
    BY <1>13, <2>0, <2>1, GotoTyped DEF TypeOK, SesameHangs
  <2>2. ASSUME NEW j \in Runners, UNCHANGED request,
               runner' = [runner EXCEPT ![j].pc = "hung"]
        PROVE  TypeOK'
    <3>1. [runner[j] EXCEPT !.pc = "hung"] \in Cycle
      BY DEF TypeOK, Cycle, RunnerPc
    <3> QED
      BY <1>13, <2>0, <2>2, <3>1 DEF TypeOK, SesameHangs
  <2> QED
    BY <1>13, <2>1, <2>2 DEF SesameHangs
<1>14. ASSUME NEW d \in Domains, OperatorSetsDomain(d) PROVE TypeOK'
  BY <1>14 DEF TypeOK, OperatorSetsDomain
<1> QED
  BY <1>1, <1>2, <1>3, <1>4, <1>5, <1>6, <1>7, <1>8, <1>9, <1>10, <1>11,
     <1>12, <1>13, <1>14
  DEF Next, ActivateAccount, ActivateAccountFails
-----------------------------------------------------------------------------
(* The inductive invariant, and what a step can do to the tables. *)

\* An invariant of the tables alone is not inductive: an activation writes the
\* user id that a handler or a cycle has held since its call, so what they hold
\* has to be part of it; and IsNext names one row only if created_at orders them.
IInv ==
  /\ TypeOK
  /\ SesameDistinct
  /\ IdentityLinked
  /\ AccountsDistinct
  /\ AuditTrail
  /\ TenantOwnsDomain
  /\ HandlersConsistent
  /\ CreatedDistinct
  /\ CyclesConsistent
  /\ ReplyTruthful

Inserts(r) ==
  /\ request[r].pc = "insert"
  /\ ~EmailTaken(r)
  /\ InsertAccount(r)
  /\ request'[r].pc \in {"provision", "done"}

Activates(r) ==
  /\ request[r].pc = "activate"
  /\ ProvisionedTx(r)
  /\ request'[r].pc = "done"

Reconciles(j, a) ==
  /\ runner[j].pc = "activate"
  /\ IsNext(j, a)
  /\ accounts[a].status = "pending"
  /\ SetActive(a, runner[j].user)
  /\ Record(a, "account.reconciled")
  /\ UNCHANGED request

\* Only three transactions write the accounts and their audit rows, and none of
\* them runs in the step of a call to sesame-idam.
LEMMA TableSteps ==
  ASSUME TypeOK, [Next]_vars
  PROVE  \/ UNCHANGED <<accounts, audit>>
         \/ /\ UNCHANGED sesame
            /\ \/ \E r \in Requests : Inserts(r)
               \/ \E r \in Requests : Activates(r)
               \/ \E j \in Runners, a \in DOMAIN accounts : Reconciles(j, a)
<1>1. ASSUME NEW r \in Requests, CreateAccount(r) \/ CreateAccountFails(r)
      PROVE  UNCHANGED <<accounts, audit>> \/ (UNCHANGED sesame /\ Inserts(r))
  <2>1. request'[r].pc \in {"provision", "done"}
    BY <1>1, GotoTyped, AnswerTyped, RepliesTyped, PcsTyped
    DEF CreateAccount, CreateAccountFails
  <2> QED
    BY <1>1, <2>1 DEF CreateAccount, CreateAccountFails, Inserts
<1>2. ASSUME NEW r \in Requests, ActivateAccount(r) \/ ActivateAccountFails(r)
      PROVE  UNCHANGED <<accounts, audit>> \/ (UNCHANGED sesame /\ Activates(r))
  <2>1. request'[r].pc = "done"
    BY <1>2, AnswerTyped, RepliesTyped DEF ActivateAccount, ActivateAccountFails
  <2> QED
    BY <1>2, <2>1 DEF ActivateAccount, ActivateAccountFails, Activates
<1>3. ASSUME NEW j \in Runners, NEW a \in DOMAIN accounts,
             Reconcile(j, a) \/ ReconcileFails(j, a)
      PROVE  UNCHANGED <<accounts, audit>> \/ (UNCHANGED sesame /\ Reconciles(j, a))
  BY <1>3 DEF Reconcile, ReconcileFails, ReconciledTx, Reconciles
<1>4. CASE \E r \in Requests : FindDomain(r) \/ ProvisionUser(r) \/ ProvisionUserFails(r)
                                 \/ Abandon(r)
  BY <1>4 DEF FindDomain, ProvisionUser, ProvisionUserFails, Abandon
<1>5. CASE \E j \in Runners : ReadBatch(j) \/ RunnerCrashes(j)
             \/ \E a \in DOMAIN accounts : Provision(j, a) \/ ProvisionFails(j, a)
  BY <1>5 DEF ReadBatch, RunnerCrashes, Provision, ProvisionFails
<1>6. CASE SesameHangs \/ UNCHANGED vars \/ \E d \in Domains : OperatorSetsDomain(d)
  BY <1>6 DEF SesameHangs, vars, OperatorSetsDomain
<1> QED
  BY <1>1, <1>2, <1>3, <1>4, <1>5, <1>6 DEF Next

\* sesame-idam changes only by a call for one address.
LEMMA SesameSteps ==
  ASSUME TypeOK, [Next]_vars
  PROVE  UNCHANGED sesame \/ \E e \in Emails : SesameCreates(e)
<1>1. ASSUME NEW r \in Requests, ProvisionUser(r) \/ ProvisionUserFails(r)
      PROVE  UNCHANGED sesame \/ \E e \in Emails : SesameCreates(e)
  BY <1>1, EmailOfTyped DEF ProvisionUser, ProvisionUserFails
<1>2. ASSUME NEW j \in Runners, NEW a \in DOMAIN accounts,
             Provision(j, a) \/ ProvisionFails(j, a)
      PROVE  UNCHANGED sesame \/ \E e \in Emails : SesameCreates(e)
  <2>1. accounts[a].email \in Emails
    BY DEF TypeOK, Account
  <2> QED
    BY <1>2, <2>1 DEF Provision, ProvisionFails
<1>3. CASE \E r \in Requests : FindDomain(r) \/ Abandon(r)
             \/ CreateAccount(r) \/ CreateAccountFails(r)
             \/ ActivateAccount(r) \/ ActivateAccountFails(r)
  BY <1>3 DEF FindDomain, Abandon, CreateAccount, CreateAccountFails,
              ActivateAccount, ActivateAccountFails
<1>4. CASE \E j \in Runners : ReadBatch(j) \/ RunnerCrashes(j)
             \/ \E a \in DOMAIN accounts : Reconcile(j, a) \/ ReconcileFails(j, a)
  BY <1>4 DEF ReadBatch, RunnerCrashes, Reconcile, ReconcileFails
<1>5. CASE SesameHangs \/ UNCHANGED vars \/ \E d \in Domains : OperatorSetsDomain(d)
  BY <1>5, HungCall DEF vars, OperatorSetsDomain
<1> QED
  BY <1>1, <1>2, <1>3, <1>4, <1>5 DEF Next

\* A user that sesame-idam holds stays, for its address and no other.
LEMMA SesameStep ==
  ASSUME TypeOK, SesameDistinct, [Next]_vars
  PROVE  /\ SesameDistinct'
         /\ \A e \in Emails : sesame[e] # NoUser => sesame'[e] = sesame[e]
<1>1. CASE UNCHANGED sesame
  BY <1>1 DEF SesameDistinct
<1>2. ASSUME NEW e \in Emails, SesameCreates(e)
      PROVE  /\ SesameDistinct'
             /\ \A f \in Emails : sesame[f] # NoUser => sesame'[f] = sesame[f]
  BY <1>2, SesameTyped DEF SesameDistinct
<1> QED
  BY <1>1, <1>2, SesameSteps

\* The user id that an activation writes is sesame-idam's for the row's address.
LEMMA ActivationUser ==
  ASSUME IInv, NEW a \in DOMAIN accounts, NEW u,
         \/ Activates(a) /\ u = request[a].user
         \/ \E j \in Runners : Reconciles(j, a) /\ u = runner[j].user
  PROVE  /\ u \in UserIds
         /\ u = sesame[accounts[a].email]
         /\ SetActive(a, u)
         /\ accounts[a].status = "active" => accounts[a].user = u
<1> USE DEF IInv
<1>1. a \in Requests /\ accounts[a].email \in Emails
  BY DEF TypeOK, Account
<1>2. u # NoUser /\ u = sesame[accounts[a].email] /\ SetActive(a, u)
  <2>1. CASE Activates(a) /\ u = request[a].user
    BY <1>1, <2>1 DEF HandlersConsistent, HandlerConsistent, Activates, ProvisionedTx
  <2>2. ASSUME NEW j \in Runners, Reconciles(j, a), u = runner[j].user
        PROVE  u # NoUser /\ u = sesame[accounts[a].email] /\ SetActive(a, u)
    BY <2>2 DEF CyclesConsistent, CycleConsistent, Reconciles, IsNext
  <2> QED
    BY <2>1, <2>2
<1>3. u \in UserIds
  BY <1>1, <1>2 DEF TypeOK
<1> QED
  BY <1>2, <1>3 DEF IdentityLinked
-----------------------------------------------------------------------------
(* Each part of the inductive invariant is preserved. *)

\* A row stays, its identifying columns never change, and an active row keeps its
\* status and its user.
LEMMA RowsKept ==
  ASSUME IInv, [Next]_vars, NEW a \in DOMAIN accounts
  PROVE  /\ a \in DOMAIN accounts'
         /\ accounts'[a].tenant = accounts[a].tenant
         /\ accounts'[a].domain = accounts[a].domain
         /\ accounts'[a].email = accounts[a].email
         /\ accounts'[a].created = accounts[a].created
         /\ accounts[a].status = "active" =>
              accounts'[a].status = "active" /\ accounts'[a].user = accounts[a].user
<1> TypeOK
  BY DEF IInv
<1>1. CASE UNCHANGED <<accounts, audit>>
  BY <1>1
<1>2. ASSUME NEW r \in Requests, Inserts(r), a # r
      PROVE  a \in DOMAIN accounts' /\ accounts'[a] = accounts[a]
  BY <1>2, InsertTyped DEF Inserts
<1>3. ASSUME NEW r \in Requests, Inserts(r) PROVE a # r
  BY <1>3 DEF IInv, HandlersConsistent, HandlerConsistent, Inserts
<1> DEFINE Kept ==
      /\ a \in DOMAIN accounts'
      /\ accounts'[a].tenant = accounts[a].tenant
      /\ accounts'[a].domain = accounts[a].domain
      /\ accounts'[a].email = accounts[a].email
      /\ accounts'[a].created = accounts[a].created
      /\ accounts[a].status = "active" =>
           accounts'[a].status = "active" /\ accounts'[a].user = accounts[a].user
<1>4. ASSUME NEW b \in DOMAIN accounts, NEW u, u \in UserIds, SetActive(b, u),
             accounts[b].status = "active" => accounts[b].user = u
      PROVE  Kept
  BY <1>4, ActivationTyped
<1>5. ASSUME NEW r \in Requests, Activates(r) PROVE Kept
  <2>1. r \in DOMAIN accounts
    BY <1>5 DEF IInv, HandlersConsistent, HandlerConsistent, Activates
  <2> HIDE DEF Kept
  <2> QED
    BY <1>4, <1>5, <2>1, ActivationUser
<1>6. ASSUME NEW j \in Runners, NEW b \in DOMAIN accounts, Reconciles(j, b) PROVE Kept
  <2> HIDE DEF Kept
  <2> QED
    BY <1>4, <1>6, ActivationUser
<1>7. ASSUME UNCHANGED <<accounts, audit>> \/ \E r \in Requests : Inserts(r) PROVE Kept
  BY <1>1, <1>2, <1>3, <1>7
<1> HIDE DEF Kept
<1>8. Kept
  BY <1>5, <1>6, <1>7, TableSteps
<1> QED
  BY <1>8 DEF Kept

\* Every step keeps accounts linked to the users of their addresses, and apart:
\* whichever program writes a row, the id it writes is sesame-idam's.
LEMMA IdentityStep ==
  ASSUME IInv, [Next]_vars, TypeOK'
  PROVE  IdentityLinked' /\ AccountsDistinct' /\ TenantOwnsDomain'
<1> TypeOK /\ SesameDistinct
  BY DEF IInv
<1>1. CASE UNCHANGED <<accounts, audit>>
  <2>1. \A a \in DOMAIN accounts : accounts[a].email \in Emails
    BY DEF TypeOK, Account
  <2>2. IdentityLinked'
    BY <1>1, <2>1, SesameStep DEF IInv, IdentityLinked
  <2> QED
    BY <1>1, <2>2 DEF IInv, AccountsDistinct, TenantOwnsDomain
<1>2. ASSUME NEW r \in Requests, UNCHANGED sesame, Inserts(r)
      PROVE  IdentityLinked' /\ AccountsDistinct' /\ TenantOwnsDomain'
  <2>1. /\ DOMAIN accounts' = DOMAIN accounts \cup {r}
        /\ \A a \in DOMAIN accounts : a # r => accounts'[a] = accounts[a]
        /\ accounts'[r].tenant = request[r].tenant
        /\ accounts'[r].domain = request[r].domain
        /\ accounts'[r].email = EmailOf(r)
        /\ accounts'[r].status = "pending"
        /\ accounts'[r].user = NoUser
    BY <1>2, InsertTyped DEF Inserts
  <2>2. r \notin DOMAIN accounts /\ DomainTenant[request[r].domain] = request[r].tenant
    BY <1>2 DEF IInv, HandlersConsistent, HandlerConsistent, Inserts
  <2>3. \A a \in DOMAIN accounts : accounts[a].email # EmailOf(r)
    BY <1>2 DEF Inserts, EmailTaken
  <2>4. IdentityLinked'
    BY <1>2, <2>1, <2>2 DEF IInv, IdentityLinked
  <2>5. AccountsDistinct'
    BY <2>1, <2>2, <2>3 DEF IInv, AccountsDistinct
  <2>6. TenantOwnsDomain'
    BY <2>1, <2>2 DEF IInv, TenantOwnsDomain
  <2> QED
    BY <2>4, <2>5, <2>6
<1>3. ASSUME NEW a \in DOMAIN accounts, NEW u \in UserIds, UNCHANGED sesame,
             SetActive(a, u), u = sesame[accounts[a].email]
      PROVE  IdentityLinked' /\ AccountsDistinct' /\ TenantOwnsDomain'
  <2>1. /\ DOMAIN accounts' = DOMAIN accounts
        /\ \A b \in DOMAIN accounts : b # a => accounts'[b] = accounts[b]
        /\ accounts'[a].status = "active" /\ accounts'[a].user = u
        /\ \A b \in DOMAIN accounts :
             /\ accounts'[b].tenant = accounts[b].tenant
             /\ accounts'[b].domain = accounts[b].domain
             /\ accounts'[b].email = accounts[b].email
    BY <1>3, ActivationTyped
  <2>2. \A b \in DOMAIN accounts : accounts[b].email \in Emails
    BY DEF TypeOK, Account
  <2>3. u # NoUser
    OBVIOUS
  <2>4. IdentityLinked'
    BY <1>3, <2>1, <2>3 DEF IInv, IdentityLinked
  <2>5. \A b \in DOMAIN accounts : b # a => accounts[b].user # u
    BY <1>3, <2>2, <2>3 DEF IInv, IdentityLinked, SesameDistinct, AccountsDistinct
  <2>6. AccountsDistinct'
    BY <2>1, <2>5 DEF IInv, AccountsDistinct
  <2>7. TenantOwnsDomain'
    BY <2>1 DEF IInv, TenantOwnsDomain
  <2> QED
    BY <2>4, <2>6, <2>7
<1>4. ASSUME NEW r \in Requests, Activates(r) PROVE r \in DOMAIN accounts
  BY <1>4 DEF IInv, HandlersConsistent, HandlerConsistent, Activates
<1> QED
  BY <1>1, <1>2, <1>3, <1>4, ActivationUser, TableSteps
\* The audit rows of an account: one of its creation, at most one of each kind of
\* activation, and one of them exactly when it is active.
LEMMA AuditStep == ASSUME IInv, [Next]_vars, TypeOK' PROVE AuditTrail'
<1> TypeOK
  BY DEF IInv
<1> USE AuditActions
<1>0. \A a \in Requests :
        /\ audit[a]["account.create"] \in Nat
        /\ audit[a]["account.provisioned"] \in Nat
        /\ audit[a]["account.reconciled"] \in Nat
  BY DEF TypeOK
<1>1. \A a \in Requests :
        (\E action \in AuditAction \ {"account.create"} : audit[a][action] > 0)
          <=> (audit[a]["account.provisioned"] > 0 \/ audit[a]["account.reconciled"] > 0)
  BY DEF AuditAction
<1>2. \A a \in Requests :
        (\E action \in AuditAction \ {"account.create"} : audit'[a][action] > 0)
          <=> (audit'[a]["account.provisioned"] > 0 \/ audit'[a]["account.reconciled"] > 0)
  BY DEF AuditAction
<1>3. CASE UNCHANGED <<accounts, audit>>
  BY <1>3 DEF IInv, AuditTrail
<1>4. ASSUME NEW r \in Requests, Inserts(r) PROVE AuditTrail'
  <2>1. /\ DOMAIN accounts' = DOMAIN accounts \cup {r}
        /\ \A a \in DOMAIN accounts : a # r => accounts'[a] = accounts[a]
        /\ accounts'[r].status = "pending"
    BY <1>4, InsertTyped DEF Inserts
  <2>2. /\ audit'[r]["account.create"] = audit[r]["account.create"] + 1
        /\ \A b \in Requests, other \in AuditAction :
             b # r \/ other # "account.create" => audit'[b][other] = audit[b][other]
    BY <1>4, RecordTyped DEF Inserts, InsertAccount
  <2>3. r \notin DOMAIN accounts
    BY <1>4 DEF IInv, HandlersConsistent, HandlerConsistent, Inserts
  <2> QED
    BY <1>0, <1>1, <1>2, <2>1, <2>2, <2>3 DEF IInv, AuditTrail
<1>5. ASSUME NEW a \in DOMAIN accounts, NEW u \in UserIds, SetActive(a, u),
             NEW action \in {"account.provisioned", "account.reconciled"},
             Record(a, action), audit[a][action] = 0
      PROVE  AuditTrail'
  <2>0. a \in Requests /\ action \in AuditAction
    BY DEF TypeOK
  <2>1. /\ DOMAIN accounts' = DOMAIN accounts
        /\ \A b \in DOMAIN accounts : b # a => accounts'[b] = accounts[b]
        /\ accounts'[a].status = "active"
    BY <1>5, ActivationTyped
  <2>2. /\ audit'[a][action] = 1
        /\ \A b \in Requests, other \in AuditAction :
             b # a \/ other # action => audit'[b][other] = audit[b][other]
    BY <1>5, <2>0, RecordTyped
  <2> QED
    BY <1>0, <1>1, <1>2, <2>0, <2>1, <2>2 DEF IInv, AuditTrail
<1>6. ASSUME NEW r \in Requests, Activates(r) PROVE AuditTrail'
  <2>1. r \in DOMAIN accounts /\ audit[r]["account.provisioned"] = 0
    BY <1>6 DEF IInv, HandlersConsistent, HandlerConsistent, Activates
  <2> QED
    BY <1>5, <1>6, <2>1, ActivationUser DEF Activates, ProvisionedTx
<1>7. ASSUME NEW j \in Runners, NEW a \in DOMAIN accounts, Reconciles(j, a)
      PROVE  AuditTrail'
  <2>1. audit[a]["account.reconciled"] = 0
    BY <1>0, <1>1, <1>7 DEF IInv, AuditTrail, Reconciles, TypeOK
  <2> QED
    BY <1>5, <1>7, <2>1, ActivationUser DEF Reconciles
<1> QED
  BY <1>3, <1>4, <1>6, <1>7, TableSteps
\* A row appears only by its own request's INSERT.
LEMMA RowsInserted ==
  ASSUME IInv, [Next]_vars, NEW r \in Requests, r \notin DOMAIN accounts
  PROVE  r \notin DOMAIN accounts' \/ Inserts(r)
<1> TypeOK
  BY DEF IInv
<1>1. ASSUME NEW q \in Requests, Inserts(q), r # q PROVE r \notin DOMAIN accounts'
  BY <1>1, InsertTyped DEF Inserts
<1>2. ASSUME NEW q \in Requests, Activates(q) PROVE DOMAIN accounts' = DOMAIN accounts
  BY <1>2 DEF Activates, ProvisionedTx, SetActive
<1>3. ASSUME NEW j \in Runners, NEW a \in DOMAIN accounts, Reconciles(j, a)
      PROVE  DOMAIN accounts' = DOMAIN accounts
  BY <1>3 DEF Reconciles, SetActive
<1> QED
  BY <1>1, <1>2, <1>3, TableSteps

\* A step of another actor leaves what a handler relies on as it is.
LEMMA HandlerFrame ==
  ASSUME IInv, [Next]_vars, NEW q \in Requests, request'[q] = request[q]
  PROVE  HandlerConsistent(q)'
<1> TypeOK /\ SesameDistinct /\ HandlerConsistent(q)
  BY DEF IInv, HandlersConsistent
<1>0. EmailOf(q) \in Emails /\ EmailOf(q)' = EmailOf(q)
  BY EmailOfTyped DEF EmailOf
<1>1. q \in DOMAIN accounts =>
        /\ q \in DOMAIN accounts'
        /\ accounts'[q].email = accounts[q].email
        /\ accounts'[q].created = accounts[q].created
  BY RowsKept
<1>2. q \notin DOMAIN accounts => q \notin DOMAIN accounts'
  BY RowsInserted DEF Inserts, HandlerConsistent
<1>3. audit'[q]["account.provisioned"] = audit[q]["account.provisioned"]
        \/ request[q].pc = "done"
  <2> USE AuditActions
  <2>1. ASSUME NEW r \in Requests, Inserts(r)
        PROVE  audit'[q]["account.provisioned"] = audit[q]["account.provisioned"]
    BY <2>1, RecordTyped DEF Inserts, InsertAccount
  <2>2. ASSUME NEW r \in Requests, Activates(r), r # q
        PROVE  audit'[q]["account.provisioned"] = audit[q]["account.provisioned"]
    BY <2>2, RecordTyped DEF Activates, ProvisionedTx
  <2>3. ASSUME Activates(q) PROVE request[q].pc = "done"
    BY <2>3 DEF Activates
  <2>4. ASSUME NEW j \in Runners, NEW a \in DOMAIN accounts, Reconciles(j, a)
        PROVE  audit'[q]["account.provisioned"] = audit[q]["account.provisioned"]
    <3>1. a \in Requests
      BY DEF TypeOK
    <3> QED
      BY <2>4, <3>1, RecordTyped DEF Reconciles
  <2> QED
    BY <2>1, <2>2, <2>3, <2>4, TableSteps
<1>4. sesame[EmailOf(q)] # NoUser => sesame'[EmailOf(q)] = sesame[EmailOf(q)]
  BY <1>0, SesameStep
<1> QED
  BY <1>0, <1>1, <1>2, <1>3, <1>4 DEF HandlerConsistent

\* Every step keeps what the create_account handlers hold across their awaits.
LEMMA HandlersStep ==
  ASSUME IInv, [Next]_vars, TypeOK'
  PROVE  HandlersConsistent'
<1> TypeOK /\ SesameDistinct /\ HandlersConsistent
  BY DEF IInv
<1> USE RepliesTyped, PcsTyped
<1>0. ASSUME NEW r \in Requests, HandlerConsistent(r)',
             \A q \in Requests : q # r => request'[q] = request[q]
      PROVE  HandlersConsistent'
  BY <1>0, HandlerFrame DEF HandlersConsistent
<1>1. CASE UNCHANGED request
  BY <1>1, HandlerFrame DEF HandlersConsistent
<1>2. ASSUME NEW r \in Requests, FindDomain(r) PROVE HandlersConsistent'
  <2>1. HandlerConsistent(r) /\ request[r] \in Handler
    BY DEF HandlersConsistent, TypeOK
  <2>2. UNCHANGED <<accounts, audit, sesame>>
    BY <1>2 DEF FindDomain
  <2>3. CASE Answer(r, "NotFound")
    BY <1>0, <1>2, <2>1, <2>2, <2>3, AnswerTyped
    DEF HandlerConsistent, FindDomain, SameArguments, EmailOf
  <2>4. CASE /\ DomainFound(request[r].tenant, request[r].domain)
             /\ request' = [request EXCEPT ![r] =
                              [@ EXCEPT !.pc = "insert", !.began = clock]]
    <3>1. /\ \A q \in Requests : q # r => request'[q] = request[q]
          /\ request'[r].pc = "insert"
          /\ request'[r].reply = request[r].reply
          /\ request'[r].tenant = request[r].tenant
          /\ request'[r].domain = request[r].domain
      BY <2>1, <2>4 DEF TypeOK, Handler
    <3>2. DomainTenant[request[r].domain] = request[r].tenant
      BY <2>4 DEF DomainFound
    <3>3. HandlerConsistent(r)'
      BY <1>2, <2>1, <2>2, <3>1, <3>2 DEF HandlerConsistent, FindDomain
    <3> QED
      BY <1>0, <3>1, <3>3
  <2> QED
    BY <1>2, <2>3, <2>4 DEF FindDomain
<1>3. ASSUME NEW r \in Requests, CreateAccount(r) \/ CreateAccountFails(r)
      PROVE  HandlersConsistent'
  <2>1. HandlerConsistent(r) /\ request[r].pc = "insert"
    BY <1>3 DEF HandlersConsistent, CreateAccount, CreateAccountFails
  <2>2. /\ \A q \in Requests : q # r => request'[q] = request[q]
        /\ SameArguments(r)
        /\ \/ /\ request'[r].pc = "provision"
              /\ request'[r].reply = request[r].reply
              /\ InsertAccount(r)
           \/ request'[r].pc = "done"
    BY <1>3, GotoTyped, AnswerTyped DEF CreateAccount, CreateAccountFails
  <2>3. EmailOf(r)' = EmailOf(r)
    BY <2>2 DEF EmailOf, SameArguments
  <2>4. CASE InsertAccount(r)
    <3>1. /\ r \in DOMAIN accounts'
          /\ accounts'[r].email = EmailOf(r)
          /\ accounts'[r].created = request[r].began
      BY <2>4, InsertTyped
    <3>2. audit'[r]["account.provisioned"] = audit[r]["account.provisioned"]
      BY <2>4, RecordTyped, AuditActions DEF InsertAccount
    <3>3. HandlerConsistent(r)'
      BY <2>1, <2>2, <2>3, <3>1, <3>2 DEF HandlerConsistent, SameArguments
    <3> QED
      BY <1>0, <2>2, <3>3
  <2>5. CASE UNCHANGED <<accounts, audit>> /\ request'[r].pc = "done"
    BY <1>0, <2>1, <2>2, <2>3, <2>5 DEF HandlerConsistent, SameArguments
  <2> QED
    BY <1>3, <2>2, <2>4, <2>5, AnswerTyped DEF CreateAccount, CreateAccountFails
<1>4. ASSUME NEW r \in Requests, ProvisionUser(r) PROVE HandlersConsistent'
  <2>1. HandlerConsistent(r) /\ request[r] \in Handler /\ request[r].pc = "provision"
    BY <1>4 DEF HandlersConsistent, TypeOK, ProvisionUser
  <2>2. sesame'[EmailOf(r)] \in UserIds
    BY <1>4, SesameTyped, EmailOfTyped DEF ProvisionUser
  <2>3. /\ \A q \in Requests : q # r => request'[q] = request[q]
        /\ request'[r].pc = "activate"
        /\ request'[r].reply = request[r].reply
        /\ request'[r].user = sesame'[EmailOf(r)]
        /\ SameArguments(r)
    BY <1>4, <2>1 DEF ProvisionUser, TypeOK, Handler, SameArguments
  <2>4. EmailOf(r)' = EmailOf(r)
    BY <2>3 DEF EmailOf, SameArguments
  <2>5. HandlerConsistent(r)'
    BY <1>4, <2>1, <2>2, <2>3, <2>4 DEF HandlerConsistent, ProvisionUser, SameArguments
  <2> QED
    BY <1>0, <2>3, <2>5
<1>5. ASSUME NEW r \in Requests, request[r].pc \in {"provision", "activate", "hung", "insert"},
             SameArguments(r), request'[r].pc = "done",
             \A q \in Requests : q # r => request'[q] = request[q],
             r \in DOMAIN accounts \/ UNCHANGED accounts
      PROVE  HandlersConsistent'
  <2>1. HandlerConsistent(r) /\ EmailOf(r)' = EmailOf(r)
    BY <1>5 DEF HandlersConsistent, EmailOf, SameArguments
  <2>2. HandlerConsistent(r)'
    BY <1>5, <2>1, RowsKept DEF HandlerConsistent, SameArguments
  <2> QED
    BY <1>0, <1>5, <2>2
<1>6. ASSUME NEW r \in Requests,
             ProvisionUserFails(r) \/ ActivateAccount(r) \/ ActivateAccountFails(r)
      PROVE  HandlersConsistent'
  <2>1. request[r].pc \in {"provision", "activate"}
    BY <1>6 DEF ProvisionUserFails, ActivateAccount, ActivateAccountFails
  <2>2. r \in DOMAIN accounts
    BY <2>1 DEF HandlersConsistent, HandlerConsistent
  <2>3. Answer(r, "pending") \/ Answer(r, "active")
    BY <1>6 DEF ProvisionUserFails, ActivateAccount, ActivateAccountFails
  <2> QED
    BY <1>5, <2>1, <2>2, <2>3, AnswerTyped
<1>7. ASSUME NEW r \in Requests, Abandon(r) PROVE HandlersConsistent'
  BY <1>5, <1>7, GotoTyped DEF Abandon
<1>8. CASE SesameHangs
  <2>1. ASSUME NEW r \in Requests, request[r].pc = "provision", Goto(r, "hung")
        PROVE  HandlersConsistent'
    <3>1. HandlerConsistent(r)
      BY DEF HandlersConsistent
    <3>2. HandlerConsistent(r)'
      BY <1>8, <2>1, <3>1, GotoTyped DEF HandlerConsistent, SameArguments, EmailOf, SesameHangs
    <3> QED
      BY <1>0, <2>1, <3>2, GotoTyped
  <2> QED
    BY <1>1, <1>8, <2>1 DEF SesameHangs
<1>9. CASE \E j \in Runners :
             \/ ReadBatch(j) \/ RunnerCrashes(j)
             \/ \E a \in DOMAIN accounts :
                  \/ Provision(j, a) \/ ProvisionFails(j, a)
                  \/ Reconcile(j, a) \/ ReconcileFails(j, a)
  BY <1>1, <1>9 DEF ReadBatch, RunnerCrashes, Provision, ProvisionFails, Reconcile,
                    ReconcileFails
<1>10. CASE UNCHANGED vars \/ \E d \in Domains : OperatorSetsDomain(d)
  BY <1>1, <1>10 DEF vars, OperatorSetsDomain
<1> QED
  BY <1>2, <1>3, <1>4, <1>6, <1>7, <1>8, <1>9, <1>10 DEF Next
\* A handler begins its transaction once, at a time no other has.
LEMMA BegunSteps ==
  ASSUME IInv, [Next]_vars, NEW r \in Requests
  PROVE  /\ clock' \in {clock, clock + 1}
         /\ \/ request'[r].began = request[r].began /\ (Begun(r)' => Begun(r))
            \/ /\ request[r].pc = "idle" /\ request'[r].pc = "insert"
               /\ request'[r].began = clock
               /\ clock' = clock + 1
               /\ \A q \in Requests : q # r => request'[q] = request[q]
<1> TypeOK /\ HandlersConsistent
  BY DEF IInv
<1> USE RepliesTyped, PcsTyped
<1> DEFINE Same == request'[r].began = request[r].began /\ (Begun(r)' => Begun(r))
<1>0. r \notin DOMAIN accounts => r \notin DOMAIN accounts' \/ Inserts(r)
  BY RowsInserted
<1>1. ASSUME request'[r].began = request[r].began,
             request'[r].pc = "insert" => request[r].pc = "insert"
      PROVE  Same
  BY <1>0, <1>1 DEF Begun, Inserts
<1>2. ASSUME request'[r] = request[r] PROVE Same
  BY <1>1, <1>2
<1> HIDE DEF Same
<1>3. ASSUME NEW q \in Requests, FindDomain(q)
      PROVE  /\ clock' \in {clock, clock + 1}
             /\ \/ Same
                \/ /\ request[r].pc = "idle" /\ request'[r].pc = "insert"
                   /\ request'[r].began = clock
                   /\ clock' = clock + 1
                   /\ \A p \in Requests : p # r => request'[p] = request[p]
  <2>1. CASE Answer(q, "NotFound") /\ UNCHANGED clock
    BY <1>1, <1>2, <2>1, AnswerTyped DEF SameArguments
  <2>2. CASE /\ request' = [request EXCEPT ![q] =
                              [@ EXCEPT !.pc = "insert", !.began = clock]]
             /\ clock' = clock + 1
    <3>1. /\ \A p \in Requests : p # q => request'[p] = request[p]
          /\ request[q].pc = "idle" /\ request'[q].pc = "insert"
          /\ request'[q].began = clock
      BY <1>3, <2>2 DEF FindDomain, TypeOK, Handler
    <3> QED
      BY <1>2, <2>2, <3>1
  <2> QED
    BY <1>3, <2>1, <2>2 DEF FindDomain
<1>4. ASSUME NEW q \in Requests,
             \/ CreateAccount(q) \/ CreateAccountFails(q) \/ ProvisionUserFails(q)
             \/ ActivateAccount(q) \/ ActivateAccountFails(q) \/ Abandon(q)
      PROVE  UNCHANGED clock /\ Same
  <2>1. UNCHANGED clock
    BY <1>4 DEF CreateAccount, CreateAccountFails, ProvisionUserFails, ActivateAccount,
                ActivateAccountFails, Abandon
  <2>2. \/ Goto(q, "provision") \/ Goto(q, "done") \/ Answer(q, "Conflict")
        \/ Answer(q, "Internal") \/ Answer(q, "pending") \/ Answer(q, "active")
    BY <1>4 DEF CreateAccount, CreateAccountFails, ProvisionUserFails, ActivateAccount,
                ActivateAccountFails, Abandon
  <2> QED
    BY <1>1, <1>2, <2>1, <2>2, GotoTyped, AnswerTyped DEF SameArguments
<1>5. ASSUME NEW q \in Requests, ProvisionUser(q) PROVE UNCHANGED clock /\ Same
  <2>1. /\ \A p \in Requests : p # q => request'[p] = request[p]
        /\ request'[q].pc = "activate"
        /\ request'[q].began = request[q].began
        /\ UNCHANGED clock
    BY <1>5 DEF ProvisionUser, TypeOK, Handler
  <2> QED
    BY <1>1, <1>2, <2>1
<1>6. CASE SesameHangs
  <2>1. ASSUME NEW q \in Requests, Goto(q, "hung") PROVE Same
    BY <1>1, <1>2, <2>1, GotoTyped DEF SameArguments
  <2> QED
    BY <1>2, <1>6, <2>1 DEF SesameHangs, Same
<1>7. CASE \E j \in Runners :
             \/ ReadBatch(j) \/ RunnerCrashes(j)
             \/ \E a \in DOMAIN accounts :
                  \/ Provision(j, a) \/ ProvisionFails(j, a)
                  \/ Reconcile(j, a) \/ ReconcileFails(j, a)
  <2>1. UNCHANGED <<request, clock>>
    BY <1>7 DEF ReadBatch, RunnerCrashes, Provision, ProvisionFails, Reconcile,
                ReconcileFails
  <2> QED
    BY <1>2, <2>1 DEF Same
<1>8. CASE UNCHANGED vars \/ \E d \in Domains : OperatorSetsDomain(d)
  <2>1. UNCHANGED <<request, clock>>
    BY <1>8 DEF vars, OperatorSetsDomain
  <2> QED
    BY <1>2, <2>1 DEF Same
<1> QED
  BY <1>3, <1>4, <1>5, <1>6, <1>7, <1>8 DEF Next, Same

\* Every step keeps the begin times of the inserting transactions different.
LEMMA CreatedStep == ASSUME IInv, [Next]_vars, TypeOK' PROVE CreatedDistinct'
<1> TypeOK /\ CreatedDistinct
  BY DEF IInv
<1>1. \A r \in Requests : request[r].began \in Nat
  BY DEF TypeOK, Handler
<1>2. clock \in Nat
  BY DEF TypeOK
<1>3. ASSUME NEW r \in Requests, Begun(r)' PROVE request'[r].began < clock'
  BY <1>1, <1>2, <1>3, BegunSteps DEF CreatedDistinct
<1>4. ASSUME NEW r \in Requests, NEW q \in Requests, r # q, Begun(r)', Begun(q)'
      PROVE  request'[r].began # request'[q].began
  <2>1. CASE request'[r].began = clock /\ clock' = clock + 1
             /\ \A p \in Requests : p # r => request'[p] = request[p]
    <3>1. request'[q] = request[q]
      BY <1>4, <2>1
    <3>2. CASE Begun(q)
      BY <1>1, <1>2, <2>1, <3>1, <3>2 DEF CreatedDistinct
    <3>3. CASE ~Begun(q)
      BY <1>4, <3>1, <3>3, BegunSteps
    <3> QED
      BY <3>2, <3>3
  <2> QED
    BY <1>1, <1>2, <1>4, <2>1, BegunSteps DEF CreatedDistinct
<1> QED
  BY <1>3, <1>4 DEF CreatedDistinct
\* A step of another actor leaves what a cycle relies on as it is.
LEMMA CycleFrame ==
  ASSUME IInv, [Next]_vars, NEW k \in Runners, runner'[k] = runner[k]
  PROVE  CycleConsistent(k)'
<1> TypeOK /\ SesameDistinct /\ CycleConsistent(k)
  BY DEF IInv, CyclesConsistent
<1>1. \A a \in runner[k].todo :
        /\ a \in DOMAIN accounts /\ a \in DOMAIN accounts'
        /\ accounts'[a].email = accounts[a].email
        /\ accounts'[a].created = accounts[a].created
  BY RowsKept DEF CycleConsistent
<1>2. \A a \in runner[k].todo : IsNext(k, a)' => IsNext(k, a)
  BY <1>1 DEF IsNext
<1>3. \A a \in runner[k].todo :
        sesame[accounts[a].email] # NoUser =>
          sesame'[accounts[a].email] = sesame[accounts[a].email]
  BY <1>1, SesameStep DEF TypeOK, Account
<1> QED
  BY <1>1, <1>2, <1>3 DEF CycleConsistent

\* Every step keeps what the reconcile_once cycles hold from their reads and calls.
LEMMA CyclesStep == ASSUME IInv, [Next]_vars PROVE CyclesConsistent'
<1> TypeOK /\ CyclesConsistent
  BY DEF IInv
<1>0. ASSUME NEW j \in Runners, CycleConsistent(j)',
             \A k \in Runners : k # j => runner'[k] = runner[k]
      PROVE  CyclesConsistent'
  BY <1>0, CycleFrame DEF CyclesConsistent
<1>1. CASE UNCHANGED runner
  BY <1>1, CycleFrame DEF CyclesConsistent
<1>2. ASSUME NEW j \in Runners, runner'[j].pc # "activate",
             runner'[j].todo \subseteq DOMAIN accounts,
             \A k \in Runners : k # j => runner'[k] = runner[k]
      PROVE  CyclesConsistent'
  <2>1. CycleConsistent(j)'
    BY <1>2, RowsKept DEF CycleConsistent
  <2> QED
    BY <1>0, <1>2, <2>1
<1>3. ASSUME NEW j \in Runners, ReadBatch(j) PROVE CyclesConsistent'
  <2>1. OldestPending \subseteq DOMAIN accounts
    BY DEF OldestPending, Pending
  <2>2. /\ runner'[j].pc = "provision"
        /\ runner'[j].todo = OldestPending
        /\ \A k \in Runners : k # j => runner'[k] = runner[k]
    BY <1>3 DEF ReadBatch, TypeOK
  <2> QED
    BY <1>2, <2>1, <2>2
<1>4. ASSUME NEW j \in Runners, NEW a \in DOMAIN accounts, Provision(j, a)
      PROVE  CyclesConsistent'
  <2>1. /\ runner'[j].pc = "activate"
        /\ runner'[j].todo = runner[j].todo
        /\ runner'[j].user = sesame'[accounts[a].email]
        /\ \A k \in Runners : k # j => runner'[k] = runner[k]
        /\ UNCHANGED <<accounts, request>>
    BY <1>4 DEF Provision, TypeOK, Cycle
  <2>2. sesame'[accounts[a].email] \in UserIds
    BY <1>4, SesameTyped DEF Provision, TypeOK, Account
  <2>3. runner[j].todo \subseteq DOMAIN accounts /\ IsNext(j, a)
    BY <1>4 DEF CyclesConsistent, CycleConsistent, Provision
  <2>4. ASSUME NEW b \in runner[j].todo, IsNext(j, b)' PROVE b = a
    <3>1. accounts[a].created <= accounts[b].created
          /\ accounts[b].created <= accounts[a].created
      BY <2>1, <2>3, <2>4 DEF IsNext
    <3>2. accounts[a].created = accounts[b].created
      <4>1. accounts[a] \in Account /\ accounts[b] \in Account
        BY <2>3 DEF TypeOK
      <4>2. accounts[a].created \in Nat /\ accounts[b].created \in Nat
        BY <4>1 DEF Account
      <4> QED
        BY <3>1, <4>2
    <3>3. a \in Requests /\ b \in Requests /\ b \in DOMAIN accounts
      BY <2>3 DEF TypeOK
    <3> QED
      BY <3>2, <3>3 DEF IInv, HandlersConsistent, HandlerConsistent, CreatedDistinct, Begun
  <2>5. CycleConsistent(j)'
    BY <2>1, <2>2, <2>3, <2>4 DEF CycleConsistent
  <2> QED
    BY <1>0, <2>1, <2>5
<1>5. ASSUME NEW j \in Runners, NEW a, Continue(j, a) \/ EndCycle(j) PROVE CyclesConsistent'
  <2>1. runner[j].todo \subseteq DOMAIN accounts
    BY DEF CyclesConsistent, CycleConsistent
  <2>2. CASE Continue(j, a)
    BY <1>2, <2>1, <2>2, ContinueTyped
  <2>3. CASE EndCycle(j)
    BY <1>2, <2>3, EndCycleTyped DEF NoCycle
  <2> QED
    BY <1>5, <2>2, <2>3
<1>6. CASE \E j \in Runners :
             \/ RunnerCrashes(j)
             \/ \E a \in DOMAIN accounts :
                  ProvisionFails(j, a) \/ Reconcile(j, a) \/ ReconcileFails(j, a)
  BY <1>5, <1>6 DEF RunnerCrashes, ProvisionFails, Reconcile, ReconcileFails
<1>7. CASE SesameHangs
  <2>1. ASSUME NEW j \in Runners, runner' = [runner EXCEPT ![j].pc = "hung"]
        PROVE  CyclesConsistent'
    <3>1. /\ runner'[j].pc = "hung"
          /\ runner'[j].todo = runner[j].todo
          /\ \A k \in Runners : k # j => runner'[k] = runner[k]
      BY <2>1 DEF TypeOK, Cycle
    <3> QED
      BY <1>2, <3>1 DEF CyclesConsistent, CycleConsistent
  <2> QED
    BY <1>1, <1>7, <2>1 DEF SesameHangs
<1>8. CASE \E r \in Requests :
             \/ FindDomain(r) \/ CreateAccount(r) \/ CreateAccountFails(r)
             \/ ProvisionUser(r) \/ ProvisionUserFails(r)
             \/ ActivateAccount(r) \/ ActivateAccountFails(r) \/ Abandon(r)
  BY <1>1, <1>8 DEF FindDomain, CreateAccount, CreateAccountFails, ProvisionUser,
                    ProvisionUserFails, ActivateAccount, ActivateAccountFails, Abandon
<1>9. CASE UNCHANGED vars \/ \E d \in Domains : OperatorSetsDomain(d)
  BY <1>1, <1>9 DEF vars, OperatorSetsDomain
<1> QED
  BY <1>3, <1>4, <1>6, <1>7, <1>8, <1>9 DEF Next

\* No step makes a reply of create_account untrue.
LEMMA RepliesStep == ASSUME IInv, [Next]_vars, TypeOK' PROVE ReplyTruthful'
<1> TypeOK /\ HandlersConsistent
  BY DEF IInv
<1> USE RepliesTyped, PcsTyped
<1>0. ASSUME NEW r \in Requests, request'[r].reply = request[r].reply,
             request'[r].local = request[r].local, request'[r].domain = request[r].domain
      PROVE  ReplyTrue(r)'
  <2>1. HandlerConsistent(r) /\ ReplyTrue(r) /\ EmailOf(r)' = EmailOf(r)
    BY <1>0 DEF IInv, HandlersConsistent, ReplyTruthful, EmailOf
  <2>2. request[r].reply \in {"NotFound", "Conflict"} => r \notin DOMAIN accounts'
    BY <2>1, RowsInserted DEF Inserts, HandlerConsistent, ReplyTrue
  <2> QED
    BY <1>0, <2>1, <2>2, RowsKept DEF ReplyTrue
<1>1. ASSUME NEW r \in Requests, request'[r] = request[r] PROVE ReplyTrue(r)'
  BY <1>0, <1>1
<1>2. ASSUME NEW r \in Requests, ReplyTrue(r)',
             \A q \in Requests : q # r => request'[q] = request[q]
      PROVE  ReplyTruthful'
  BY <1>1, <1>2 DEF ReplyTruthful
<1>3. ASSUME NEW r \in Requests, FindDomain(r) PROVE ReplyTruthful'
  <2>1. CASE Answer(r, "NotFound")
    <3>1. r \notin DOMAIN accounts'
      BY <1>3 DEF FindDomain, HandlersConsistent, HandlerConsistent
    <3>2. ReplyTrue(r)'
      BY <2>1, <3>1, AnswerTyped DEF ReplyTrue
    <3> QED
      BY <1>2, <2>1, <3>2, AnswerTyped
  <2>2. CASE request' = [request EXCEPT ![r] = [@ EXCEPT !.pc = "insert", !.began = clock]]
    <3>1. /\ \A q \in Requests : q # r => request'[q] = request[q]
          /\ request'[r].reply = request[r].reply
          /\ request'[r].local = request[r].local
          /\ request'[r].domain = request[r].domain
      BY <2>2 DEF TypeOK, Handler
    <3> QED
      BY <1>0, <1>2, <3>1
  <2> QED
    BY <1>3, <2>1, <2>2 DEF FindDomain
<1>4. ASSUME NEW r \in Requests, CreateAccount(r) \/ CreateAccountFails(r)
      PROVE  ReplyTruthful'
  <2>1. CASE Goto(r, "provision")
    BY <1>0, <1>2, <2>1, GotoTyped DEF SameArguments
  <2>2. CASE Answer(r, "Internal")
    <3>1. ReplyTrue(r)'
      BY <2>2, AnswerTyped DEF ReplyTrue
    <3> QED
      BY <1>2, <2>2, <3>1, AnswerTyped
  <2>3. CASE Answer(r, "Conflict") /\ EmailTaken(r) /\ UNCHANGED accounts
    <3>1. r \notin DOMAIN accounts'
      BY <1>4, <2>3
      DEF CreateAccount, CreateAccountFails, HandlersConsistent, HandlerConsistent
    <3>2. \E a \in DOMAIN accounts' : accounts'[a].email = EmailOf(r)'
      BY <2>3, AnswerTyped DEF EmailTaken, EmailOf, SameArguments
    <3>3. ReplyTrue(r)'
      BY <2>3, <3>1, <3>2, AnswerTyped DEF ReplyTrue
    <3> QED
      BY <1>2, <2>3, <3>3, AnswerTyped
  <2> QED
    BY <1>4, <2>1, <2>2, <2>3 DEF CreateAccount, CreateAccountFails
<1>5. ASSUME NEW r \in Requests, ProvisionUser(r) PROVE ReplyTruthful'
  <2>1. /\ \A q \in Requests : q # r => request'[q] = request[q]
        /\ request'[r].reply = request[r].reply
        /\ request'[r].local = request[r].local
        /\ request'[r].domain = request[r].domain
    BY <1>5 DEF ProvisionUser, TypeOK, Handler
  <2> QED
    BY <1>0, <1>2, <2>1
<1>6. ASSUME NEW r \in Requests, ProvisionUserFails(r) \/ ActivateAccountFails(r)
      PROVE  ReplyTruthful'
  <2>1. r \in DOMAIN accounts /\ Answer(r, "pending")
    BY <1>6 DEF ProvisionUserFails, ActivateAccountFails, HandlersConsistent,
                HandlerConsistent
  <2>2. ReplyTrue(r)'
    BY <2>1, AnswerTyped, RowsKept DEF ReplyTrue
  <2> QED
    BY <1>2, <2>1, <2>2, AnswerTyped
<1>7. ASSUME NEW r \in Requests, ActivateAccount(r) PROVE ReplyTruthful'
  <2>1. r \in DOMAIN accounts /\ Answer(r, "active") /\ SetActive(r, request[r].user)
    BY <1>7 DEF ActivateAccount, ProvisionedTx, HandlersConsistent, HandlerConsistent
  <2>2. request[r].user \in UserIds \cup {NoUser}
    BY DEF TypeOK, Handler
  <2>3. r \in DOMAIN accounts' /\ accounts'[r].status = "active"
    BY <2>1, <2>2, ActivationTyped
  <2>4. ReplyTrue(r)'
    BY <2>1, <2>3, AnswerTyped DEF ReplyTrue
  <2> QED
    BY <1>2, <2>1, <2>4, AnswerTyped
<1>8. ASSUME NEW r \in Requests, Goto(r, "done") \/ Goto(r, "hung") PROVE ReplyTruthful'
  BY <1>0, <1>2, <1>8, GotoTyped DEF SameArguments
<1>9. CASE UNCHANGED request
  BY <1>1, <1>9 DEF ReplyTruthful
<1>10. CASE SesameHangs \/ \E r \in Requests : Abandon(r)
  BY <1>8, <1>9, <1>10 DEF SesameHangs, Abandon
<1>11. CASE \E j \in Runners :
              \/ ReadBatch(j) \/ RunnerCrashes(j)
              \/ \E a \in DOMAIN accounts :
                   \/ Provision(j, a) \/ ProvisionFails(j, a)
                   \/ Reconcile(j, a) \/ ReconcileFails(j, a)
  BY <1>9, <1>11 DEF ReadBatch, RunnerCrashes, Provision, ProvisionFails, Reconcile,
                     ReconcileFails
<1>12. CASE UNCHANGED vars \/ \E d \in Domains : OperatorSetsDomain(d)
  BY <1>9, <1>12 DEF vars, OperatorSetsDomain
<1> QED
  BY <1>3, <1>4, <1>5, <1>6, <1>7, <1>10, <1>11, <1>12 DEF Next

-----------------------------------------------------------------------------
(* The theorems. *)

\* The empty database satisfies the inductive invariant.
LEMMA InitIInv == Init => IInv
<1> SUFFICES ASSUME Init PROVE IInv
  OBVIOUS
<1>1. \A r \in Requests :
        /\ request[r] \in Handler
        /\ request[r].pc = "idle" /\ request[r].reply = "none"
  BY DEF Init, NewHandler, Handler, RequestPc, Reply
<1>2. DOMAIN accounts = {} /\ accounts \in [DOMAIN accounts -> Account]
  BY DEF Init
<1>3. request \in [Requests -> Handler]
  BY <1>1 DEF Init
<1>4. TypeOK
  BY <1>2, <1>3 DEF Init, TypeOK, NoCycle, Cycle, RunnerPc
<1>5. SesameDistinct /\ IdentityLinked /\ AccountsDistinct /\ TenantOwnsDomain
  BY <1>2 DEF Init, SesameDistinct, IdentityLinked, AccountsDistinct, TenantOwnsDomain
<1>6. AuditTrail
  BY <1>2, AuditActions DEF Init, AuditTrail
<1>7. HandlersConsistent /\ CreatedDistinct /\ ReplyTruthful
  BY <1>1, <1>2, AuditActions
  DEF Init, HandlersConsistent, HandlerConsistent, CreatedDistinct, Begun,
      ReplyTruthful, ReplyTrue
<1>8. CyclesConsistent
  BY DEF Init, CyclesConsistent, CycleConsistent, NoCycle
<1> QED
  BY <1>4, <1>5, <1>6, <1>7, <1>8 DEF IInv

\* Every step of every actor keeps the inductive invariant.
LEMMA NextIInv == IInv /\ [Next]_vars => IInv'
<1> SUFFICES ASSUME IInv, [Next]_vars PROVE IInv'
  OBVIOUS
<1>1. TypeOK'
  BY TypingStep DEF IInv
<1>2. SesameDistinct'
  BY SesameStep DEF IInv
<1> QED
  BY <1>1, <1>2, IdentityStep, AuditStep, HandlersStep, CreatedStep, CyclesStep,
     RepliesStep
  DEF IInv

\* The inductive invariant holds throughout.
LEMMA IInvInvariant == Spec => []IInv
BY InitIInv, NextIInv, PTL DEF Spec

\* Every variable keeps its type: the rows, handlers and cycles that the code's
\* structs and the schema declare.
THEOREM TypeCorrect == Spec => []TypeOK
<1>1. IInv => TypeOK
  BY DEF IInv
<1> QED
  BY <1>1, IInvInvariant, PTL

\* Whatever the interleaving of admin-api and any number of job-runners, with any
\* batch size and any number of faults, an account is active exactly when it has
\* the sesame user of its address, and no two accounts share an address or a user.
THEOREM IdentitySafe == Spec => []OneIdentity
<1>1. IInv => OneIdentity
  BY DEF IInv, OneIdentity
<1> QED
  BY <1>1, IInvInvariant, PTL

\* Creation is audited exactly once, reconciliation at most once, and an account
\* is active iff its activation was audited.
THEOREM AuditComplete == Spec => []AuditTrail
<1>1. IInv => AuditTrail
  BY DEF IInv
<1> QED
  BY <1>1, IInvInvariant, PTL

\* No account lies in another tenant's domain.
THEOREM TenantsApart == Spec => []TenantOwnsDomain
<1>1. IInv => TenantOwnsDomain
  BY DEF IInv
<1> QED
  BY <1>1, IInvInvariant, PTL

\* What create_account replied remains true.
THEOREM RepliesHold == Spec => []ReplyTruthful
<1>1. IInv => ReplyTruthful
  BY DEF IInv
<1> QED
  BY <1>1, IInvInvariant, PTL

\* The rows that handlers and cycles hold across their awaits exist, and the user that
\* they are about to write is that of the row's address.
THEOREM HeldUserStaysRight == Spec => []HeldUserIsRight
<1>1. IInv => HeldUserIsRight
  BY DEF IInv, HeldUserIsRight
<1> QED
  BY <1>1, IInvInvariant, PTL

-----------------------------------------------------------------------------
(* Provisioning implements AccountLifecycle. *)

Email == [a \in DOMAIN accounts |-> accounts[a].email]
Owner ==
  [a \in { b \in DOMAIN accounts : accounts[b].status = "active" } |-> accounts[a].user]

\* Every step registers one account, links one for good, or changes neither.
LEMMA LifecycleStep ==
  ASSUME IInv, [Next]_vars
  PROVE  [Lifecycle!LifecycleNext]_<<Email, Owner>>
<1> TypeOK
  BY DEF IInv
<1>1. CASE UNCHANGED <<accounts, audit>>
  BY <1>1 DEF Email, Owner
<1>2. ASSUME NEW r \in Requests, Inserts(r)
      PROVE  Lifecycle!LifecycleNext
  <2>1. /\ DOMAIN accounts' = DOMAIN accounts \cup {r}
        /\ \A a \in DOMAIN accounts : a # r => accounts'[a] = accounts[a]
        /\ accounts'[r].email = EmailOf(r)
        /\ accounts'[r].status = "pending"
    BY <1>2, InsertTyped DEF Inserts
  <2>2. r \notin DOMAIN accounts
    BY <1>2 DEF IInv, HandlersConsistent, HandlerConsistent, Inserts
  <2>3. PICK e \in Emails : e = EmailOf(r)
    BY EmailOfTyped
  <2>4. \A b \in DOMAIN Email : Email[b] # e
    BY <1>2, <2>3 DEF Inserts, EmailTaken, Email
  <2>5. Email' = [b \in DOMAIN Email \cup {r} |-> IF b = r THEN e ELSE Email[b]]
    BY <2>1, <2>2, <2>3 DEF Email
  <2>6. Owner' = Owner
    BY <2>1, <2>2 DEF Owner
  <2>7. Lifecycle!Register(r, e)
    BY <2>2, <2>4, <2>5, <2>6 DEF Lifecycle!Register, Email, Owner
  <2> QED
    BY <2>7 DEF Lifecycle!LifecycleNext
<1>3. ASSUME NEW a \in DOMAIN accounts, NEW u \in UserIds, SetActive(a, u),
             accounts[a].status = "active" => accounts[a].user = u,
             u = sesame[accounts[a].email]
      PROVE  [Lifecycle!LifecycleNext]_<<Email, Owner>>
  <2>1. /\ DOMAIN accounts' = DOMAIN accounts
        /\ \A b \in DOMAIN accounts : b # a => accounts'[b] = accounts[b]
        /\ accounts'[a].status = "active" /\ accounts'[a].user = u
        /\ \A b \in DOMAIN accounts : accounts'[b].email = accounts[b].email
    BY <1>3, ActivationTyped
  <2>2. Email' = Email
    BY <2>1 DEF Email
  <2>3. CASE accounts[a].status = "active"
    <3>1. Owner' = Owner
      BY <1>3, <2>1, <2>3 DEF Owner
    <3> QED
      BY <2>2, <3>1
  <2>4. CASE accounts[a].status # "active"
    <3>1. a \in DOMAIN Email /\ a \notin DOMAIN Owner /\ a \in Requests
      BY <2>4 DEF Email, Owner, TypeOK
    <3>2. \A b \in DOMAIN accounts : accounts[b].email \in Emails
      BY DEF TypeOK, Account
    <3>3. \A b \in DOMAIN Owner : Owner[b] # u
      BY <1>3, <2>4, <3>2
      DEF Owner, IInv, IdentityLinked, SesameDistinct, AccountsDistinct
    <3>4. Owner' = [b \in DOMAIN Owner \cup {a} |-> IF b = a THEN u ELSE Owner[b]]
      BY <2>1, <2>4 DEF Owner
    <3>5. Lifecycle!Activate(a, u)
      BY <2>2, <3>1, <3>3, <3>4 DEF Lifecycle!Activate, Email, Owner
    <3> QED
      BY <3>1, <3>5 DEF Lifecycle!LifecycleNext
  <2> QED
    BY <2>3, <2>4
<1>4. ASSUME NEW r \in Requests, Activates(r) PROVE r \in DOMAIN accounts
  BY <1>4 DEF IInv, HandlersConsistent, HandlerConsistent, Activates
<1> QED
  BY <1>1, <1>2, <1>3, <1>4, ActivationUser, TableSteps

\* The two programs together, with every fault and retry, do no more than
\* AccountLifecycle says.
THEOREM Refinement == Spec => ImplementsLifecycle
<1>1. Init => Lifecycle!LifecycleInit
  BY DEF Init, Lifecycle!LifecycleInit
<1>2. IInv /\ [Next]_vars => [Lifecycle!LifecycleNext]_(Lifecycle!lifecycleVars)
  BY LifecycleStep DEF Lifecycle!lifecycleVars, Email, Owner
<1> QED
  BY <1>1, <1>2, IInvInvariant, PTL DEF Spec, ImplementsLifecycle, Lifecycle!LifecycleSpec
=============================================================================
