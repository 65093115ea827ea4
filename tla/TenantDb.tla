------------------------------ MODULE TenantDb ------------------------------
(***************************************************************************)
(* og-db: the only way in which the services reach PostgreSQL.  connect    *)
(* refuses a role that row-level security does not bind; tenant_tx and     *)
(* platform_tx take a connection of the pool, begin a transaction and set  *)
(* the transaction-local setting that the policies read.  A transaction    *)
(* that is dropped (an error's `?`, a cancelled handler) is rolled back    *)
(* before the connection serves again.                                     *)
(*                                                                         *)
(* A task is a handler or a worker step: it runs a transaction, possibly   *)
(* calls sesame-idam, and then runs another (create_account,               *)
(* reconcile_once).  There is one row per tenant, and each statement reads *)
(* what the policies show it.                                              *)
(***************************************************************************)
EXTENDS Naturals, FiniteSets

CONSTANTS
  Tasks, Tenants,
  Conns,       \* max_connections of them
  None,
  MaxFaults    \* bound on database errors, cancelled handlers and pool timeouts

ASSUME TenantDbAssumption ==
  /\ None \notin Tenants \cup Tasks
  /\ "platform" \notin Tenants \cup {None}
  /\ MaxFaults \in Nat

VARIABLES
  role,      \* is the connecting role superuser or BYPASSRLS, and is that allowed?
  service,   \* has the process connected?
  conn,      \* the connections
  task,      \* the tasks
  faults

vars == <<role, service, conn, task, faults>>

Scope == Tenants \cup {"platform"}

\* app.current_tenant_id and app.is_platform_admin, as the policies see them.
Settings == [tenant : Tenants \cup {None}, platform : BOOLEAN]
Unset == [tenant |-> None, platform |-> FALSE]

\* open: a transaction was begun and has not ended.
Connection == [owner : Tasks \cup {None}, open : BOOLEAN, settings : Settings]

\* again: a second transaction may follow, after a call; saw: the rows that each of the
\* task's statements was shown.
Task ==
  [scope : Scope, again : BOOLEAN, saw : SUBSET SUBSET Tenants,
   pc : {"idle", "begun", "scoped", "read", "call", "done", "failed"}]

TypeOK ==
  /\ role \in [privileged : BOOLEAN, allowed : BOOLEAN]
  /\ service \in {"starting", "serving", "refused"}
  /\ conn \in [Conns -> Connection]
  /\ task \in [Tasks -> Task]
  /\ faults \in 0..MaxFaults

Init ==
  /\ role \in [privileged : BOOLEAN, allowed : BOOLEAN]
  /\ service = "starting"
  /\ conn = [c \in Conns |-> [owner |-> None, open |-> FALSE, settings |-> Unset]]
  /\ task \in [Tasks -> { [scope |-> s, again |-> TRUE, saw |-> {}, pc |-> "idle"] :
                            s \in Scope }]
  /\ faults = 0

-----------------------------------------------------------------------------
\* assert_rls_safe_role fails closed, unless OPENGROUPWARE_ALLOW_UNSAFE_DB=1.
RoleAccepted == ~role.privileged \/ role.allowed

Connect ==
  /\ service = "starting"
  /\ service' = IF RoleAccepted THEN "serving" ELSE "refused"
  /\ UNCHANGED <<role, conn, task, faults>>

Goto(t, pc) == task' = [task EXCEPT ![t].pc = pc]

Fault ==
  /\ faults < MaxFaults
  /\ faults' = faults + 1

\* pool.begin(): a free connection; a rollback that a dropped transaction left to
\* be done comes first.
Begin(t, c) ==
  /\ service = "serving"
  /\ task[t].pc = "idle"
  /\ conn[c].owner = None
  /\ conn' = [conn EXCEPT ![c] =
                [owner |-> t, open |-> TRUE,
                 settings |-> IF @.open THEN Unset ELSE @.settings]]
  /\ Goto(t, "begun")
  /\ UNCHANGED <<role, service, faults>>

\* Every connection is taken for as long as the pool's acquire timeout.
PoolTimesOut(t) ==
  /\ service = "serving"
  /\ task[t].pc = "idle"
  /\ \A c \in Conns : conn[c].owner # None
  /\ Fault
  /\ Goto(t, "failed")
  /\ UNCHANGED <<role, service, conn>>

\* tenant_tx sets the one setting and platform_tx the other; neither resets the
\* one that it does not set.
\* Mutant: tenant_tx binds the id of its caller.
WithScopeCaller(settings, t) ==
  IF task[t].scope = "platform"
  THEN [settings EXCEPT !.platform = TRUE]
  ELSE [settings EXCEPT !.tenant = t]
WithScope(settings, t) ==
  IF task[t].scope = "platform"
  THEN [settings EXCEPT !.platform = TRUE]
  ELSE [settings EXCEPT !.tenant = task[t].scope]

SetConfig(t, c) ==
  /\ task[t].pc = "begun"
  /\ conn[c].owner = t
  /\ conn' = [conn EXCEPT ![c].settings = WithScope(@, t)]
  /\ Goto(t, "scoped")
  /\ UNCHANGED <<role, service, faults>>

\* The policies' USING clauses, which bind no privileged role.
Visible(c) ==
  { row \in Tenants : \/ role.privileged
                      \/ conn[c].settings.platform
                      \/ conn[c].settings.tenant = row }

\* A statement of the handler.
Statement(t, c) ==
  /\ task[t].pc = "scoped"
  /\ conn[c].owner = t
  /\ task' = [task EXCEPT ![t].pc = "read", ![t].saw = @ \cup {Visible(c)}]
  /\ UNCHANGED <<role, service, conn, faults>>

\* The end of a transaction ends its settings: the `true` of set_config.
\* Mutant: `false`, a setting of the session.
EndTxSession(c) ==
  conn' = [conn EXCEPT ![c] = [@ EXCEPT !.owner = None, !.open = FALSE]]
EndTx(c) ==
  conn' = [conn EXCEPT ![c] = [owner |-> None, open |-> FALSE, settings |-> Unset]]

\* tx.commit(); the call to sesame-idam, if there is one, comes after it.
\* Mutant: the call is made inside the transaction.
CommitAfterCall(t, c) ==
  /\ task[t].pc = "read"
  /\ conn[c].owner = t
  /\ \/ EndTx(c) /\ Goto(t, "done")
     \/ task[t].again /\ UNCHANGED conn /\ Goto(t, "call")
  /\ UNCHANGED <<role, service, faults>>
Commit(t, c) ==
  /\ task[t].pc = "read"
  /\ conn[c].owner = t
  /\ EndTx(c)
  /\ Goto(t, "done") \/ (task[t].again /\ Goto(t, "call"))
  /\ UNCHANGED <<role, service, faults>>

\* The call returns; it may also never return.
CallReturns(t) ==
  /\ task[t].pc = "call"
  /\ task' = [task EXCEPT ![t] = [@ EXCEPT !.pc = "idle", !.again = FALSE]]
  /\ UNCHANGED <<role, service, conn, faults>>

\* An error, or the handler is cancelled: the transaction is dropped, and its
\* ROLLBACK is left to the connection's next use.
DropTx(t, c) ==
  /\ task[t].pc \in {"begun", "scoped", "read"}
  /\ conn[c].owner = t
  /\ Fault
  /\ Goto(t, "failed")
  /\ conn' = [conn EXCEPT ![c].owner = None]
  /\ UNCHANGED <<role, service>>

Next ==
  \/ Connect
  \/ \E t \in Tasks :
       \/ PoolTimesOut(t)
       \/ CallReturns(t)
       \/ \E c \in Conns :
            \/ Begin(t, c)
            \/ SetConfig(t, c)
            \/ Statement(t, c)
            \/ Commit(t, c)
            \/ DropTx(t, c)

Spec == Init /\ [][Next]_vars

\* PostgreSQL answers every statement and a task that can run does; nothing says
\* that a call returns.
FairSpec ==
  /\ Spec
  /\ \A t \in Tasks :
       WF_vars(\E c \in Conns : SetConfig(t, c) \/ Statement(t, c) \/ Commit(t, c))

-----------------------------------------------------------------------------
Rows(scope) == IF scope = "platform" THEN Tenants ELSE {scope}

\* db.rs: "the setting dies with the transaction and can never leak": every
\* statement is shown exactly the rows of its own task's scope, whichever
\* connection it got and however that connection's last transaction ended, unless
\* the operator allowed a privileged role.
StatementsIsolated ==
  \A t \in Tasks :
    \A rows \in task[t].saw :
      ~(role.privileged /\ role.allowed) => rows = Rows(task[t].scope)

\* A connection is only ever used inside one transaction of one task, and an idle
\* one carries no setting but that of a transaction that is still to be rolled back.
ConnectionsClean ==
  \A c \in Conns :
    /\ conn[c].owner # None =>
         /\ conn[c].open
         /\ task[conn[c].owner].pc \in {"begun", "scoped", "read"}
         /\ \A d \in Conns \ {c} : conn[d].owner # conn[c].owner
    /\ ~conn[c].open => conn[c].settings = Unset

\* No tenant's statement is shown another's rows, for the reason that no connection
\* brings anything along from the transaction it served before.
TenantIsolation == StatementsIsolated /\ ConnectionsClean

\* reconcile.rs: "No connection is held open across a network call": a connection
\* that is taken is given back, even if no call ever returns.
ConnectionsReturn ==
  \A c \in Conns : conn[c].owner # None ~> conn[c].owner = None
=============================================================================
