--------------------------- MODULE TenantDbProofs ---------------------------
(* What TenantDb guarantees for every set of tasks, tenants and connections. *)
EXTENDS TenantDb, TLAPS

USE TenantDbAssumption

\* No task has run a transaction unless connect accepted the role.
RoleChecked ==
  /\ service = "serving" => RoleAccepted
  /\ service # "serving" => \A t \in Tasks : task[t].pc = "idle"

\* The settings of a transaction that was given a scope and nothing else.
SettingsOf(scope) ==
  IF scope = "platform"
  THEN [tenant |-> None, platform |-> TRUE]
  ELSE [tenant |-> scope, platform |-> FALSE]

\* A connection that a task has taken is in that task's open transaction, is its only
\* one, and carries the one setting of the task's scope, or none before set_config.
OwnedScoped ==
  \A t \in Tasks, c \in Conns :
    conn[c].owner = t =>
      /\ conn[c].open
      /\ task[t].pc \in {"begun", "scoped", "read"}
      /\ \A d \in Conns \ {c} : conn[d].owner # t
      /\ conn[c].settings = IF task[t].pc = "begun" THEN Unset ELSE SettingsOf(task[t].scope)

\* A connection outside of a transaction carries no setting.
ClosedUnset == \A c \in Conns : ~conn[c].open => conn[c].settings = Unset

\* The inductive invariant.
IInv == TypeOK /\ RoleChecked /\ OwnedScoped /\ ClosedUnset /\ StatementsIsolated

-----------------------------------------------------------------------------
(* What the steps share. *)

\* set_config on a connection without settings gives it those of the task's scope.
LEMMA ScopeSet == ASSUME NEW t PROVE WithScope(Unset, t) = SettingsOf(task[t].scope)
<1> DEFINE yes == TRUE  no == FALSE
<1> HIDE DEF yes, no
<1>1. [[tenant |-> None, platform |-> no] EXCEPT !.platform = yes] = [tenant |-> None, platform |-> yes]
  OBVIOUS
<1>2. [[tenant |-> None, platform |-> no] EXCEPT !.tenant = task[t].scope]
        = [tenant |-> task[t].scope, platform |-> no]
  OBVIOUS
<1> QED
  BY <1>1, <1>2 DEF WithScope, SettingsOf, Unset, yes, no

\* The settings of a scope let a role that is bound see the rows of that scope.
LEMMA ScopeShowsRows ==
  ASSUME NEW scope \in Scope, NEW c \in Conns, ~role.privileged,
         conn[c].settings = SettingsOf(scope)
  PROVE  Visible(c) = Rows(scope)
<1>1. CASE scope = "platform"
  BY <1>1 DEF Visible, Rows, SettingsOf
<1>2. CASE scope # "platform"
  BY <1>2 DEF Visible, Rows, SettingsOf, Scope
<1> QED
  BY <1>1, <1>2

\* They are settings that PostgreSQL can have.
LEMMA ScopeTyped ==
  /\ Unset \in Settings
  /\ \A scope \in Scope : SettingsOf(scope) \in Settings
BY DEF SettingsOf, Unset, Settings, Scope

\* No task but t changes, and t keeps its scope.
OnlyTask(t) ==
  /\ task' \in [Tasks -> Task]
  /\ \A u \in Tasks \ {t} : task'[u] = task[u]
  /\ task'[t].scope = task[t].scope

\* A task that moves on has seen what it had seen.
LEMMA GotoTyped ==
  ASSUME TypeOK, NEW t \in Tasks,
         NEW pc \in {"begun", "scoped", "call", "done", "failed"}, Goto(t, pc)
  PROVE  OnlyTask(t) /\ task'[t].pc = pc /\ task'[t].saw = task[t].saw
<1>1. task[t] \in Task
  BY DEF TypeOK
<1>2. [task[t] EXCEPT !.pc = pc] \in Task
  BY <1>1 DEF Task
<1> QED
  BY <1>1, <1>2 DEF TypeOK, OnlyTask, Task, Goto

\* No connection but c changes.
OnlyConn(c) ==
  /\ conn' \in [Conns -> Connection]
  /\ \A d \in Conns \ {c} : conn'[d] = conn[d]

\* A step of t on a connection c, which t owned or nobody did, keeps what holds of all
\* connections if it holds of c: c is t's afterwards, with the right setting, or
\* nobody's, and then t has none.
LEMMA ConnStep ==
  ASSUME IInv, NEW t \in Tasks, NEW c \in Conns, OnlyTask(t), OnlyConn(c),
         conn[c].owner \in {t, None}, conn'[c].owner \in {t, None},
         \A d \in Conns \ {c} : conn[d].owner # t,
         ~conn'[c].open => conn'[c].settings = Unset,
         conn'[c].owner = t =>
           /\ conn'[c].open
           /\ task'[t].pc \in {"begun", "scoped", "read"}
           /\ conn'[c].settings =
                IF task'[t].pc = "begun" THEN Unset ELSE SettingsOf(task[t].scope)
  PROVE  OwnedScoped' /\ ClosedUnset'
<1>1. \A u \in Tasks : task'[u].scope = task[u].scope
  BY DEF OnlyTask
<1>3. OwnedScoped'
  <2> SUFFICES ASSUME NEW u \in Tasks, NEW d \in Conns, conn'[d].owner = u
               PROVE  /\ conn'[d].open
                      /\ task'[u].pc \in {"begun", "scoped", "read"}
                      /\ \A e \in Conns \ {d} : conn'[e].owner # u
                      /\ conn'[d].settings =
                           IF task'[u].pc = "begun" THEN Unset ELSE SettingsOf(task[u].scope)
    BY <1>1 DEF OwnedScoped
  <2>1. CASE d = c
    BY <2>1 DEF OnlyConn
  <2>2. CASE d # c
    <3>1. conn'[d] = conn[d] /\ u # t /\ task'[u] = task[u]
      BY <2>2 DEF OnlyConn, OnlyTask
    <3>2. /\ conn[d].open
          /\ task[u].pc \in {"begun", "scoped", "read"}
          /\ \A e \in Conns \ {d} : conn[e].owner # u
          /\ conn[d].settings =
               IF task[u].pc = "begun" THEN Unset ELSE SettingsOf(task[u].scope)
      BY <3>1 DEF IInv, OwnedScoped
    <3>3. \A e \in Conns \ {d} : conn'[e].owner # u
      BY <3>1, <3>2 DEF OnlyConn
    <3> QED
      BY <3>1, <3>2, <3>3
  <2> QED
    BY <2>1, <2>2
<1>4. ClosedUnset'
  BY DEF IInv, ClosedUnset, OnlyConn
<1> QED
  BY <1>3, <1>4

\* What a step of t that runs no statement keeps.
LEMMA OthersKept ==
  ASSUME IInv, NEW t \in Tasks, OnlyTask(t), task'[t].saw = task[t].saw,
         UNCHANGED <<role, service>>, service = "serving",
         conn' \in [Conns -> Connection], faults' \in 0..MaxFaults
  PROVE  TypeOK' /\ RoleChecked' /\ StatementsIsolated'
<1>1. TypeOK'
  BY DEF IInv, TypeOK, OnlyTask
<1>2. RoleChecked'
  BY DEF IInv, RoleChecked, RoleAccepted
<1>3. StatementsIsolated'
  <2>1. \A u \in Tasks : task'[u].saw = task[u].saw /\ task'[u].scope = task[u].scope
    BY DEF OnlyTask
  <2> QED
    BY <2>1 DEF IInv, StatementsIsolated, Rows
<1> QED
  BY <1>1, <1>2, <1>3

-----------------------------------------------------------------------------
\* The initial state satisfies the invariant.
LEMMA InitIInv == Init => IInv
<1> SUFFICES ASSUME Init PROVE IInv
  OBVIOUS
<1>1. \A t \in Tasks : task[t] \in Task /\ task[t].pc = "idle" /\ task[t].saw = {}
  <2> SUFFICES ASSUME NEW t \in Tasks
               PROVE  task[t] \in Task /\ task[t].pc = "idle" /\ task[t].saw = {}
    OBVIOUS
  <2>1. PICK s \in Scope : task[t] = [scope |-> s, again |-> TRUE, saw |-> {}, pc |-> "idle"]
    BY DEF Init
  <2> QED
    BY <2>1 DEF Task
<1>2. \A c \in Conns : conn[c] = [owner |-> None, open |-> FALSE, settings |-> Unset]
  BY DEF Init
<1>3. Unset \in Settings
  BY DEF Unset, Settings
<1>4. TypeOK
  <2>1. conn \in [Conns -> Connection]
    BY <1>3 DEF Init, Connection
  <2>2. task \in [Tasks -> Task]
    BY <1>1 DEF Init
  <2>3. role \in [privileged : BOOLEAN, allowed : BOOLEAN]
    BY Zenon DEF Init
  <2>4. service \in {"starting", "serving", "refused"} /\ faults \in 0..MaxFaults
    BY DEF Init
  <2> QED
    BY <2>1, <2>2, <2>3, <2>4, Zenon DEF TypeOK
<1>5. RoleChecked /\ StatementsIsolated
  BY <1>1 DEF Init, RoleChecked, StatementsIsolated
<1>6. OwnedScoped /\ ClosedUnset
  BY <1>2 DEF OwnedScoped, ClosedUnset
<1> QED
  BY <1>4, <1>5, <1>6 DEF IInv

\* Every step keeps the invariant.
LEMMA NextIInv == IInv /\ [Next]_vars => IInv'
<1> SUFFICES ASSUME IInv, [Next]_vars PROVE IInv'
  OBVIOUS
<1> TypeOK /\ RoleChecked /\ OwnedScoped /\ ClosedUnset
  BY DEF IInv
<1>0. \A t \in Tasks : task[t].pc # "idle" => service = "serving"
  BY DEF RoleChecked
<1>1. CASE Connect
  <2>1. TypeOK' /\ RoleChecked'
    BY <1>1 DEF Connect, TypeOK, RoleChecked, RoleAccepted
  <2>2. OwnedScoped' /\ ClosedUnset' /\ StatementsIsolated'
    BY <1>1 DEF Connect, IInv, OwnedScoped, ClosedUnset, StatementsIsolated, Rows
  <2> QED
    BY <2>1, <2>2 DEF IInv
<1>2. ASSUME NEW t \in Tasks, NEW c \in Conns, Begin(t, c) PROVE IInv'
  <2>1. OnlyTask(t) /\ task'[t].pc = "begun" /\ task'[t].saw = task[t].saw
    BY <1>2, GotoTyped DEF Begin
  <2>2. conn[c].owner = None /\ \A d \in Conns : conn[d].owner # t
    BY <1>2 DEF Begin, OwnedScoped
  <2>3. conn'[c] = [owner |-> t, open |-> TRUE, settings |-> Unset]
    BY <1>2 DEF Begin, TypeOK, ClosedUnset
  <2>4. OnlyConn(c)
    <3>1. [owner |-> t, open |-> TRUE, settings |-> Unset] \in Connection
      BY ScopeTyped DEF Connection
    <3>2. /\ DOMAIN conn' = Conns /\ conn' = [d \in Conns |-> conn'[d]]
          /\ \A d \in Conns \ {c} : conn'[d] = conn[d]
      BY <1>2 DEF Begin, TypeOK
    <3>3. \A d \in Conns : conn'[d] \in Connection
      BY <2>3, <3>1, <3>2 DEF TypeOK
    <3> QED
      BY <3>2, <3>3 DEF OnlyConn
  <2>5. OwnedScoped' /\ ClosedUnset'
    BY <2>1, <2>2, <2>3, <2>4, ConnStep
  <2>6. TypeOK' /\ RoleChecked' /\ StatementsIsolated'
    BY <1>2, <2>1, <2>4, OthersKept DEF Begin, OnlyConn, TypeOK
  <2> QED
    BY <2>5, <2>6 DEF IInv
<1>3. ASSUME NEW t \in Tasks, PoolTimesOut(t) PROVE IInv'
  <2>1. OnlyTask(t) /\ task'[t].pc = "failed" /\ task'[t].saw = task[t].saw
    BY <1>3, GotoTyped DEF PoolTimesOut
  <2>2. faults' \in 0..MaxFaults
    BY <1>3 DEF PoolTimesOut, Fault, TypeOK
  <2>3. TypeOK' /\ RoleChecked' /\ StatementsIsolated'
    BY <1>3, <2>1, <2>2, OthersKept DEF PoolTimesOut, TypeOK
  <2>4. \A c \in Conns : conn[c].owner # t
    BY <1>3 DEF PoolTimesOut, OwnedScoped
  <2>5. OwnedScoped' /\ ClosedUnset'
    BY <1>3, <2>1, <2>4 DEF PoolTimesOut, OwnedScoped, ClosedUnset, OnlyTask
  <2> QED
    BY <2>3, <2>5 DEF IInv
<1>4. ASSUME NEW t \in Tasks, CallReturns(t) PROVE IInv'
  <2>1. OnlyTask(t) /\ task'[t].saw = task[t].saw
    <3>1. task[t] \in Task
      BY DEF TypeOK
    <3>2. [task[t] EXCEPT !.pc = "idle", !.again = FALSE] \in Task
      BY <3>1 DEF Task
    <3> QED
      BY <1>4, <3>1, <3>2 DEF CallReturns, TypeOK, OnlyTask, Task
  <2>2. service = "serving"
    BY <1>0, <1>4 DEF CallReturns
  <2>3. TypeOK' /\ RoleChecked' /\ StatementsIsolated'
    BY <1>4, <2>1, <2>2, OthersKept DEF CallReturns, TypeOK
  <2>4. \A c \in Conns : conn[c].owner # t
    BY <1>4 DEF CallReturns, OwnedScoped
  <2>5. OwnedScoped' /\ ClosedUnset'
    BY <1>4, <2>1, <2>4 DEF CallReturns, OwnedScoped, ClosedUnset, OnlyTask
  <2> QED
    BY <2>3, <2>5 DEF IInv
<1>5. ASSUME NEW t \in Tasks, NEW c \in Conns, SetConfig(t, c) PROVE IInv'
  <2>1. OnlyTask(t) /\ task'[t].pc = "scoped" /\ task'[t].saw = task[t].saw
    BY <1>5, GotoTyped DEF SetConfig
  <2>2. /\ conn[c].owner = t /\ conn[c].open /\ conn[c].settings = Unset
        /\ \A d \in Conns \ {c} : conn[d].owner # t
    BY <1>5 DEF SetConfig, OwnedScoped
  <2>3. conn'[c] = [owner |-> t, open |-> TRUE, settings |-> SettingsOf(task[t].scope)]
    BY <1>5, <2>2, ScopeSet DEF SetConfig, TypeOK, Connection
  <2>4. OnlyConn(c)
    <3>1. [owner |-> t, open |-> TRUE, settings |-> SettingsOf(task[t].scope)] \in Connection
      BY ScopeTyped DEF Connection, TypeOK, Task
    <3>2. /\ DOMAIN conn' = Conns /\ conn' = [d \in Conns |-> conn'[d]]
          /\ \A d \in Conns \ {c} : conn'[d] = conn[d]
      BY <1>5 DEF SetConfig, TypeOK
    <3>3. \A d \in Conns : conn'[d] \in Connection
      BY <2>3, <3>1, <3>2 DEF TypeOK
    <3> QED
      BY <3>2, <3>3 DEF OnlyConn
  <2>5. OwnedScoped' /\ ClosedUnset'
    BY <2>1, <2>2, <2>3, <2>4, ConnStep
  <2>6. service = "serving"
    BY <1>0, <1>5 DEF SetConfig
  <2>7. TypeOK' /\ RoleChecked' /\ StatementsIsolated'
    BY <1>5, <2>1, <2>4, <2>6, OthersKept DEF SetConfig, OnlyConn, TypeOK
  <2> QED
    BY <2>5, <2>7 DEF IInv
<1>6. ASSUME NEW t \in Tasks, NEW c \in Conns, Statement(t, c) PROVE IInv'
  <2>1. /\ OnlyTask(t) /\ task'[t].pc = "read"
        /\ task'[t].saw = task[t].saw \cup {Visible(c)}
    <3>1. task[t] \in Task /\ Visible(c) \subseteq Tenants
      BY DEF TypeOK, Visible
    <3>2. task[t].saw \cup {Visible(c)} \in SUBSET SUBSET Tenants
      BY <3>1 DEF Task
    <3>3. [task[t] EXCEPT !.pc = "read", !.saw = task[t].saw \cup {Visible(c)}] \in Task
      BY <3>1, <3>2 DEF Task
    <3> QED
      BY <1>6, <3>1, <3>3 DEF Statement, TypeOK, OnlyTask, Task
  <2>2. /\ conn[c].owner = t /\ conn[c].open /\ task[t].pc = "scoped"
        /\ conn[c].settings = SettingsOf(task[t].scope)
        /\ \A d \in Conns \ {c} : conn[d].owner # t
    BY <1>6 DEF Statement, OwnedScoped
  <2>3. OwnedScoped' /\ ClosedUnset'
    BY <1>6, <2>1, <2>2, ConnStep DEF Statement, OnlyConn, TypeOK
  <2>4. RoleAccepted /\ service = "serving"
    BY <1>0, <2>2 DEF RoleChecked
  <2>5. TypeOK' /\ RoleChecked'
    BY <1>6, <2>1, <2>4 DEF Statement, TypeOK, OnlyTask, RoleChecked, RoleAccepted
  <2>6. StatementsIsolated'
    <3> SUFFICES ASSUME NEW u \in Tasks, NEW rows \in task'[u].saw,
                        ~(role.privileged /\ role.allowed)
                 PROVE  rows = Rows(task[u].scope)
      BY <1>6, <2>1 DEF Statement, StatementsIsolated, Rows, OnlyTask
    <3>1. CASE rows \in task[u].saw
      BY <3>1 DEF IInv, StatementsIsolated
    <3>2. CASE rows \notin task[u].saw
      <4>1. u = t /\ rows = Visible(c)
        BY <2>1, <3>2 DEF OnlyTask
      <4>2. ~role.privileged
        BY <2>4 DEF RoleAccepted, TypeOK
      <4> QED
        BY <2>2, <4>1, <4>2, ScopeShowsRows DEF TypeOK, Task
    <3> QED
      BY <3>1, <3>2
  <2> QED
    BY <2>3, <2>5, <2>6 DEF IInv
<1>7. ASSUME NEW t \in Tasks, NEW c \in Conns, Commit(t, c) PROVE IInv'
  <2>1. OnlyTask(t) /\ task'[t].saw = task[t].saw
    BY <1>7, GotoTyped DEF Commit
  <2>2. conn[c].owner = t /\ \A d \in Conns \ {c} : conn[d].owner # t
    BY <1>7 DEF Commit, OwnedScoped
  <2>3. /\ conn'[c] = [owner |-> None, open |-> FALSE, settings |-> Unset]
        /\ OnlyConn(c)
    <3>1. [owner |-> None, open |-> FALSE, settings |-> Unset] \in Connection
      BY ScopeTyped DEF Connection
    <3> QED
      BY <1>7, <3>1 DEF Commit, EndTx, TypeOK, OnlyConn
  <2>4. OwnedScoped' /\ ClosedUnset'
    BY <2>1, <2>2, <2>3, ConnStep
  <2>5. service = "serving"
    BY <1>0, <1>7 DEF Commit
  <2>6. TypeOK' /\ RoleChecked' /\ StatementsIsolated'
    BY <1>7, <2>1, <2>3, <2>5, OthersKept DEF Commit, OnlyConn, TypeOK
  <2> QED
    BY <2>4, <2>6 DEF IInv
<1>8. ASSUME NEW t \in Tasks, NEW c \in Conns, DropTx(t, c) PROVE IInv'
  <2>1. OnlyTask(t) /\ task'[t].saw = task[t].saw
    BY <1>8, GotoTyped DEF DropTx
  <2>2. conn[c].owner = t /\ conn[c].open /\ \A d \in Conns \ {c} : conn[d].owner # t
    BY <1>8 DEF DropTx, OwnedScoped
  <2>3. conn'[c].owner = None /\ conn'[c].open /\ OnlyConn(c)
    <3>1. conn[c] \in Connection
      BY DEF TypeOK
    <3>2. [conn[c] EXCEPT !.owner = None] \in Connection
      BY <3>1 DEF Connection
    <3> QED
      BY <1>8, <2>2, <3>1, <3>2 DEF DropTx, TypeOK, OnlyConn, Connection
  <2>4. OwnedScoped' /\ ClosedUnset'
    BY <2>1, <2>2, <2>3, ConnStep
  <2>5. service = "serving" /\ faults' \in 0..MaxFaults
    BY <1>0, <1>8 DEF DropTx, Fault, TypeOK
  <2>6. TypeOK' /\ RoleChecked' /\ StatementsIsolated'
    BY <1>8, <2>1, <2>3, <2>5, OthersKept DEF DropTx, OnlyConn
  <2> QED
    BY <2>4, <2>6 DEF IInv
<1>9. CASE UNCHANGED vars
  <2>1. TypeOK' /\ RoleChecked'
    BY <1>9 DEF TypeOK, RoleChecked, RoleAccepted, vars
  <2>2. OwnedScoped' /\ ClosedUnset' /\ StatementsIsolated'
    BY <1>9 DEF IInv, OwnedScoped, ClosedUnset, StatementsIsolated, Rows, vars
  <2> QED
    BY <2>1, <2>2 DEF IInv
<1> QED
  BY <1>1, <1>2, <1>3, <1>4, <1>5, <1>6, <1>7, <1>8, <1>9 DEF Next

\* In every behaviour, every state satisfies the invariant.
THEOREM InductiveInvariant == Spec => []IInv
BY InitIInv, NextIInv, PTL DEF Spec

\* The pool's connections and the tasks keep their types.
THEOREM TypeCorrectness == Spec => []TypeOK
<1>1. IInv => TypeOK
  BY DEF IInv
<1> QED
  BY <1>1, InductiveInvariant, PTL

\* No statement of tenant_tx is shown another tenant's rows and none of platform_tx
\* misses one, whatever the connection served before and however that ended.
THEOREM Isolation == Spec => []TenantIsolation
<1>1. IInv => TenantIsolation
  <2> SUFFICES ASSUME IInv PROVE ConnectionsClean
    BY DEF IInv, TenantIsolation
  <2> SUFFICES ASSUME NEW c \in Conns
               PROVE  /\ conn[c].owner # None =>
                           /\ conn[c].open
                           /\ task[conn[c].owner].pc \in {"begun", "scoped", "read"}
                           /\ \A d \in Conns \ {c} : conn[d].owner # conn[c].owner
                      /\ ~conn[c].open => conn[c].settings = Unset
    BY DEF ConnectionsClean
  <2>1. conn[c].owner \in Tasks \cup {None}
    BY DEF IInv, TypeOK, Connection
  <2> QED
    BY <2>1 DEF IInv, OwnedScoped, ClosedUnset
<1> QED
  BY <1>1, InductiveInvariant, PTL
=============================================================================
