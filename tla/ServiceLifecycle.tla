-------------------------- MODULE ServiceLifecycle --------------------------
(***************************************************************************)
(* The life of a service's processes: main() of admin-api and of abuse-api  *)
(* (connect, check the role, migrate if told to, and serve or exit) and     *)
(* service_kit::run (bind, serve, and on SIGTERM answer what was accepted   *)
(* and stop).  The processes are the replicas of one service, of an older   *)
(* and a newer image during a rolling update, and its bootstrap Job; they   *)
(* share a database.  Kubernetes restarts what crashes or exits with an     *)
(* error.                                                                   *)
(*                                                                          *)
(* Migrations are numbered; a process knows those up to its image's.  The   *)
(* Migrator of sqlx takes an advisory lock, which its connection holds,     *)
(* refuses a database with a migration it does not know, and applies those  *)
(* that are missing, each in a transaction.                                 *)
(***************************************************************************)
EXTENDS Naturals

CONSTANTS
  Processes,
  Config,       \* the environment of each process
  Requests,
  None,
  MaxFaults     \* bound on crashes, database errors and ports in use

ASSUME ServiceLifecycleAssumption ==
  /\ None \notin Processes
  /\ Config \in [Processes -> [known : Nat, run : BOOLEAN, only : BOOLEAN,
                               privileged : BOOLEAN, allowed : BOOLEAN]]
  /\ \E p \in Processes : \A q \in Processes : Config[q].known <= Config[p].known
  /\ MaxFaults \in Nat

VARIABLES
  applied,   \* the rows of _sqlx_migrations
  runs,      \* how often each migration's statements have been committed
  lock,      \* the process whose connection holds the migrator's lock
  proc,      \* the processes
  request,   \* the HTTP requests
  faults

vars == <<applied, runs, lock, proc, request, faults>>

Newest == CHOOSE n \in { Config[p].known : p \in Processes } :
            \A p \in Processes : Config[p].known <= n

\* plan: the migrations that a process found missing.
Process ==
  [pc : {"connect", "lock", "apply", "bind", "serving", "draining", "exited", "failed"},
   plan : SUBSET (1..Newest)]

TypeOK ==
  /\ applied \subseteq 1..Newest
  /\ runs \in [1..Newest -> Nat]
  /\ lock \in Processes \cup {None}
  /\ proc \in [Processes -> Process]
  /\ request \in [Requests -> [at : Processes \cup {None},
                               state : {"new", "accepted", "answered", "lost"}]]
  /\ faults \in 0..MaxFaults

Init ==
  /\ applied = {}
  /\ runs = [m \in 1..Newest |-> 0]
  /\ lock = None
  /\ proc = [p \in Processes |-> [pc |-> "connect", plan |-> {}]]
  /\ request = [r \in Requests |-> [at |-> None, state |-> "new"]]
  /\ faults = 0

-----------------------------------------------------------------------------
Goto(p, pc) == proc' = [proc EXCEPT ![p] = [pc |-> pc, plan |-> {}]]

Fault ==
  /\ faults < MaxFaults
  /\ faults' = faults + 1

\* The end of a process's session releases its lock: the Job and the replicas that
\* migrate connect to PostgreSQL directly, where the session ends with the process.
\* Mutant: the lock is a row, which a process that dies leaves behind.
UnlockKept(p) == UNCHANGED lock
Unlock(p) == lock' = IF lock = p THEN None ELSE lock

\* assert_rls_safe_role
\* Mutant: it only warns.
RoleWarned(p) == TRUE
RoleAccepted(p) == ~Config[p].privileged \/ Config[p].allowed

Migrates(p) == Config[p].run \/ Config[p].only

\* Db::connect, and the flags.
Connect(p) ==
  /\ proc[p].pc = "connect"
  /\ Goto(p, CASE ~RoleAccepted(p) -> "failed"
               [] RoleAccepted(p) /\ Migrates(p) -> "lock"
               [] RoleAccepted(p) /\ ~Migrates(p) -> "bind")
  /\ UNCHANGED <<applied, runs, lock, request, faults>>

Missing(p) == 1..Config[p].known \ applied

\* Migrator::run: the lock, and what is to be done.
\* Mutant: it takes no lock.
TakeLockNone(p) ==
  /\ proc[p].pc = "lock"
  /\ \/ /\ applied \subseteq 1..Config[p].known
        /\ proc' = [proc EXCEPT ![p] = [pc |-> "apply", plan |-> Missing(p)]]
     \/ ~(applied \subseteq 1..Config[p].known) /\ Goto(p, "failed")
  /\ UNCHANGED <<applied, runs, lock, request, faults>>
TakeLock(p) ==
  /\ proc[p].pc = "lock"
  /\ lock = None
  /\ \/ /\ applied \subseteq 1..Config[p].known
        /\ lock' = p
        /\ proc' = [proc EXCEPT ![p] = [pc |-> "apply", plan |-> Missing(p)]]
     \/ /\ ~(applied \subseteq 1..Config[p].known)
        /\ Goto(p, "failed")
        /\ UNCHANGED lock
  /\ UNCHANGED <<applied, runs, request, faults>>

\* One migration, with its row, in order.
Apply(p) ==
  /\ proc[p].pc = "apply"
  /\ \E m \in proc[p].plan :
       /\ \A n \in proc[p].plan : m <= n
       /\ applied' = applied \cup {m}
       /\ runs' = [runs EXCEPT ![m] = @ + 1]
       /\ proc' = [proc EXCEPT ![p].plan = @ \ {m}]
  /\ UNCHANGED <<lock, request, faults>>

\* "migrations applied": MIGRATE_ONLY exits, and never serves.
Migrated(p) ==
  /\ proc[p].pc = "apply" /\ proc[p].plan = {}
  /\ Unlock(p)
  /\ Goto(p, IF Config[p].only THEN "exited" ELSE "bind")
  /\ UNCHANGED <<applied, runs, request, faults>>

-----------------------------------------------------------------------------
(* service_kit::run *)

Bind(p) ==
  /\ proc[p].pc = "bind"
  /\ Goto(p, "serving")
  /\ UNCHANGED <<applied, runs, lock, request, faults>>

Accept(p, r) ==
  /\ proc[p].pc = "serving"
  /\ request[r].state = "new"
  /\ request' = [request EXCEPT ![r] = [at |-> p, state |-> "accepted"]]
  /\ UNCHANGED <<applied, runs, lock, proc, faults>>

\* A handler replies; one that waits for sesame-idam may never do.
Answer(r) ==
  /\ request[r].state = "accepted"
  /\ \E p \in Processes : request[r].at = p /\ proc[p].pc \in {"serving", "draining"}
  /\ request' = [request EXCEPT ![r].state = "answered"]
  /\ UNCHANGED <<applied, runs, lock, proc, faults>>

\* shutdown_signal
Sigterm(p) ==
  /\ proc[p].pc = "serving"
  /\ Goto(p, "draining")
  /\ UNCHANGED <<applied, runs, lock, request, faults>>

Accepted(p) == { r \in Requests : request[r].at = p /\ request[r].state = "accepted" }

\* with_graceful_shutdown: serve returns once what was accepted is answered; it closes
\* idle connections itself.
\* Mutant: it waits for the client to close them.
DrainedIdle(p) == \A r \in Requests : request[r].at # p
Drained(p) == Accepted(p) = {}

Exit(p) ==
  /\ proc[p].pc = "draining"
  /\ Drained(p)
  /\ Goto(p, "exited")
  /\ UNCHANGED <<applied, runs, lock, request, faults>>

-----------------------------------------------------------------------------
(* Failures. *)

\* An error that ends main (no database, a migration that fails, a port in use), a
\* SIGTERM before there is a handler for it, a SIGKILL, a lost node.
Crash(p) ==
  /\ proc[p].pc \notin {"exited", "failed"}
  /\ Fault
  /\ Goto(p, "failed")
  /\ Unlock(p)
  /\ request' = [r \in Requests |->
                   IF r \in Accepted(p) THEN [request[r] EXCEPT !.state = "lost"]
                   ELSE request[r]]
  /\ UNCHANGED <<applied, runs>>

Restart(p) ==
  /\ proc[p].pc = "failed"
  /\ Goto(p, "connect")
  /\ UNCHANGED <<applied, runs, lock, request, faults>>

Next ==
  \/ \E p \in Processes :
       \/ Connect(p) \/ TakeLock(p) \/ Apply(p) \/ Migrated(p)
       \/ Bind(p) \/ Sigterm(p) \/ Exit(p)
       \/ Crash(p) \/ Restart(p)
       \/ \E r \in Requests : Accept(p, r)
  \/ \E r \in Requests : Answer(r)

Spec == Init /\ [][Next]_vars

\* The database answers and a process that can run does, and Kubernetes restarts; no
\* request need be answered and no signal need come.  A waiter for an advisory lock
\* is served in its turn, hence the strong fairness.
FairSpec ==
  /\ Spec
  /\ \A p \in Processes :
       WF_vars(Connect(p) \/ Apply(p) \/ Migrated(p) \/ Bind(p) \/ Exit(p) \/ Restart(p))
  /\ \A p \in { q \in Processes : Migrates(q) } : SF_vars(TakeLock(p))

-----------------------------------------------------------------------------
Serves(p) == proc[p].pc \in {"serving", "draining"}

\* Each migration's statements are committed once, in order, and whenever its row is
\* there: whichever replicas and Jobs migrate at the same time, and wherever they crash.
MigratedOnce ==
  /\ TypeOK
  /\ \A m \in 1..Newest : runs[m] = IF m \in applied THEN 1 ELSE 0
  /\ \A m \in applied : 1..m \subseteq applied

\* A process that serves does so behind row-level security or by the operator's leave,
\* is no bootstrap Job, and, if it was told to migrate, finds the whole schema it knows:
\* main.rs's "Migrations run at startup", with the flags that it depends on.
ServesSafely ==
  \A p \in Processes :
    Serves(p) =>
      /\ Config[p].privileged => Config[p].allowed
      /\ ~Config[p].only
      /\ Config[p].run => 1..Config[p].known \subseteq applied

\* A process with the newest image and a role that is accepted.
Current(p) ==
  Config[p].known = Newest /\ (Config[p].privileged => Config[p].allowed)

\* If one such process migrates, each of them comes to serve over the whole schema it
\* knows, or has done its job: none waits for ever for the lock of a migrator that died,
\* and a replica that was not told to migrate, which may serve before the Job is done,
\* does not stay without its tables.
ComesUp ==
  (\E q \in Processes : Current(q) /\ Migrates(q)) =>
    \A p \in Processes :
      Current(p) =>
        (proc[p].pc = "connect" ~>
           \/ Serves(p) /\ 1..Config[p].known \subseteq applied
           \/ proc[p].pc = "exited")

\* "graceful shutdown on SIGTERM": a process that is told to stop stops, whatever it was
\* doing and however many clients it had, unless a request that it accepted never ends;
\* the code puts no limit on the drain, so that is the price of one that hangs.
DrainsUnlessHung ==
  \A p \in Processes :
    \/ []<>(proc[p].pc # "draining")
    \/ \E r \in Requests : <>[](r \in Accepted(p))
=============================================================================
