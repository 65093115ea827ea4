----------------------- MODULE ServiceLifecycleProofs -----------------------
(* What ServiceLifecycle guarantees for every set of processes and images. *)
EXTENDS ServiceLifecycle, TLAPS

USE ServiceLifecycleAssumption

Known(p) == 1..Config[p].known

\* The migrator's lock belongs to the one process that migrates.
OneMigrator == \A p \in Processes : lock = p <=> proc[p].pc = "apply"

\* While a process migrates nobody else does: what it found missing, less what it has
\* applied, is what is missing now, and the database has nothing it does not know.
PlanCurrent ==
  \A p \in Processes :
    proc[p].pc = "apply" => proc[p].plan = Missing(p) /\ applied \subseteq Known(p)

\* Each migration was committed as often as it has rows.
CountedOnce == \A m \in 1..Newest : runs[m] = IF m \in applied THEN 1 ELSE 0

\* No migration is there without its predecessors.
AppliedInOrder == \A m \in applied : 1..m \subseteq applied

\* What a process went through on its way: the role check past "connect", and the
\* migrations that it was told to run past "apply".
StartedSafely ==
  \A p \in Processes :
    /\ proc[p].pc \in {"lock", "apply", "bind", "serving", "draining"} => RoleAccepted(p)
    /\ proc[p].pc \in {"bind", "serving", "draining"} =>
         ~Config[p].only /\ (Config[p].run => Known(p) \subseteq applied)

\* The inductive invariant.
IInv ==
  /\ TypeOK
  /\ OneMigrator /\ PlanCurrent
  /\ CountedOnce /\ AppliedInOrder
  /\ StartedSafely

-----------------------------------------------------------------------------
(* What the steps share. *)

\* The newest image knows every migration that a process knows.
LEMMA NewestKnowsAll ==
  Newest \in Nat /\ \A p \in Processes : Config[p].known \in Nat /\ Config[p].known <= Newest
<1>1. PICK p \in Processes : \A q \in Processes : Config[q].known <= Config[p].known
  OBVIOUS
<1>2. \A q \in Processes : Config[q].known \in Nat
  OBVIOUS
<1>3. \E n \in { Config[q].known : q \in Processes } :
        \A q \in Processes : Config[q].known <= n
  BY <1>1
<1>4. /\ Newest \in { Config[q].known : q \in Processes }
      /\ \A q \in Processes : Config[q].known <= Newest
  BY <1>3 DEF Newest
<1> QED
  BY <1>2, <1>4

\* What a process misses is to be found among the migrations.
LEMMA MissingTyped ==
  ASSUME NEW p \in Processes
  PROVE  Missing(p) \subseteq 1..Newest /\ Known(p) \subseteq 1..Newest
BY NewestKnowsAll DEF Missing, Known

\* No process but p changes.
OnlyProc(p) ==
  /\ proc' \in [Processes -> Process]
  /\ \A q \in Processes \ {p} : proc'[q] = proc[q]

\* A process that goes on forgets its plan.
LEMMA GotoTyped ==
  ASSUME TypeOK, NEW p \in Processes,
         NEW pc \in {"connect", "lock", "bind", "serving", "draining", "exited", "failed"},
         Goto(p, pc)
  PROVE  OnlyProc(p) /\ proc'[p].pc = pc
<1>1. [pc |-> pc, plan |-> {}] \in Process
  BY DEF Process
<1> QED
  BY <1>1 DEF TypeOK, Goto, OnlyProc

\* A step of p that leaves the database and the requests alone, and is not one of the
\* migrator's, keeps the invariant, if p may be where it goes.
LEMMA GotoStep ==
  ASSUME IInv, NEW p \in Processes, OnlyProc(p), UNCHANGED <<applied, runs, request>>,
         lock' = IF lock = p THEN None ELSE lock,
         faults' \in 0..MaxFaults,
         proc'[p].pc # "apply",
         proc'[p].pc \in {"lock", "bind", "serving", "draining"} => RoleAccepted(p),
         proc'[p].pc \in {"bind", "serving", "draining"} =>
           ~Config[p].only /\ (Config[p].run => Known(p) \subseteq applied)
  PROVE  IInv'
<1> TypeOK
  BY DEF IInv
<1>1. TypeOK'
  BY DEF TypeOK, OnlyProc
<1>2. OneMigrator'
  BY DEF IInv, OneMigrator, OnlyProc
<1>3. PlanCurrent'
  BY DEF IInv, PlanCurrent, OnlyProc, Missing
<1>4. CountedOnce' /\ AppliedInOrder'
  BY DEF IInv, CountedOnce, AppliedInOrder
<1>5. StartedSafely'
  BY DEF IInv, StartedSafely, OnlyProc, RoleAccepted
<1> QED
  BY <1>1, <1>2, <1>3, <1>4, <1>5 DEF IInv

\* Only the process that migrates holds the lock.
LEMMA NoLockElsewhere ==
  ASSUME IInv, NEW p \in Processes, proc[p].pc # "apply"
  PROVE  lock # p
BY DEF IInv, OneMigrator

-----------------------------------------------------------------------------
\* The initial state satisfies the invariant.
LEMMA InitIInv == Init => IInv
<1> SUFFICES ASSUME Init PROVE IInv
  OBVIOUS
<1>1. \A p \in Processes : proc[p] = [pc |-> "connect", plan |-> {}]
  BY DEF Init
<1>2. TypeOK
  <2>1. proc \in [Processes -> Process]
    BY DEF Init, Process
  <2>2. runs \in [1..Newest -> Nat]
    BY DEF Init
  <2>3. request \in [Requests -> [at : Processes \cup {None},
                                  state : {"new", "accepted", "answered", "lost"}]]
    BY DEF Init
  <2> QED
    BY <2>1, <2>2, <2>3 DEF Init, TypeOK
<1>3. OneMigrator /\ PlanCurrent /\ StartedSafely
  BY <1>1 DEF Init, OneMigrator, PlanCurrent, StartedSafely
<1>4. CountedOnce /\ AppliedInOrder
  BY DEF Init, CountedOnce, AppliedInOrder
<1> QED
  BY <1>2, <1>3, <1>4 DEF IInv

\* Db::connect keeps the invariant.
LEMMA ConnectStep == ASSUME IInv, NEW p \in Processes, Connect(p) PROVE IInv'
<1> TypeOK
  BY DEF IInv
<1>1. /\ proc[p].pc = "connect" /\ UNCHANGED <<applied, runs, lock, request, faults>>
      /\ \/ Goto(p, "failed")
         \/ RoleAccepted(p) /\ Goto(p, "lock")
         \/ RoleAccepted(p) /\ ~Migrates(p) /\ Goto(p, "bind")
  BY DEF Connect
<1>2. lock # p
  BY <1>1, NoLockElsewhere
<1>3. /\ OnlyProc(p) /\ proc'[p].pc \in {"failed", "lock", "bind"}
      /\ proc'[p].pc # "failed" => RoleAccepted(p)
      /\ proc'[p].pc = "bind" => ~Migrates(p)
  BY <1>1, GotoTyped
<1> QED
  BY <1>1, <1>2, <1>3, GotoStep DEF Migrates, TypeOK

\* The migrator's lock: the plan is made under it, of what is missing then.
LEMMA TakeLockStep == ASSUME IInv, NEW p \in Processes, TakeLock(p) PROVE IInv'
<1> TypeOK
  BY DEF IInv
<1>1. proc[p].pc = "lock" /\ lock = None /\ UNCHANGED <<applied, runs, request, faults>>
  BY DEF TakeLock
<1>2. RoleAccepted(p)
  BY <1>1 DEF IInv, StartedSafely
<1>3. CASE Goto(p, "failed") /\ UNCHANGED lock
  <2>1. OnlyProc(p) /\ proc'[p].pc = "failed"
    BY <1>3, GotoTyped
  <2> QED
    BY <1>1, <1>2, <1>3, <2>1, GotoStep DEF TypeOK
<1>4. CASE /\ applied \subseteq Known(p)
           /\ lock' = p
           /\ proc' = [proc EXCEPT ![p] = [pc |-> "apply", plan |-> Missing(p)]]
  <2>1. OnlyProc(p) /\ proc'[p] = [pc |-> "apply", plan |-> Missing(p)]
    <3>1. [pc |-> "apply", plan |-> Missing(p)] \in Process
      BY MissingTyped DEF Process
    <3> QED
      BY <1>4, <3>1 DEF TypeOK, OnlyProc
  <2>2. TypeOK'
    BY <1>1, <1>4, <2>1 DEF TypeOK, OnlyProc
  <2>3. OneMigrator'
    BY <1>1, <1>4, <2>1 DEF IInv, OneMigrator, OnlyProc
  <2>4. PlanCurrent'
    BY <1>1, <1>4, <2>1 DEF IInv, OneMigrator, PlanCurrent, OnlyProc, Missing
  <2>5. CountedOnce' /\ AppliedInOrder'
    BY <1>1 DEF IInv, CountedOnce, AppliedInOrder
  <2>6. StartedSafely'
    BY <1>1, <1>2, <2>1 DEF IInv, StartedSafely, OnlyProc, RoleAccepted
  <2> QED
    BY <2>2, <2>3, <2>4, <2>5, <2>6 DEF IInv
<1> QED
  BY <1>3, <1>4 DEF TakeLock, Known

\* One migration: the least that is missing, so that all its predecessors are there,
\* and one that no other process can have applied meanwhile.
LEMMA ApplyStep == ASSUME IInv, NEW p \in Processes, Apply(p) PROVE IInv'
<1> TypeOK
  BY DEF IInv
<1>1. PICK m \in proc[p].plan :
        /\ \A n \in proc[p].plan : m <= n
        /\ applied' = applied \cup {m}
        /\ runs' = [runs EXCEPT ![m] = @ + 1]
        /\ proc' = [proc EXCEPT ![p].plan = @ \ {m}]
  BY DEF Apply
<1>2. proc[p].pc = "apply" /\ UNCHANGED <<lock, request, faults>>
  BY DEF Apply
<1>3. proc[p].plan = Missing(p) /\ applied \subseteq Known(p) /\ lock = p
  BY <1>2 DEF IInv, PlanCurrent, OneMigrator
<1>4. m \in Known(p) /\ m \notin applied /\ m \in 1..Newest /\ m \in Nat
  BY <1>1, <1>3, MissingTyped DEF Missing, Known
<1>5. OnlyProc(p) /\ proc'[p] = [pc |-> "apply", plan |-> Missing(p) \ {m}]
  <2>1. proc[p] \in Process
    BY DEF TypeOK
  <2>2. [proc[p] EXCEPT !.plan = proc[p].plan \ {m}] \in Process
    BY <2>1 DEF Process
  <2> QED
    BY <1>1, <1>2, <1>3, <2>1, <2>2 DEF TypeOK, OnlyProc, Process
<1>6. TypeOK'
  BY <1>1, <1>2, <1>4, <1>5 DEF TypeOK, OnlyProc
<1>7. OneMigrator'
  BY <1>2, <1>5 DEF IInv, OneMigrator, OnlyProc
<1>8. PlanCurrent'
  <2> SUFFICES ASSUME NEW q \in Processes, proc'[q].pc = "apply"
               PROVE  proc'[q].plan = Missing(q)' /\ applied' \subseteq Known(q)
    BY DEF PlanCurrent, Known
  <2>1. q = p
    BY <1>2, <1>3, <1>7 DEF OneMigrator
  <2> QED
    BY <1>1, <1>3, <1>4, <1>5, <2>1 DEF Missing, Known
<1>9. CountedOnce'
  BY <1>1, <1>4 DEF IInv, CountedOnce, TypeOK
<1>10. AppliedInOrder'
  <2> SUFFICES ASSUME NEW n \in applied', NEW i \in 1..n PROVE i \in applied'
    BY DEF AppliedInOrder
  <2>1. CASE n \in applied
    BY <1>1, <2>1 DEF IInv, AppliedInOrder
  <2>2. CASE n = m
    <3>1. i = m \/ (i \in Nat /\ i < m)
      BY <1>4, <2>2
    <3>2. i < m => i \notin Missing(p) /\ i \in Known(p)
      BY <1>1, <1>3, <1>4, <2>2, <3>1, NewestKnowsAll DEF Known, Missing
    <3> QED
      BY <1>1, <3>1, <3>2 DEF Missing, Known
  <2> QED
    BY <1>1, <2>1, <2>2
<1>11. StartedSafely'
  <2>1. \A q \in Processes : proc'[q].pc = proc[q].pc
    BY <1>2, <1>5 DEF OnlyProc
  <2>2. applied \subseteq applied'
    BY <1>1
  <2> QED
    BY <2>1, <2>2 DEF IInv, StartedSafely, RoleAccepted, Known
<1> QED
  BY <1>6, <1>7, <1>8, <1>9, <1>10, <1>11 DEF IInv

\* The end of the migration: nothing is missing any more.
LEMMA MigratedStep == ASSUME IInv, NEW p \in Processes, Migrated(p) PROVE IInv'
<1> TypeOK
  BY DEF IInv
<1>1. /\ proc[p].pc = "apply" /\ proc[p].plan = {} /\ Unlock(p)
      /\ UNCHANGED <<applied, runs, request, faults>>
      /\ \/ Goto(p, "exited")
         \/ ~Config[p].only /\ Goto(p, "bind")
  BY DEF Migrated
<1>2. Known(p) \subseteq applied /\ RoleAccepted(p)
  BY <1>1 DEF IInv, PlanCurrent, Missing, Known, StartedSafely
<1>3. /\ OnlyProc(p) /\ proc'[p].pc \in {"exited", "bind"}
      /\ proc'[p].pc = "bind" => ~Config[p].only
  BY <1>1, GotoTyped
<1> QED
  BY <1>1, <1>2, <1>3, GotoStep DEF Unlock, TypeOK

\* service_kit::run: bind, the signal, and the end of the last connection.
LEMMA ServeStep ==
  ASSUME IInv, NEW p \in Processes, Bind(p) \/ Sigterm(p) \/ Exit(p) PROVE IInv'
<1> TypeOK
  BY DEF IInv
<1>1. /\ proc[p].pc \in {"bind", "serving", "draining"}
      /\ UNCHANGED <<applied, runs, lock, request, faults>>
      /\ \/ Goto(p, "serving")
         \/ Goto(p, "draining")
         \/ Goto(p, "exited")
  BY DEF Bind, Sigterm, Exit
<1>2. /\ RoleAccepted(p) /\ ~Config[p].only
      /\ Config[p].run => Known(p) \subseteq applied
  BY <1>1 DEF IInv, StartedSafely
<1>3. OnlyProc(p) /\ proc'[p].pc \in {"serving", "draining", "exited"}
  BY <1>1, GotoTyped
<1>4. lock # p
  BY <1>1, NoLockElsewhere
<1> QED
  BY <1>1, <1>2, <1>3, <1>4, GotoStep DEF TypeOK

\* A process that serves accepts a request, or a handler replies.
LEMMA RequestStep ==
  ASSUME IInv, NEW r \in Requests, Answer(r) \/ \E p \in Processes : Accept(p, r)
  PROVE  IInv'
<1> TypeOK
  BY DEF IInv
<1>1. UNCHANGED <<applied, runs, lock, proc, faults>>
  BY DEF Answer, Accept
<1>2. request' \in [Requests -> [at : Processes \cup {None},
                                 state : {"new", "accepted", "answered", "lost"}]]
  <2>1. CASE Answer(r)
    BY <2>1 DEF Answer, TypeOK
  <2>2. CASE \E p \in Processes : Accept(p, r)
    BY <2>2 DEF Accept, TypeOK
  <2> QED
    BY <2>1, <2>2
<1>3. TypeOK'
  BY <1>1, <1>2 DEF TypeOK
<1>4. OneMigrator' /\ PlanCurrent' /\ CountedOnce' /\ AppliedInOrder' /\ StartedSafely'
  BY <1>1 DEF IInv, OneMigrator, PlanCurrent, CountedOnce, AppliedInOrder, StartedSafely,
              Missing, RoleAccepted
<1> QED
  BY <1>3, <1>4 DEF IInv

\* A crash ends the process's connections, and with them its lock and its requests.
LEMMA CrashStep == ASSUME IInv, NEW p \in Processes, Crash(p) PROVE IInv'
<1> TypeOK
  BY DEF IInv
<1>1. /\ OnlyProc(p) /\ proc'[p].pc = "failed" /\ UNCHANGED <<applied, runs>>
      /\ lock' = IF lock = p THEN None ELSE lock
  BY GotoTyped DEF Crash, Unlock
<1>2. request' \in [Requests -> [at : Processes \cup {None},
                                 state : {"new", "accepted", "answered", "lost"}]]
  BY DEF Crash, TypeOK, Accepted
<1>3. TypeOK'
  <2>1. faults' \in 0..MaxFaults
    BY DEF Crash, Fault, TypeOK
  <2> QED
    BY <1>1, <1>2, <2>1 DEF TypeOK, OnlyProc
<1>4. OneMigrator' /\ PlanCurrent'
  BY <1>1 DEF IInv, OneMigrator, PlanCurrent, OnlyProc, Missing
<1>5. CountedOnce' /\ AppliedInOrder' /\ StartedSafely'
  BY <1>1 DEF IInv, CountedOnce, AppliedInOrder, StartedSafely, OnlyProc, RoleAccepted
<1> QED
  BY <1>3, <1>4, <1>5 DEF IInv

\* Every step keeps the invariant.
LEMMA NextIInv == IInv /\ [Next]_vars => IInv'
<1> SUFFICES ASSUME IInv, [Next]_vars PROVE IInv'
  OBVIOUS
<1>1. ASSUME NEW p \in Processes, Restart(p) PROVE IInv'
  <2>1. /\ proc[p].pc = "failed" /\ Goto(p, "connect")
        /\ UNCHANGED <<applied, runs, lock, request, faults>>
    BY <1>1 DEF Restart
  <2>2. OnlyProc(p) /\ proc'[p].pc = "connect"
    BY <2>1, GotoTyped DEF IInv
  <2>3. lock # p
    BY <2>1, NoLockElsewhere
  <2> QED
    BY <2>1, <2>2, <2>3, GotoStep DEF IInv, TypeOK
<1>2. CASE UNCHANGED vars
  <2>1. TypeOK'
    BY <1>2 DEF IInv, TypeOK, vars
  <2>2. OneMigrator' /\ PlanCurrent' /\ CountedOnce' /\ AppliedInOrder'
    BY <1>2 DEF IInv, OneMigrator, PlanCurrent, CountedOnce, AppliedInOrder, Missing, vars
  <2>3. StartedSafely'
    BY <1>2 DEF IInv, StartedSafely, RoleAccepted, vars
  <2> QED
    BY <2>1, <2>2, <2>3 DEF IInv
<1> QED
  BY <1>1, <1>2, ConnectStep, TakeLockStep, ApplyStep, MigratedStep, ServeStep, RequestStep,
     CrashStep DEF Next

\* In every behaviour, every state satisfies the invariant.
THEOREM InductiveInvariant == Spec => []IInv
BY InitIInv, NextIInv, PTL DEF Spec

\* Each migration is committed once and in order, whichever processes migrate at the same
\* time and wherever they crash.
THEOREM MigrationsRunOnce == Spec => []MigratedOnce
<1>1. IInv => MigratedOnce
  BY DEF IInv, MigratedOnce, CountedOnce, AppliedInOrder
<1> QED
  BY <1>1, InductiveInvariant, PTL

\* A process serves only behind row-level security, or by the operator's leave, and after
\* the migrations that it was told to run.
THEOREM ServingIsSafe == Spec => []ServesSafely
<1>1. IInv => ServesSafely
  BY DEF IInv, ServesSafely, StartedSafely, Serves, RoleAccepted, Known
<1> QED
  BY <1>1, InductiveInvariant, PTL
=============================================================================
