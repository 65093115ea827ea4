-------------------------- MODULE QuarantineProofs --------------------------
(* What Quarantine guarantees for every set of requests and messages. *)
EXTENDS Quarantine, TLAPS

USE QuarantineAssumption

\* A row lock is held by a handler that is about to commit and works on that row, so
\* none outlives its transaction.
LocksHeld ==
  \A m \in Messages, h \in Requests :
    lock[m] = h => request[h].pc = "commit" /\ Message(h) = m

\* A decision's row appears with its commit: a handler inserts at most one.
DecidedOnce == \A r \in DOMAIN decisions : request[r].pc = "done"

\* The inductive invariant.
IInv ==
  /\ TypeOK
  /\ ReleasedOnce
  /\ AuditMatchesRows
  /\ LockedRowsCurrent
  /\ LocksHeld
  /\ DecidedOnce

-----------------------------------------------------------------------------
(* What the statements that the handlers share do. *)

\* What a request carries fits its operation.
LEMMA OperationTyped ==
  ASSUME TypeOK, NEW r \in Requests
  PROVE  /\ Op(r) \in {"decide", "release", "report"}
         /\ Message(r) \in Messages
         /\ Op(r) = "decide" => Arg(r) \in {"accept", "quarantine"}
         /\ Op(r) = "report" => Arg(r) \in Feedback
<1>1. request[r].operation \in Operation
  BY DEF TypeOK, Handler
<1> QED
  BY <1>1 DEF Operation, Op, Message, Arg

\* No handler but r changes, and r keeps what it was asked to do.
OnlyHandler(r) ==
  /\ request' \in [Requests -> Handler]
  /\ \A q \in Requests \ {r} : request'[q] = request[q]
  /\ request'[r].operation = request[r].operation

\* The operations of all handlers stay as they are.
LEMMA SameOperations ==
  ASSUME NEW r \in Requests, OnlyHandler(r), NEW q \in Requests
  PROVE  Op(q)' = Op(q) /\ Message(q)' = Message(q) /\ Arg(q)' = Arg(q)
BY DEF OnlyHandler, Op, Message, Arg

\* A handler that has run its statements waits for its commit.
LEMMA GotoCommit ==
  ASSUME TypeOK, NEW r \in Requests, request' = [request EXCEPT ![r].pc = "commit"]
  PROVE  OnlyHandler(r) /\ request'[r].pc = "commit" /\ request'[r].reply = request[r].reply
<1>1. request[r] \in Handler
  BY DEF TypeOK
<1>2. [request[r] EXCEPT !.pc = "commit"] \in Handler
  BY <1>1 DEF Handler
<1> QED
  BY <1>1, <1>2 DEF TypeOK, OnlyHandler, Handler

\* A reply ends its handler.
LEMMA ReplyTyped ==
  ASSUME TypeOK, NEW r \in Requests, NEW reply \in {"ok", "NotFound", "Internal"},
         Reply(r, reply)
  PROVE  OnlyHandler(r) /\ request'[r].pc = "done" /\ request'[r].reply = reply
<1>1. request[r] \in Handler
  BY DEF TypeOK
<1>2. [request[r] EXCEPT !.pc = "done", !.reply = reply] \in Handler
  BY <1>1 DEF Handler
<1> QED
  BY <1>1, <1>2 DEF TypeOK, OnlyHandler, Handler, Reply

-----------------------------------------------------------------------------
(* Init, and the steps that leave the tables alone. *)

\* The initial state satisfies the invariant.
LEMMA InitIInv == Init => IInv
<1> SUFFICES ASSUME Init PROVE IInv
  OBVIOUS
<1>1. ASSUME NEW r \in Requests
      PROVE  request[r] \in Handler /\ request[r].pc = "idle" /\ request[r].reply = "none"
  BY DEF Init, Handler
<1>2. DOMAIN decisions = {} /\ DOMAIN items = {}
  BY DEF Init
<1>3. TypeOK
  <2>1. request \in [Requests -> Handler]
    BY <1>1 DEF Init
  <2> QED
    BY <1>2, <2>1 DEF Init, TypeOK, Feedback
<1>4. ReleasedOnce
  BY <1>1, <1>2 DEF Init, ReleasedOnce
<1>5. AuditMatchesRows
  BY <1>2 DEF Init, AuditMatchesRows
<1>6. LockedRowsCurrent /\ LocksHeld /\ DecidedOnce
  BY <1>1, <1>2 DEF Init, LockedRowsCurrent, LocksHeld, DecidedOnce
<1> QED
  BY <1>3, <1>4, <1>5, <1>6 DEF IInv

\* A step that leaves the tables alone, and lets no handler reply that it released an
\* item, keeps what the tables say.
LEMMA TablesKept ==
  ASSUME IInv, UNCHANGED tables, NEW r \in Requests, OnlyHandler(r),
         lock' \in [Messages -> Requests \cup {None}], faults' \in 0..MaxFaults,
         request'[r].reply = "ok" => request[r].reply = "ok"
  PROVE  TypeOK' /\ ReleasedOnce' /\ AuditMatchesRows'
<1>1. TypeOK'
  BY DEF IInv, TypeOK, tables, OnlyHandler
<1>2. AuditMatchesRows'
  BY DEF IInv, AuditMatchesRows, tables
<1>3. ReleasedOnce'
  <2>1. ASSUME NEW q \in Requests, request'[q].reply = "ok", Op(q)' = "release"
        PROVE  q \in releases'[Message(q)']
    <3>1. request[q].reply = "ok" /\ Op(q) = "release" /\ Message(q)' = Message(q)
      BY <2>1, SameOperations DEF OnlyHandler
    <3> QED
      BY <3>1 DEF IInv, ReleasedOnce, tables
  <2>2. \A m \in Messages :
          IF m \in DOMAIN items' /\ items'[m].status = "released"
          THEN releases'[m] = {items'[m].resolved_by}
          ELSE releases'[m] = {}
    BY DEF IInv, ReleasedOnce, tables
  <2> QED
    BY <2>1, <2>2 DEF ReleasedOnce
<1> QED
  BY <1>1, <1>2, <1>3

\* A handler that takes the lock of a row finds it as the last commit left it.
LEMMA LockStep ==
  ASSUME IInv, NEW r \in Requests, request[r].pc = "idle", Lock(r),
         UNCHANGED <<tables, faults>>,
         Op(r) = "release" => Releasable(Message(r)),
         Op(r) = "report" => Message(r) \in DOMAIN items
  PROVE  IInv'
<1> TypeOK
  BY DEF IInv
<1>1. /\ OnlyHandler(r) /\ request'[r].pc = "commit"
      /\ request'[r].reply = request[r].reply
  BY GotoCommit DEF Lock
<1>2. /\ Message(r) \in Messages /\ lock[Message(r)] = None
      /\ lock' = [lock EXCEPT ![Message(r)] = r]
      /\ lock' \in [Messages -> Requests \cup {None}]
  BY OperationTyped DEF Lock, TypeOK
<1>3. TypeOK' /\ ReleasedOnce' /\ AuditMatchesRows'
  BY <1>1, <1>2, TablesKept DEF TypeOK, tables
<1>4. LockedRowsCurrent'
  <2> SUFFICES ASSUME NEW q \in Requests, request'[q].pc = "commit"
               PROVE  /\ Op(q) \in {"release", "report"} =>
                           lock'[Message(q)] = q /\ Message(q) \in DOMAIN items
                      /\ Op(q) = "release" => items[Message(q)].status = "held"
    BY <1>1, SameOperations DEF LockedRowsCurrent, tables
  <2>1. CASE q = r
    BY <1>2, <2>1, OperationTyped DEF Releasable, TypeOK
  <2>2. CASE q # r
    <3>1. request[q].pc = "commit"
      BY <1>1, <2>2 DEF OnlyHandler
    <3>2. /\ Op(q) \in {"release", "report"} =>
               lock[Message(q)] = q /\ Message(q) \in DOMAIN items
          /\ Op(q) = "release" => items[Message(q)].status = "held"
      BY <3>1 DEF IInv, LockedRowsCurrent
    <3>3. lock[Message(q)] = q => Message(q) # Message(r)
      BY <1>2
    <3> QED
      BY <1>2, <3>2, <3>3 DEF TypeOK
  <2> QED
    BY <2>1, <2>2
<1>5. LocksHeld'
  <2> SUFFICES ASSUME NEW m \in Messages, NEW h \in Requests, lock'[m] = h
               PROVE  request'[h].pc = "commit" /\ Message(h) = m
    BY <1>1, SameOperations DEF LocksHeld
  <2>1. m = Message(r) => h = r
    BY <1>2 DEF TypeOK
  <2>2. m # Message(r) => lock[m] = h /\ request[h].pc = "commit" /\ Message(h) = m
    BY <1>2 DEF IInv, LocksHeld, TypeOK
  <2> QED
    BY <1>1, <2>1, <2>2 DEF OnlyHandler
<1>6. DecidedOnce'
  BY <1>1 DEF IInv, DecidedOnce, tables, TypeOK, OnlyHandler
<1> QED
  BY <1>3, <1>4, <1>5, <1>6 DEF IInv

\* A decision that has no item to write goes on to its commit without a lock.
LEMMA NoLockStep ==
  ASSUME IInv, NEW r \in Requests, request[r].pc = "idle", Op(r) = "decide",
         request' = [request EXCEPT ![r].pc = "commit"],
         UNCHANGED <<tables, faults, lock>>
  PROVE  IInv'
<1> TypeOK
  BY DEF IInv
<1>1. /\ OnlyHandler(r) /\ request'[r].pc = "commit"
      /\ request'[r].reply = request[r].reply
  BY GotoCommit
<1>2. TypeOK' /\ ReleasedOnce' /\ AuditMatchesRows'
  BY <1>1, TablesKept DEF TypeOK, tables
<1>3. LockedRowsCurrent'
  BY <1>1, SameOperations DEF IInv, LockedRowsCurrent, tables, OnlyHandler
<1>4. LocksHeld'
  BY <1>1, SameOperations DEF IInv, LocksHeld, OnlyHandler
<1>5. DecidedOnce'
  BY <1>1 DEF IInv, DecidedOnce, tables, TypeOK, OnlyHandler
<1> QED
  BY <1>2, <1>3, <1>4, <1>5 DEF IInv

\* A 404 ends a handler that holds no lock.
LEMMA NotFoundStep ==
  ASSUME IInv, NEW r \in Requests, request[r].pc = "idle", Reply(r, "NotFound"),
         UNCHANGED <<tables, faults, lock>>
  PROVE  IInv'
<1> TypeOK
  BY DEF IInv
<1>1. OnlyHandler(r) /\ request'[r].pc = "done" /\ request'[r].reply = "NotFound"
  BY ReplyTyped
<1>2. TypeOK' /\ ReleasedOnce' /\ AuditMatchesRows'
  BY <1>1, TablesKept DEF TypeOK, tables
<1>3. LockedRowsCurrent'
  BY <1>1, SameOperations DEF IInv, LockedRowsCurrent, tables, OnlyHandler
<1>4. LocksHeld'
  BY <1>1, SameOperations DEF IInv, LocksHeld, OnlyHandler
<1>5. DecidedOnce'
  BY <1>1 DEF IInv, DecidedOnce, tables, TypeOK, OnlyHandler
<1> QED
  BY <1>2, <1>3, <1>4, <1>5 DEF IInv

-----------------------------------------------------------------------------
(* The commits, acknowledged or not, and the rollbacks. *)

\* The end of r's transaction gives its lock back, and changes no row that another
\* handler has locked.
Ends(r) ==
  /\ request[r].pc = "commit"
  /\ OnlyHandler(r)
  /\ request'[r].pc = "done" /\ request'[r].reply \in {"ok", "Internal"}
  /\ Unlock(r)
  /\ faults' \in 0..MaxFaults

\* What the other handlers were told under their locks still holds.
LEMMA OthersKept ==
  ASSUME IInv, NEW r \in Requests, Ends(r),
         \A m \in DOMAIN items : m \in DOMAIN items' /\ (items'[m] = items[m] \/ lock[m] = r),
         DOMAIN decisions' \subseteq DOMAIN decisions \cup {r}
  PROVE  /\ LockedRowsCurrent' /\ LocksHeld' /\ DecidedOnce'
         /\ lock' \in [Messages -> Requests \cup {None}]
<1> TypeOK /\ OnlyHandler(r)
  BY DEF IInv, Ends
<1>1. lock' = [m \in Messages |-> IF lock[m] = r THEN None ELSE lock[m]]
  BY DEF Ends, Unlock
<1>2. lock' \in [Messages -> Requests \cup {None}]
  BY <1>1 DEF TypeOK
<1>3. LockedRowsCurrent'
  <2> SUFFICES ASSUME NEW q \in Requests, request'[q].pc = "commit",
                      Op(q) \in {"release", "report"}
               PROVE  /\ lock'[Message(q)] = q /\ Message(q) \in DOMAIN items'
                      /\ Op(q) = "release" => items'[Message(q)].status = "held"
    BY SameOperations DEF LockedRowsCurrent
  <2>1. q # r /\ request[q].pc = "commit"
    BY DEF Ends, OnlyHandler
  <2>2. /\ lock[Message(q)] = q /\ Message(q) \in DOMAIN items
        /\ Op(q) = "release" => items[Message(q)].status = "held"
    BY <2>1 DEF IInv, LockedRowsCurrent
  <2>3. Message(q) \in Messages
    BY OperationTyped
  <2> QED
    BY <1>1, <2>1, <2>2, <2>3
<1>4. LocksHeld'
  <2> SUFFICES ASSUME NEW m \in Messages, NEW h \in Requests, lock'[m] = h
               PROVE  request'[h].pc = "commit" /\ Message(h) = m
    BY SameOperations DEF LocksHeld
  <2>1. lock[m] = h /\ h # r
    BY <1>1
  <2> QED
    BY <2>1 DEF IInv, LocksHeld, OnlyHandler
<1>5. DecidedOnce'
  BY DEF IInv, DecidedOnce, TypeOK, OnlyHandler, Ends
<1> QED
  BY <1>2, <1>3, <1>4, <1>5

\* The lasting part of a release that was answered with 200.
LEMMA ReleasesGrow ==
  ASSUME IInv, NEW r \in Requests, Ends(r),
         \A m \in Messages : releases[m] \subseteq releases'[m],
         Op(r) = "release" => r \in releases'[Message(r)]
  PROVE  \A q \in Requests :
           request'[q].reply = "ok" /\ Op(q)' = "release" => q \in releases'[Message(q)']
<1> SUFFICES ASSUME NEW q \in Requests, request'[q].reply = "ok", Op(q) = "release"
             PROVE  q \in releases'[Message(q)]
  BY SameOperations DEF Ends
<1>1. Message(q) \in Messages
  BY OperationTyped DEF IInv
<1>2. q # r => request[q].reply = "ok"
  BY DEF Ends, OnlyHandler
<1>3. q # r => q \in releases[Message(q)]
  BY <1>2 DEF IInv, ReleasedOnce
<1> QED
  BY <1>1, <1>3

\* A decision's commit adds its row, its audit row and, if it holds a message that has
\* no item, the item.
LEMMA DecisionStep ==
  ASSUME IInv, NEW r \in Requests, Ends(r), Op(r) = "decide", CommitDecision(r)
  PROVE  IInv'
<1> DEFINE m == Message(r)
<1> TypeOK
  BY DEF IInv
<1>1. m \in Messages /\ Arg(r) \in {"accept", "quarantine"}
  BY OperationTyped
<1> DEFINE row == [decision |-> r, status |-> "held", reported_as |-> None, resolved_by |-> None]
<1>2. \/ UNCHANGED items
      \/ /\ Arg(r) = "quarantine" /\ m \notin DOMAIN items
         /\ items' = [n \in DOMAIN items \cup {m} |-> IF n = m THEN row ELSE items[n]]
  <2>1. CASE Arg(r) = "quarantine" /\ m \in DOMAIN items
    <3>1. items' = [n \in DOMAIN items |-> items[n]]
      BY <2>1 DEF CommitDecision, Hold
    <3> QED
      BY <3>1 DEF TypeOK
  <2>2. CASE Arg(r) = "quarantine" /\ m \notin DOMAIN items
    BY <2>2 DEF CommitDecision, Hold
  <2> QED
    BY <2>1, <2>2 DEF CommitDecision
<1>3. /\ \A n \in DOMAIN items : n \in DOMAIN items' /\ items'[n] = items[n]
      /\ \A n \in DOMAIN items' : n \notin DOMAIN items =>
           n = m /\ Arg(r) = "quarantine" /\ items'[n] = row
      /\ DOMAIN items' \subseteq Messages
      /\ items' \in [DOMAIN items' -> Item]
  <2>1. row \in Item
    BY DEF Item
  <2> QED
    BY <1>1, <1>2, <2>1 DEF TypeOK
<1>4. r \notin DOMAIN decisions
  BY DEF IInv, DecidedOnce, Ends
<1>5. /\ DOMAIN decisions' = DOMAIN decisions \cup {r}
      /\ decisions'[r] = [message |-> m, action |-> Arg(r)]
      /\ \A d \in DOMAIN decisions : decisions'[d] = decisions[d]
      /\ recorded' = recorded \cup {r} /\ UNCHANGED <<releases, reports>>
  BY <1>4 DEF CommitDecision
<1>6. decisions' \in [DOMAIN decisions' -> Decision] /\ wanted' \in [Messages -> BOOLEAN]
  <2>1. [message |-> m, action |-> Arg(r)] \in Decision
    BY <1>1 DEF Decision, Actions
  <2>2. decisions' \in [DOMAIN decisions' -> Decision]
    BY <1>5, <2>1 DEF CommitDecision, TypeOK
  <2>3. wanted' \in [Messages -> BOOLEAN]
    BY <1>1 DEF CommitDecision, TypeOK
  <2> QED
    BY <2>2, <2>3
<1> HIDE DEF m, row
<1>7. /\ LockedRowsCurrent' /\ LocksHeld' /\ DecidedOnce'
      /\ lock' \in [Messages -> Requests \cup {None}]
  BY <1>3, <1>5, OthersKept
<1>8. TypeOK'
  BY <1>3, <1>5, <1>6, <1>7 DEF TypeOK, Ends, OnlyHandler
<1>9. ReleasedOnce'
  <2>1. ASSUME NEW n \in Messages
        PROVE  IF n \in DOMAIN items' /\ items'[n].status = "released"
               THEN releases'[n] = {items'[n].resolved_by}
               ELSE releases'[n] = {}
    <3>1. CASE n \in DOMAIN items
      BY <1>3, <1>5, <3>1 DEF IInv, ReleasedOnce
    <3>2. CASE n \notin DOMAIN items
      BY <1>3, <1>5, <3>2 DEF IInv, ReleasedOnce, row
    <3> QED
      BY <3>1, <3>2
  <2>2. \A q \in Requests :
          request'[q].reply = "ok" /\ Op(q)' = "release" => q \in releases'[Message(q)']
    BY <1>5, ReleasesGrow
  <2> QED
    BY <2>1, <2>2 DEF ReleasedOnce
<1>10. AuditMatchesRows'
  <2>1. ASSUME NEW n \in Messages
        PROVE  reports'[n] = IF n \in DOMAIN items' THEN items'[n].reported_as ELSE None
    BY <1>3, <1>5 DEF IInv, AuditMatchesRows, row
  <2>2. recorded' = DOMAIN decisions'
    BY <1>5 DEF IInv, AuditMatchesRows
  <2>3. ASSUME NEW n \in DOMAIN items'
        PROVE  /\ items'[n].decision \in DOMAIN decisions'
               /\ decisions'[items'[n].decision] = [message |-> n, action |-> "quarantine"]
    <3>1. CASE n \in DOMAIN items
      BY <1>3, <1>5, <3>1 DEF IInv, AuditMatchesRows
    <3>2. CASE n \notin DOMAIN items
      BY <1>3, <1>5, <2>3, <3>2 DEF row
    <3> QED
      BY <3>1, <3>2
  <2> QED
    BY <2>1, <2>2, <2>3 DEF AuditMatchesRows
<1> QED
  BY <1>7, <1>8, <1>9, <1>10 DEF IInv

\* An update of the item that r has locked, and of it only.
LEMMA UpdateTyped ==
  ASSUME IInv, NEW r \in Requests, Ends(r), Op(r) \in {"release", "report"},
         NEW row \in Item, items' = [items EXCEPT ![Message(r)] = row], UNCHANGED decisions
  PROVE  /\ Message(r) \in DOMAIN items /\ Message(r) \in Messages
         /\ DOMAIN items' = DOMAIN items /\ items' \in [DOMAIN items' -> Item]
         /\ items'[Message(r)] = row
         /\ \A n \in DOMAIN items \ {Message(r)} : items'[n] = items[n]
         /\ LockedRowsCurrent' /\ LocksHeld' /\ DecidedOnce'
         /\ lock' \in [Messages -> Requests \cup {None}]
<1>1. Message(r) \in DOMAIN items /\ Message(r) \in Messages /\ lock[Message(r)] = r
  BY OperationTyped DEF IInv, LockedRowsCurrent, Ends
<1>2. /\ DOMAIN items' = DOMAIN items /\ items' \in [DOMAIN items' -> Item]
      /\ items'[Message(r)] = row
      /\ \A n \in DOMAIN items \ {Message(r)} : items'[n] = items[n]
  BY <1>1 DEF IInv, TypeOK
<1>3. \A n \in DOMAIN items : n \in DOMAIN items' /\ (items'[n] = items[n] \/ lock[n] = r)
  BY <1>1, <1>2
<1> QED
  BY <1>1, <1>2, <1>3, OthersKept

\* A release's commit ends the hold and names the request in the row and in its audit.
LEMMA ReleaseStep ==
  ASSUME IInv, NEW r \in Requests, Ends(r), Op(r) = "release", CommitRelease(r)
  PROVE  IInv'
<1> DEFINE m == Message(r)
<1> DEFINE row == [items[m] EXCEPT !.status = "released", !.resolved_by = r]
<1> TypeOK
  BY DEF IInv
<1>1. m \in DOMAIN items /\ m \in Messages /\ items[m] \in Item /\ items[m].status = "held"
  BY OperationTyped DEF IInv, LockedRowsCurrent, Ends, TypeOK
<1>2. /\ row \in Item
      /\ row.status = "released" /\ row.resolved_by = r
      /\ row.reported_as = items[m].reported_as /\ row.decision = items[m].decision
  BY <1>1 DEF Item
<1>3. items' = [items EXCEPT ![m] = row] /\ UNCHANGED <<decisions, reports, recorded>>
  BY DEF CommitRelease
<1> HIDE DEF row
<1>4. /\ DOMAIN items' = DOMAIN items /\ items' \in [DOMAIN items' -> Item]
      /\ items'[m] = row
      /\ \A n \in DOMAIN items \ {m} : items'[n] = items[n]
      /\ LockedRowsCurrent' /\ LocksHeld' /\ DecidedOnce'
      /\ lock' \in [Messages -> Requests \cup {None}]
  BY <1>2, <1>3, UpdateTyped
<1>5. releases[m] = {}
  BY <1>1 DEF IInv, ReleasedOnce
<1>6. /\ releases' \in [Messages -> SUBSET Requests] /\ wanted' \in [Messages -> BOOLEAN]
      /\ releases'[m] = {r}
      /\ \A n \in Messages \ {m} : releases'[n] = releases[n]
  BY <1>1, <1>5 DEF CommitRelease, TypeOK
<1> HIDE DEF m
<1>7. TypeOK'
  BY <1>3, <1>4, <1>6 DEF TypeOK, Ends, OnlyHandler
<1>8. ReleasedOnce'
  <2>1. ASSUME NEW n \in Messages
        PROVE  IF n \in DOMAIN items' /\ items'[n].status = "released"
               THEN releases'[n] = {items'[n].resolved_by}
               ELSE releases'[n] = {}
    <3>1. CASE n = m
      BY <1>1, <1>2, <1>4, <1>6, <3>1
    <3>2. CASE n # m
      BY <1>4, <1>6, <3>2 DEF IInv, ReleasedOnce
    <3> QED
      BY <3>1, <3>2
  <2>2. \A q \in Requests :
          request'[q].reply = "ok" /\ Op(q)' = "release" => q \in releases'[Message(q)']
    BY <1>5, <1>6, ReleasesGrow DEF m
  <2> QED
    BY <2>1, <2>2 DEF ReleasedOnce
<1>9. AuditMatchesRows'
  <2>1. ASSUME NEW n \in Messages
        PROVE  reports'[n] = IF n \in DOMAIN items' THEN items'[n].reported_as ELSE None
    BY <1>2, <1>3, <1>4 DEF IInv, AuditMatchesRows
  <2>2. recorded' = DOMAIN decisions'
    BY <1>3 DEF IInv, AuditMatchesRows
  <2>3. ASSUME NEW n \in DOMAIN items'
        PROVE  /\ items'[n].decision \in DOMAIN decisions'
               /\ decisions'[items'[n].decision] = [message |-> n, action |-> "quarantine"]
    <3>1. n \in DOMAIN items /\ items'[n].decision = items[n].decision
      BY <1>2, <1>4
    <3> QED
      BY <1>3, <3>1 DEF IInv, AuditMatchesRows
  <2> QED
    BY <2>1, <2>2, <2>3 DEF AuditMatchesRows
<1> QED
  BY <1>4, <1>7, <1>8, <1>9 DEF IInv

\* A report's commit writes the verdict into the row and into its audit.
LEMMA ReportStep ==
  ASSUME IInv, NEW r \in Requests, Ends(r), Op(r) = "report", CommitReport(r)
  PROVE  IInv'
<1> DEFINE m == Message(r)
<1> DEFINE row == [items[m] EXCEPT !.reported_as = Arg(r)]
<1> TypeOK
  BY DEF IInv
<1>1. m \in DOMAIN items /\ m \in Messages /\ items[m] \in Item /\ Arg(r) \in Feedback
  BY OperationTyped DEF IInv, LockedRowsCurrent, Ends, TypeOK
<1>2. /\ row \in Item
      /\ row.status = items[m].status /\ row.resolved_by = items[m].resolved_by
      /\ row.reported_as = Arg(r) /\ row.decision = items[m].decision
  BY <1>1 DEF Item
<1>3. items' = [items EXCEPT ![m] = row] /\ UNCHANGED <<decisions, releases, recorded, wanted>>
  BY <1>1 DEF CommitReport, TypeOK
<1> HIDE DEF row
<1>4. /\ DOMAIN items' = DOMAIN items /\ items' \in [DOMAIN items' -> Item]
      /\ items'[m] = row
      /\ \A n \in DOMAIN items \ {m} : items'[n] = items[n]
      /\ LockedRowsCurrent' /\ LocksHeld' /\ DecidedOnce'
      /\ lock' \in [Messages -> Requests \cup {None}]
  BY <1>2, <1>3, UpdateTyped
<1>5. /\ reports' \in [Messages -> Feedback \cup {None}]
      /\ reports'[m] = Arg(r)
      /\ \A n \in Messages \ {m} : reports'[n] = reports[n]
  BY <1>1 DEF CommitReport, TypeOK
<1> HIDE DEF m
<1>6. TypeOK'
  BY <1>3, <1>4, <1>5 DEF TypeOK, Ends, OnlyHandler
<1>7. ReleasedOnce'
  <2>1. ASSUME NEW n \in Messages
        PROVE  IF n \in DOMAIN items' /\ items'[n].status = "released"
               THEN releases'[n] = {items'[n].resolved_by}
               ELSE releases'[n] = {}
    BY <1>2, <1>3, <1>4 DEF IInv, ReleasedOnce
  <2>2. \A q \in Requests :
          request'[q].reply = "ok" /\ Op(q)' = "release" => q \in releases'[Message(q)']
    BY <1>3, ReleasesGrow
  <2> QED
    BY <2>1, <2>2 DEF ReleasedOnce
<1>8. AuditMatchesRows'
  <2>1. ASSUME NEW n \in Messages
        PROVE  reports'[n] = IF n \in DOMAIN items' THEN items'[n].reported_as ELSE None
    BY <1>1, <1>2, <1>4, <1>5 DEF IInv, AuditMatchesRows
  <2>2. recorded' = DOMAIN decisions'
    BY <1>3 DEF IInv, AuditMatchesRows
  <2>3. ASSUME NEW n \in DOMAIN items'
        PROVE  /\ items'[n].decision \in DOMAIN decisions'
               /\ decisions'[items'[n].decision] = [message |-> n, action |-> "quarantine"]
    <3>1. n \in DOMAIN items /\ items'[n].decision = items[n].decision
      BY <1>2, <1>4
    <3> QED
      BY <1>3, <3>1 DEF IInv, AuditMatchesRows
  <2> QED
    BY <2>1, <2>2, <2>3 DEF AuditMatchesRows
<1> QED
  BY <1>4, <1>6, <1>7, <1>8 DEF IInv

\* A commit keeps the invariant, whether its client learns of it or not.
LEMMA CommitStep ==
  ASSUME IInv, NEW r \in Requests, Ends(r), CommitTx(r)
  PROVE  IInv'
<1>1. CASE Op(r) = "decide"
  BY <1>1, DecisionStep DEF CommitTx
<1>2. CASE Op(r) = "release"
  BY <1>2, ReleaseStep DEF CommitTx
<1>3. CASE Op(r) = "report"
  BY <1>3, ReportStep DEF CommitTx
<1> QED
  BY <1>1, <1>2, <1>3, OperationTyped DEF IInv

\* A rollback leaves the tables alone and gives the lock back.
LEMMA RollbackStep ==
  ASSUME IInv, NEW r \in Requests, Ends(r), request'[r].reply = "Internal",
         UNCHANGED tables
  PROVE  IInv'
<1>1. /\ LockedRowsCurrent' /\ LocksHeld' /\ DecidedOnce'
      /\ lock' \in [Messages -> Requests \cup {None}]
  BY OthersKept DEF tables
<1>2. TypeOK' /\ ReleasedOnce' /\ AuditMatchesRows'
  BY <1>1, TablesKept DEF Ends
<1> QED
  BY <1>1, <1>2 DEF IInv

-----------------------------------------------------------------------------
\* Every step keeps the invariant.
LEMMA NextIInv == IInv /\ [Next]_vars => IInv'
<1> SUFFICES ASSUME IInv, [Next]_vars PROVE IInv'
  OBVIOUS
<1> TypeOK
  BY DEF IInv
<1>1. ASSUME NEW r \in Requests, RecordDecision(r) PROVE IInv'
  BY <1>1, LockStep, NoLockStep DEF RecordDecision
<1>2. ASSUME NEW r \in Requests, ReleaseItem(r) PROVE IInv'
  BY <1>2, LockStep, NotFoundStep DEF ReleaseItem
<1>3. ASSUME NEW r \in Requests, ReportItem(r) PROVE IInv'
  BY <1>3, LockStep, NotFoundStep DEF ReportItem
<1>4. ASSUME NEW r \in Requests, Commit(r) PROVE IInv'
  <2>1. Ends(r)
    BY <1>4, ReplyTyped DEF Commit, Ends, TypeOK
  <2> QED
    BY <1>4, <2>1, CommitStep DEF Commit
<1>5. ASSUME NEW r \in Requests, Fail(r) PROVE IInv'
  <2>1. faults' \in 0..MaxFaults
    BY <1>5 DEF Fail, TypeOK
  <2>2. Ends(r) /\ request'[r].reply = "Internal"
    BY <1>5, <2>1, ReplyTyped DEF Fail, Ends
  <2> QED
    BY <1>5, <2>2, CommitStep, RollbackStep DEF Fail
<1>6. CASE UNCHANGED vars
  <2>1. TypeOK' /\ ReleasedOnce' /\ AuditMatchesRows'
    BY <1>6 DEF IInv, TypeOK, ReleasedOnce, AuditMatchesRows, Op, Message, vars
  <2>2. LockedRowsCurrent' /\ LocksHeld' /\ DecidedOnce'
    BY <1>6 DEF IInv, LockedRowsCurrent, LocksHeld, DecidedOnce, Op, Message, vars
  <2> QED
    BY <2>1, <2>2 DEF IInv
<1> QED
  BY <1>1, <1>2, <1>3, <1>4, <1>5, <1>6 DEF Next

\* In every behaviour, every state satisfies the invariant.
THEOREM InductiveInvariant == Spec => []IInv
BY InitIInv, NextIInv, PTL DEF Spec

\* abuse-api's tables and handlers keep their types.
THEOREM TypeCorrectness == Spec => []TypeOK
<1>1. IInv => TypeOK
  BY DEF IInv
<1> QED
  BY <1>1, InductiveInvariant, PTL

\* release_item releases a held message once, and says so to one client at most, however
\* many operators, retries and lost acknowledgements there are.
THEOREM ReleaseIsOnce == Spec => []ReleasedOnce
<1>1. IInv => ReleasedOnce
  BY DEF IInv
<1> QED
  BY <1>1, InductiveInvariant, PTL

\* What audit_log says of decisions, releases and reports is what the rows show.
THEOREM AuditIsTrue == Spec => []AuditMatchesRows
<1>1. IInv => AuditMatchesRows
  BY DEF IInv
<1> QED
  BY <1>1, InductiveInvariant, PTL

\* What an UPDATE of release_item or report_item saw still holds at its commit.
THEOREM LocksProtect == Spec => []LockedRowsCurrent
<1>1. IInv => LockedRowsCurrent
  BY DEF IInv
<1> QED
  BY <1>1, InductiveInvariant, PTL
=============================================================================
