----------------------------- MODULE Quarantine -----------------------------
(***************************************************************************)
(* abuse-api: the decisions that the mail pipeline records for the messages *)
(* of one tenant, and the quarantine workflow of those that are held.      *)
(*                                                                         *)
(* Each handler is one transaction.  Its first statement that writes a     *)
(* quarantine_item takes the row's lock (or, for an INSERT, the unique     *)
(* index entry of its message_ref) and sees the row as last committed; the *)
(* row and the audit row appear at the commit.  Between the two, other     *)
(* handlers run, and one that needs the lock waits.  This is PostgreSQL's  *)
(* READ COMMITTED.  A message has at most one item (UNIQUE) and no item is *)
(* deleted, so an item's id is its message.                                *)
(***************************************************************************)
EXTENDS Naturals, FiniteSets

CONSTANTS
  Requests,    \* the HTTP requests; each is also the id of the row it inserts
  Messages,    \* message_ref
  None,        \* SQL NULL, and no holder of a lock
  MaxFaults    \* bound on database errors, crashes and lost replies

ASSUME QuarantineAssumption == None \notin Requests /\ MaxFaults \in Nat

VARIABLES
  decisions,    \* abuse_decision: the message and action of each committed row
  items,        \* quarantine_item, by message
  releases,     \* the requests with a quarantine.release row in audit_log
  reports,      \* the verdict of each item's last quarantine.report row
  recorded,     \* the requests with an abuse.decision row in audit_log
  lock,         \* the transaction that holds each item's row
  request,      \* the handlers
  wanted,       \* is each message held by its last decision, and not released since?
  faults

vars == <<decisions, items, releases, reports, recorded, lock, request, wanted, faults>>
tables == <<decisions, items, releases, reports, recorded, wanted>>

Actions == {"accept", "junk", "quarantine", "reject", "discard"}
Feedback == {"spam", "ham"}

Decision == [message : Messages, action : Actions]
Item ==
  [decision : Requests, status : {"held", "released"},
   reported_as : Feedback \cup {None}, resolved_by : Requests \cup {None}]

\* What the handlers accept: VALID_ACTIONS, of which only "quarantine" is told
\* apart below, and report_item's 'spam' or 'ham'.
\* Mutant: report_item does not validate its verdict.
OperationUnvalidated ==
  [op : {"decide"}, message : Messages, arg : {"accept", "quarantine"}]
    \cup [op : {"release"}, message : Messages, arg : {"none"}]
    \cup [op : {"report"}, message : Messages, arg : Feedback \cup {"phishing"}]
Operation ==
  [op : {"decide"}, message : Messages, arg : {"accept", "quarantine"}]
    \cup [op : {"release"}, message : Messages, arg : {"none"}]
    \cup [op : {"report"}, message : Messages, arg : Feedback]

Handler ==
  [operation : Operation, pc : {"idle", "commit", "done"},
   reply : {"none", "ok", "NotFound", "Internal"}]

TypeOK ==
  /\ DOMAIN decisions \subseteq Requests /\ decisions \in [DOMAIN decisions -> Decision]
  /\ DOMAIN items \subseteq Messages /\ items \in [DOMAIN items -> Item]
  /\ releases \in [Messages -> SUBSET Requests]
  /\ reports \in [Messages -> Feedback \cup {None}]
  /\ recorded \subseteq Requests
  /\ lock \in [Messages -> Requests \cup {None}]
  /\ request \in [Requests -> Handler]
  /\ wanted \in [Messages -> BOOLEAN]
  /\ faults \in 0..MaxFaults

Init ==
  /\ decisions = [r \in {} |-> None]
  /\ items = [m \in {} |-> None]
  /\ releases = [m \in Messages |-> {}]
  /\ reports = [m \in Messages |-> None]
  /\ recorded = {}
  /\ lock = [m \in Messages |-> None]
  /\ request \in [Requests -> { [operation |-> o, pc |-> "idle", reply |-> "none"] :
                                  o \in Operation }]
  /\ wanted = [m \in Messages |-> FALSE]
  /\ faults = 0

-----------------------------------------------------------------------------
Op(r) == request[r].operation.op
Message(r) == request[r].operation.message
Arg(r) == request[r].operation.arg

Reply(r, reply) ==
  request' = [request EXCEPT ![r] = [@ EXCEPT !.pc = "done", !.reply = reply]]

Unlock(r) == lock' = [m \in Messages |-> IF lock[m] = r THEN None ELSE lock[m]]

\* The row lock is taken by the statement that writes the item.
Lock(r) ==
  /\ lock[Message(r)] = None
  /\ lock' = [lock EXCEPT ![Message(r)] = r]
  /\ request' = [request EXCEPT ![r].pc = "commit"]

-----------------------------------------------------------------------------
(* record_decision *)

\* The pipeline's INSERT of a decision.  Only the action "quarantine" writes an
\* item: the INSERT waits for another INSERT of the same message_ref that has not
\* committed; ON CONFLICT DO NOTHING does not wait for a row that is there.
RecordDecision(r) ==
  /\ request[r].pc = "idle" /\ Op(r) = "decide"
  /\ IF Arg(r) = "quarantine" /\ Message(r) \notin DOMAIN items
     THEN Lock(r)
     ELSE /\ request' = [request EXCEPT ![r].pc = "commit"]
          /\ UNCHANGED lock
  /\ UNCHANGED <<tables, faults>>

\* The item that a held message gets.
Hold(r) ==
  items' = [m \in DOMAIN items \cup {Message(r)} |->
              IF m \notin DOMAIN items
              THEN [decision |-> r, status |-> "held",
                    reported_as |-> None, resolved_by |-> None]
              ELSE items[m]]

CommitDecision(r) ==
  /\ decisions' = [d \in DOMAIN decisions \cup {r} |->
                     IF d = r THEN [message |-> Message(r), action |-> Arg(r)]
                     ELSE decisions[d]]
  /\ recorded' = recorded \cup {r}
  /\ wanted' = [wanted EXCEPT ![Message(r)] = (Arg(r) = "quarantine")]
  /\ IF Arg(r) = "quarantine" THEN Hold(r) ELSE UNCHANGED items
  /\ UNCHANGED <<releases, reports>>

-----------------------------------------------------------------------------
(* release_item and report_item *)

\* UPDATE ... WHERE id = $1 AND status = 'held': no row is a 404.
\* Mutant: the UPDATE has no condition on the status.
ReleasableAnyStatus(m) == m \in DOMAIN items
Releasable(m) == m \in DOMAIN items /\ items[m].status = "held"

ReleaseItem(r) ==
  /\ request[r].pc = "idle" /\ Op(r) = "release"
  /\ \/ Releasable(Message(r)) /\ Lock(r)
     \/ /\ ~Releasable(Message(r))
        /\ Reply(r, "NotFound")
        /\ UNCHANGED lock
  /\ UNCHANGED <<tables, faults>>

CommitRelease(r) ==
  /\ items' = [items EXCEPT ![Message(r)] =
                 [@ EXCEPT !.status = "released", !.resolved_by = r]]
  /\ releases' = [releases EXCEPT ![Message(r)] = @ \cup {r}]
  /\ wanted' = [wanted EXCEPT ![Message(r)] = FALSE]
  /\ UNCHANGED <<decisions, reports, recorded>>

\* UPDATE ... SET reported_as WHERE id = $1, whatever the status.
ReportItem(r) ==
  /\ request[r].pc = "idle" /\ Op(r) = "report"
  /\ \/ Message(r) \in DOMAIN items /\ Lock(r)
     \/ /\ Message(r) \notin DOMAIN items
        /\ Reply(r, "NotFound")
        /\ UNCHANGED lock
  /\ UNCHANGED <<tables, faults>>

\* Mutant: the audit row keeps the first feedback.
CommitReportFirst(r) ==
  /\ items' = [items EXCEPT ![Message(r)].reported_as = Arg(r)]
  /\ reports' = [reports EXCEPT ![Message(r)] = IF @ = None THEN Arg(r) ELSE @]
  /\ UNCHANGED <<decisions, releases, recorded, wanted>>
CommitReport(r) ==
  /\ items' = [items EXCEPT ![Message(r)].reported_as = Arg(r)]
  /\ reports' = [reports EXCEPT ![Message(r)] = Arg(r)]
  /\ UNCHANGED <<decisions, releases, recorded, wanted>>

-----------------------------------------------------------------------------
CommitTx(r) ==
  CASE Op(r) = "decide" -> CommitDecision(r)
    [] Op(r) = "release" -> CommitRelease(r)
    [] Op(r) = "report" -> CommitReport(r)

\* Mutant: the reply is sent and the transaction is left open.
CommitKeepsLock(r) ==
  /\ request[r].pc = "commit"
  /\ CommitTx(r)
  /\ Reply(r, "ok")
  /\ UNCHANGED <<faults, lock>>
Commit(r) ==
  /\ request[r].pc = "commit"
  /\ CommitTx(r)
  /\ Unlock(r)
  /\ Reply(r, "ok")
  /\ UNCHANGED faults

\* A database error or a dropped handler: rolled back, or committed and the
\* acknowledgement lost.  Either way the client sees a failure and may retry.
\* Mutant: the error is swallowed.
FailAnswersOk(r) ==
  /\ request[r].pc = "commit"
  /\ faults < MaxFaults
  /\ faults' = faults + 1
  /\ UNCHANGED tables \/ CommitTx(r)
  /\ Unlock(r)
  /\ Reply(r, "ok")
Fail(r) ==
  /\ request[r].pc = "commit"
  /\ faults < MaxFaults
  /\ faults' = faults + 1
  /\ UNCHANGED tables \/ CommitTx(r)
  /\ Unlock(r)
  /\ Reply(r, "Internal")

Next ==
  \E r \in Requests :
    \/ RecordDecision(r)
    \/ ReleaseItem(r)
    \/ ReportItem(r)
    \/ Commit(r)
    \/ Fail(r)

Spec == Init /\ [][Next]_vars

\* Every handler that can run does; a lock is held by one that can.
Fairness ==
  \A r \in Requests : WF_vars(RecordDecision(r) \/ ReleaseItem(r) \/ ReportItem(r)
                                \/ Commit(r))

FairSpec == Spec /\ Fairness

-----------------------------------------------------------------------------
\* A held message is released at most once, however many operators and retries race:
\* it is released iff one quarantine.release was audited, resolved_by names the actor
\* of that audit row, and a client that got 200 for its release is that actor.
ReleasedOnce ==
  /\ \A m \in Messages :
       IF m \in DOMAIN items /\ items[m].status = "released"
       THEN releases[m] = {items[m].resolved_by}
       ELSE releases[m] = {}
  /\ \A r \in Requests :
       request[r].reply = "ok" /\ Op(r) = "release" => r \in releases[Message(r)]

\* The audit rows and the workflow rows agree: the feedback that an item shows (the
\* Bayes training signal) is the one audited last, every decision is audited, and an
\* item belongs to a decision that held its message.
AuditMatchesRows ==
  /\ \A m \in Messages :
       reports[m] = IF m \in DOMAIN items THEN items[m].reported_as ELSE None
  /\ recorded = DOMAIN decisions
  /\ \A m \in DOMAIN items :
       /\ items[m].decision \in DOMAIN decisions
       /\ decisions[items[m].decision] = [message |-> m, action |-> "quarantine"]

\* What a handler was told under its lock still holds when it commits: the row it
\* updates is there, and the one it releases is still held.
LockedRowsCurrent ==
  \A r \in Requests :
    request[r].pc = "commit" =>
      /\ Op(r) \in {"release", "report"} =>
           lock[Message(r)] = r /\ Message(r) \in DOMAIN items
      /\ Op(r) = "release" => items[Message(r)].status = "held"

\* Nobody waits for a row lock for ever.
EveryRequestEnds == \A r \in Requests : <>(request[r].pc = "done")

\* models.rs: "When `action` is `quarantine`, a quarantine_item is created in the
\* same transaction": a message whose last decision is to hold it, and that was
\* not released since, is in the console's list of held items.
QuarantinedIsHeld ==
  \A m \in Messages : wanted[m] => m \in DOMAIN items /\ items[m].status = "held"
=============================================================================
