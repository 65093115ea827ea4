------------------------- MODULE MCServiceLifecycle -------------------------
(* Small instances of ServiceLifecycle for TLC. *)
EXTENDS ServiceLifecycle

CONSTANTS job, old, new, plain, stray

Env(known, run, only, privileged) ==
  [known |-> known, run |-> run, only |-> only,
   privileged |-> privileged, allowed |-> only]

\* The Job, which connects as a privileged role by leave; replicas of the old and of the
\* new image, which migrate at startup; one that leaves it to the Job, as deployed; and
\* one that has a privileged role by mistake.
MCConfig ==
  [p \in Processes |->
     CASE p = job -> Env(2, FALSE, TRUE, TRUE)
       [] p = old -> Env(1, TRUE, FALSE, FALSE)
       [] p = new -> Env(2, TRUE, FALSE, FALSE)
       [] p = plain -> Env(2, FALSE, FALSE, FALSE)
       [] p = stray -> Env(2, FALSE, FALSE, TRUE)]
=============================================================================
