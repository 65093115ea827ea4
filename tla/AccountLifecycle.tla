-------------------------- MODULE AccountLifecycle --------------------------
(***************************************************************************)
(* What the control plane promises about mail accounts, whatever the       *)
(* replicas, retries and failures behind it: an address is registered at   *)
(* most once, and an account is linked to a sesame-idam user at most once, *)
(* for good, to a user that no other account has.                          *)
(***************************************************************************)
CONSTANTS Accounts, Emails, UserIds

VARIABLES
  email,    \* the registered accounts, each with its address
  owner     \* the active accounts, each with its sesame-idam user

lifecycleVars == <<email, owner>>

LifecycleInit ==
  /\ email = [a \in {} |-> CHOOSE e \in Emails : TRUE]
  /\ owner = [a \in {} |-> CHOOSE u \in UserIds : TRUE]

Register(a, e) ==
  /\ a \notin DOMAIN email
  /\ \A b \in DOMAIN email : email[b] # e
  /\ email' = [b \in DOMAIN email \cup {a} |-> IF b = a THEN e ELSE email[b]]
  /\ UNCHANGED owner

Activate(a, u) ==
  /\ a \in DOMAIN email
  /\ a \notin DOMAIN owner
  /\ \A b \in DOMAIN owner : owner[b] # u
  /\ owner' = [b \in DOMAIN owner \cup {a} |-> IF b = a THEN u ELSE owner[b]]
  /\ UNCHANGED email

LifecycleNext ==
  \E a \in Accounts :
    \/ \E e \in Emails : Register(a, e)
    \/ \E u \in UserIds : Activate(a, u)

LifecycleSpec == LifecycleInit /\ [][LifecycleNext]_lifecycleVars
=============================================================================
