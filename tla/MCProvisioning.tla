--------------------------- MODULE MCProvisioning ---------------------------
(* Small instances of Provisioning for TLC. *)
EXTENDS Provisioning, TLC

CONSTANTS t1, d1, joe

\* The one domain belongs to t1; a request may name another tenant.
MCDomainTenant == [d \in Domains |-> t1]
MCRejectJoe == {<<joe, d1>>}
MCSymmetry ==
  Permutations(Requests) \cup Permutations(Runners) \cup Permutations(UserIds)
=============================================================================
