----------------------------- MODULE MCTenantDb -----------------------------
(* Small instances of TenantDb for TLC: the constants are model values. *)
EXTENDS TenantDb
=============================================================================
