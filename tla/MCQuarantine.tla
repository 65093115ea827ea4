---------------------------- MODULE MCQuarantine ----------------------------
(* Small instances of Quarantine for TLC: the constants are model values. *)
EXTENDS Quarantine
=============================================================================
