-------------------------- MODULE MCConfigCompiler --------------------------
(* Small instances of ConfigCompiler for TLC. *)
EXTENDS ConfigCompiler

\* Two slugs that validate_slug accepts, and one it does not.
MCSlugs == {<<"a", "-", "b">>, <<"a", "-", "c">>, <<"a", "_", "b">>}

\* A policy that validate_policy accepts, and one it does not.
MCThresholds ==
  { [reject |-> 9, add_header |-> 5, greylist |-> 2],
    [reject |-> 5, add_header |-> 9, greylist |-> 2] }
=============================================================================
