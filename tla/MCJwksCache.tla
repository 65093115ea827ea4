---------------------------- MODULE MCJwksCache ----------------------------
(* Small instances of JwksCache for TLC. *)
EXTENDS JwksCache

CONSTANTS k1, ec

\* Good tokens, one of which expires, one of each defect, and one whose key is no
\* Ed25519 key.
MCTokens ==
  { [kid |-> k1, defect |-> "none", exp |-> e] : e \in {0, 1} }
  \cup { [kid |-> k1, defect |-> d, exp |-> 0] : d \in Defect \ {"none"} }
  \cup { [kid |-> ec, defect |-> "none", exp |-> 0] }
=============================================================================
