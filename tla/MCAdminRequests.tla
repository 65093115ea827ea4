-------------------------- MODULE MCAdminRequests --------------------------
(* Small instances of AdminRequests for TLC. *)
EXTENDS AdminRequests

Repeat(char, n) == [i \in 1..n |-> char]

ab == <<"a", "b">>
bDotAb == <<"b", ".", "a", "b">>

\* The shortest and the longest slug, and their neighbours.
MCSlugs == {ab, Repeat("a", 63)}
MCBadSlugs == {<<"a">>, <<"a", "-">>, Repeat("a", 64)}
MCAllSlugs == MCSlugs \cup MCBadSlugs
MCFqdns == {bDotAb}
MCPolicies == { [reject |-> 9, add_header |-> 5, greylist |-> g] : g \in {2, 5} }

MCInputs ==
  { [op |-> "tenant", slug |-> s] : s \in MCAllSlugs }
  \cup { [op |-> "domain", tenant |-> ab, fqdn |-> f] :
           f \in MCFqdns \cup {ab, <<"b", ".", "0">>} }
  \cup { [op |-> "account", tenant |-> t, fqdn |-> bDotAb, local |-> <<"a">>, quota |-> 1] :
           t \in MCSlugs }
  \cup { [op |-> "account", tenant |-> ab, fqdn |-> bDotAb, local |-> <<"a", ".">>,
           quota |-> 1],
         [op |-> "account", tenant |-> ab, fqdn |-> bDotAb, local |-> <<"a">>, quota |-> 0] }
  \cup { [op |-> "policy", tenant |-> ab, thresholds |-> p] : p \in MCPolicies }

\* validate_fqdn against the CHECK, for every name of up to five characters: they
\* differ in the last label and in nothing else.
MCNames == UNION { [1..n -> {"a", "0", "-", "."}] : n \in 0..5 }
ASSUME FqdnGrammars ==
  \A f \in MCNames :
    CheckFqdn(f) <=> /\ ValidFqdn(f)
                     /\ Len(TopLabel(f)) >= 2 /\ OverChars(TopLabel(f), Lower)
=============================================================================
