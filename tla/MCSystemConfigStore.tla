------------------------ MODULE MCSystemConfigStore ------------------------
(* Instances of SystemConfigStore for TLC.                                  *)
EXTENDS SystemConfigStore, TLC

CONSTANTS i1, i2, staff, roles

\* A trusted proxy; OIDC beside local accounts; OIDC with its own claim beside local
\* accounts and a proxy that lost its list of networks.
MCForms == {
    [proxy |-> TRUE, local |-> FALSE, trusted |-> "listed", issuer |-> Off,
     claim |-> Blank, group |-> Blank],
    [proxy |-> FALSE, local |-> TRUE, trusted |-> "listed", issuer |-> i1,
     claim |-> Blank, group |-> Blank],
    [proxy |-> TRUE, local |-> TRUE, trusted |-> "none", issuer |-> i2,
     claim |-> roles, group |-> Blank]}

\* A load may fail before the first row, or without the rows of a provider and of a proxy.
MCLosses == {DOMAIN Defaults, {"issuer", "trusted"}}

\* Bound: requests do not overlap while settings loaded in part may be about.
MCMixedAlone ==
    "mixed" \in mishaps =>
        \A v, w \in Workers : pc[v] # "idle" /\ pc[w] # "idle" => v = w

Symmetry == Permutations(Workers)
=============================================================================
