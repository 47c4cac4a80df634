--------------------------- MODULE MCSetupWizard ---------------------------
(* Instances of SetupWizard for TLC.                                        *)
EXTENDS SetupWizard, TLC

CONSTANTS i1, staff, roles

\* Local accounts; the same beside a proxy, with another group; a proxy alone; OIDC alone,
\* with a claim of its own.
MCForms == {
    [proxy |-> FALSE, local |-> TRUE, trusted |-> "none", issuer |-> Off,
     claim |-> Blank, group |-> Blank],
    [proxy |-> TRUE, local |-> TRUE, trusted |-> "listed", issuer |-> Off,
     claim |-> Blank, group |-> staff],
    [proxy |-> TRUE, local |-> FALSE, trusted |-> "listed", issuer |-> Off,
     claim |-> Blank, group |-> Blank],
    [proxy |-> FALSE, local |-> FALSE, trusted |-> "none", issuer |-> i1,
     claim |-> roles, group |-> staff]}

Symmetry == Permutations(Workers) \cup Permutations(Names)
=============================================================================
