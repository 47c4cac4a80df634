-------------------------- MODULE MCBackupRestore --------------------------
(* Instances of BackupRestore for TLC.                                      *)
EXTENDS BackupRestore, TLC

CONSTANT oidc

MCMethods == {{}, {Local}, {oidc}}

\* Goroutines differ in nothing, nor do users.
MCSymmetry == Permutations(Workers) \cup Permutations(Names)
=============================================================================
