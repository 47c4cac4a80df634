-------------------------- MODULE MCSessionStore --------------------------
(* Instances of SessionStore for TLC. *)
EXTENDS SessionStore, TLC

\* Workers serve any request; names other than Root are alike in an instance that
\* puts all of them in the directory.
Symmetry == Permutations(Workers) \cup Permutations(Names \ {Root})
=============================================================================
