------------------------- MODULE MCAuthStateHistory -------------------------
(* A small instance of AuthStateHistory, with the shapes of MCAuthState. *)
EXTENDS AuthStateHistory, MCAuthState, TLC

\* Grants, and callers on threads of their own, differ in nothing but their name,
\* and what this instance checks is safety alone.
Symmetry == Permutations(Grants) \cup Permutations(Callers \ MainCallers)
=============================================================================
