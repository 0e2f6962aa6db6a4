-------------------------- MODULE MCAdminSessions --------------------------
(* Finite instances of AdminSessions.                                      *)
EXTENDS AdminSessions, TLC

\* Interchangeable processes.
Symmetric == Permutations(Logins) \cup Permutations(Checks) \cup Permutations(Changes)
============================================================================
