--------------------------- MODULE MCOAuthRefresh ---------------------------
(* Finite instances of OAuthRefresh.                                       *)
EXTENDS OAuthRefresh, TLC

\* Interchangeable processes.
Symmetric == Permutations(Due) \cup Permutations(Manual)
=============================================================================
