--------------------------- MODULE MCAccountPool ---------------------------
(* Instances of AccountPool for TLC; the cfg files give the constants.     *)
EXTENDS AccountPool, TLC

\* Requests, conversations and accounts are interchangeable: no definition
\* tells one from another.
Symmetry ==
  Permutations(Requests) \cup Permutations(Sessions) \cup Permutations(Profiles)
=============================================================================
