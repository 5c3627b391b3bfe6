---------------------------- MODULE MCContinuity ----------------------------
(* Instances of Continuity for TLC; the cfg files give the constants.      *)
EXTENDS Continuity, TLC

\* The reasoning efforts of one model.
OneFamily(m) == "family"

Symmetry ==
  Permutations(Requests) \cup Permutations(Sessions) \cup Permutations(Profiles)
=============================================================================
