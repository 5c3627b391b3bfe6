---------------------------- MODULE MCAdminLogin ----------------------------
(* Instances of AdminLogin for TLC; the cfg files give the constants.      *)
EXTENDS AdminLogin, TLC

\* Job ids are random; no definition tells one from another.
Symmetry == Permutations(Jobs)
=============================================================================
