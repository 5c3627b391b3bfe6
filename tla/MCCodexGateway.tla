--------------------------- MODULE MCCodexGateway ---------------------------
(* Instances of CodexGateway for TLC; the cfg files give the constants.    *)
EXTENDS CodexGateway, TLC

\* Requests are interchangeable.
Symmetry == Permutations(Requests)
=============================================================================
