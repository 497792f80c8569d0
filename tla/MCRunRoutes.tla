----------------------------- MODULE MCRunRoutes -----------------------------
(* Small instances of RunRoutes for TLC; requests are interchangeable.     *)
EXTENDS RunRoutes, TLC

Symmetry == Permutations(Requests)
=============================================================================
