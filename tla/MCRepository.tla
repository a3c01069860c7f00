---------------------------- MODULE MCRepository ----------------------------
(***************************************************************************)
(* Model checking of RepositoryStore with several sessions: no definition  *)
(* tells one session from another, so their permutations are symmetric for *)
(* safety properties.                                                      *)
(***************************************************************************)
EXTENDS RepositoryInvariant, TLC

SessionSymmetry == Permutations(Sessions)
=============================================================================
