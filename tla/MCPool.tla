------------------------------- MODULE MCPool -------------------------------
(* Small instances of Pool for TLC.  Workers and jobs are interchangeable.  *)
EXTENDS Pool, TLC

PoolSymmetry == Permutations(Workers) \cup Permutations(Jobs)
=============================================================================
