------------------------------ MODULE MCRegistry ------------------------------
(* Instances of Registry: every id is a model value, and ids of one kind that start in the *)
(* same state are interchangeable.                                                         *)
EXTENDS Registry, TLC

Exchangeable ==
  Permutations(Requests) \cup Permutations(Keys) \cup Permutations(Existing \cap DbIds)
==============================================================================
