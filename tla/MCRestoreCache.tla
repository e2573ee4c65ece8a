---------------------------- MODULE MCRestoreCache ----------------------------
(* Two baselines, either of whose copies fits the cache, but not both.     *)
EXTENDS RestoreCache, TLC

Sizes == [g \in Generations |-> g]
Same == Permutations(Restores)

=============================================================================
