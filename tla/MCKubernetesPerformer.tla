----------------------- MODULE MCKubernetesPerformer -----------------------
(* Two performers, of which the second replaces the first, for TLC. *)
EXTENDS KubernetesPerformer, TLC

KubernetesSymmetry ==
    Permutations(Performers) \cup Permutations(Callers) \cup Permutations(Tasks)
=============================================================================
