------------------------ MODULE MCContainerPerformer ------------------------
(* Model values and symmetry for checking ContainerPerformer with TLC. *)
EXTENDS ContainerPerformer, TLC

PerformerSymmetry == Permutations(Performers) \cup Permutations(Tasks)

=============================================================================
