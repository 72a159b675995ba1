----------------------------- MODULE MCExecutor -----------------------------
(* Symmetry for checking Executor with TLC. *)
EXTENDS Executor, TLC

\* An authenticating executor that learns its AVSs from the management service, one
\* with a configured AVS in Docker, both on badger, and one in Kubernetes mode in memory.
MCConfs == {[auth |-> TRUE, badger |-> TRUE, avss |-> {}, mode |-> "docker"],
            [auth |-> FALSE, badger |-> TRUE, avss |-> Avss, mode |-> "docker"],
            [auth |-> FALSE, badger |-> FALSE, avss |-> Avss, mode |-> "kubernetes"]}

ExecutorSymmetry == Permutations(Performers)

=============================================================================
