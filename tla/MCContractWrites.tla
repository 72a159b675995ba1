-------------------------- MODULE MCContractWrites --------------------------
(* A submission beside every other call, a second submission included. *)
EXTENDS ContractWrites

CONSTANTS w1, w2

Choices ==
    {c \in [Writers -> DOMAIN PonosCalls \cup DOMAIN HgctlCalls] :
        /\ c[w1] = "SubmitBN254TaskResult"
        /\ c[w2] # c[w1]}

(* An operator that is set up but for the sets of the AVS, or not at all. *)
Contracts ==
    {{"operator", "avs", "key", "pending", "admin", "appointee"}, {"curve"}}

=============================================================================
